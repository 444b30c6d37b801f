---------------------------- MODULE RulesProofs ----------------------------
(***************************************************************************)
(* For every input: the two policies agree, every timestamp is the instant   *)
(* the calendar gives it, a site that went up the release ladder keeps what  *)
(* it ever released, a plan that was computed can be read again, a source    *)
(* that is called public is, and an automatic decision has nothing to hide.  *)
(*                                                                           *)
(* One call is one behaviour, so the inductive invariant is short: Called    *)
(* says that the input is one of those assumed, Climbed that whatever was    *)
(* ever released has its continuation in the release deployed last.  The     *)
(* length is in the functions themselves, which are followed case by case.   *)
(***************************************************************************)
EXTENDS Rules, FiniteSetTheorems, NaturalsInduction, WellFoundedInduction,
        SequenceTheorems, TLAPS

----------------------------------------------------------------------------
(* The two policies. *)

\* The two implementations decide every reload alike.
LEMMA ReloadsAgree ==
    ASSUME NEW record, NEW c, c.ancestry \in Ancestry,
           c.semantic \in SemanticValidity, c.persistence \in Persistence
    PROVE  JsEvaluateReload(record, c) = EvaluateReload(record, c)
BY DEF JsEvaluateReload, EvaluateReload, Ancestry, SemanticValidity, Persistence

\* They decide every startup alike, but for an input that Rust calls
\* inconsistent and JavaScript refuses by failing the startup.
LEMMA StartupsAgree ==
    ASSUME NEW in, Startup(in)
    PROVE  \/ JsEvaluateStartup(in) = EvaluateStartup(in)
           \/ /\ EvaluateStartup(in) = Inconsistent
              /\ JsEvaluateStartup(in).decision = "fail-startup"
BY DEF Startup, JsEvaluateStartup, EvaluateStartup, ObjectState, FailStartup, Outcome

Called ==
    /\ call = "startup" => input \in StartupInputs
    /\ call = "reload" => input \in ReloadInputs
    /\ call = "time" => input \in Moments
    /\ call = "evidence" => input \in Selections
    /\ done => call \in {"startup", "reload"}

\* A call keeps its input, and only the two policy functions return.
LEMMA CalledAlways == Spec => []Called
<1>1. Init => Called
    BY DEF Init, Called
<1>2. Called /\ [Next]_vars => Called'
    BY DEF Called, Next, Evaluate, Deploy, vars
<1> QED
    BY <1>1, <1>2, PTL DEF Spec

\* evaluateStartup and evaluateReload decide what evaluate_startup and
\* evaluate_reload decide, whatever the input.
THEOREM ImplementationsAgreeAlways == Spec => []ImplementationsAgree
<1>1. Init => ImplementationsAgree
    BY DEF Init, ImplementationsAgree
<1>2. Called /\ ImplementationsAgree /\ [Next]_vars => ImplementationsAgree'
    <2> SUFFICES ASSUME Called, ImplementationsAgree, [Next]_vars
                 PROVE  ImplementationsAgree'
        OBVIOUS
    <2>1. CASE Evaluate /\ call = "startup"
        <3>1. Startup(input)
            BY <2>1, InputAssumption DEF Called
        <3>2. rust' = EvaluateStartup(input) /\ js' = JsEvaluateStartup(input) /\ call' = call
            BY <2>1 DEF Evaluate
        <3> QED
            BY <2>1, <3>1, <3>2, StartupsAgree, Zenon DEF ImplementationsAgree
    <2>2. CASE Evaluate /\ call # "startup"
        <3>1. Reload(input)
            BY <2>2, InputAssumption DEF Called, Evaluate
        <3>2. /\ rust' = EvaluateReload(input.record, input.candidate)
              /\ js' = JsEvaluateReload(input.record, input.candidate)
            BY <2>2 DEF Evaluate
        <3> QED
            BY <3>1, <3>2, ReloadsAgree DEF ImplementationsAgree, Reload
    <2>3. CASE Deploy
        BY <2>3 DEF Deploy, ImplementationsAgree
    <2>4. CASE UNCHANGED vars
        BY <2>4 DEF vars, ImplementationsAgree
    <2> QED
        BY <2>1, <2>2, <2>3, <2>4 DEF Next
<1> QED
    BY <1>1, <1>2, CalledAlways, PTL DEF Spec


----------------------------------------------------------------------------
(* The calendar: leap years, months and days are counted one by one, and the *)
(* count is compared with the arithmetic.                                    *)

\* A set of numbers has a least one.
LEMMA Least ==
    ASSUME NEW T, T \subseteq Nat, T # {}
    PROVE  \E x \in T : \A y \in T : x <= y
<1> DEFINE R == {pair \in Nat \X Nat : pair[1] < pair[2]}
<1>1. IsWellFoundedOn(R, Nat)
    BY NatLessThanWellFounded, Zenon DEF OpToRel
<1>2. \E x \in T : \A y \in T : <<y, x>> \notin R
    <2> HIDE DEF R
    <2> QED BY <1>1, WFMin, Zenon
<1>3. PICK x \in T : \A y \in T : <<y, x>> \notin R
    BY <1>2
<1>4. ASSUME NEW y \in T PROVE x <= y
    <2>1. <<y, x>> \notin R /\ y \in Nat /\ x \in Nat
        BY <1>3
    <2>2. ~(y < x)
        BY <2>1
    <2> QED BY <2>1, <2>2
<1> QED
    BY <1>4

LeapDay(y) == IF IsLeapYear(y) THEN 1 ELSE 0

\* leap years before the year y, counted from the year 1
LeapsBefore(y) == (y - 1) \div 4 - (y - 1) \div 100 + (y - 1) \div 400

LeapYears(y) == {t \in 1970..(y - 1) : IsLeapYear(t)}

\* Dividing by 4, 100 and 400, one year on.
LEMMA LeapStep ==
    ASSUME NEW y \in Int
    PROVE  /\ LeapsBefore(y + 1) = LeapsBefore(y) + LeapDay(y)
           /\ LeapsBefore(y) \in Int
<1>1. /\ (y - 1) \div 4 = IF y % 4 = 0 THEN y \div 4 - 1 ELSE y \div 4
      /\ y \div 4 \in Int
    OBVIOUS
<1>2. /\ (y - 1) \div 100 = IF y % 100 = 0 THEN y \div 100 - 1 ELSE y \div 100
      /\ y \div 100 \in Int
    OBVIOUS
<1>3. /\ (y - 1) \div 400 = IF y % 400 = 0 THEN y \div 400 - 1 ELSE y \div 400
      /\ y \div 400 \in Int
    OBVIOUS
<1>4. /\ y % 400 = 0 => y % 100 = 0
      /\ y % 100 = 0 => y % 4 = 0
    OBVIOUS
<1>5. (y + 1) - 1 = y
    OBVIOUS
<1>6. LeapsBefore(y + 1) = y \div 4 - y \div 100 + y \div 400
    BY <1>5 DEF LeapsBefore
<1> QED
    BY <1>1, <1>2, <1>3, <1>4, <1>6 DEF LeapsBefore, LeapDay, IsLeapYear

\* What holds of a and passes from each number to the next holds from a on.
LEMMA Upwards ==
    ASSUME NEW S, NEW a \in Nat, a \in S,
           \A n \in Nat : a <= n /\ n \in S => n + 1 \in S,
           NEW b \in Nat, a <= b
    PROVE  b \in S
<1> DEFINE Wrong == {n \in Nat : a <= n /\ n \notin S}
<1> SUFFICES ASSUME b \notin S PROVE FALSE
    OBVIOUS
<1>1. Wrong \subseteq Nat /\ Wrong # {}
    OBVIOUS
<1>2. \E n \in Wrong : \A o \in Wrong : n <= o
    <2> HIDE DEF Wrong
    <2> QED BY <1>1, Least, Zenon
<1>3. PICK n \in Wrong : \A o \in Wrong : n <= o
    BY <1>2
<1>4. n # a /\ n \in Nat /\ a <= n /\ n \notin S
    BY <1>3
<1>5. n - 1 \in Nat /\ a <= n - 1 /\ n - 1 < n /\ (n - 1) + 1 = n
    BY <1>4
<1>6. n - 1 \in S
    BY <1>3, <1>5
<1> QED
    BY <1>4, <1>5, <1>6

\* The leap years since 1970 are as many as the quotients say; 477 of them
\* had been before.
LEMMA LeapCount ==
    ASSUME NEW y \in Nat, 1970 <= y
    PROVE  Cardinality(LeapYears(y)) = LeapsBefore(y) - 477
<1> DEFINE Right == {n \in Nat : /\ IsFiniteSet(LeapYears(n))
                                 /\ Cardinality(LeapYears(n)) = LeapsBefore(n) - 477}
<1>1. 1970 \in Right
    <2>1. LeapYears(1970) = {}
        BY DEF LeapYears
    <2>2. LeapsBefore(1970) = 477
        BY DEF LeapsBefore
    <2> QED BY <2>1, <2>2, FS_EmptySet
<1>2. ASSUME NEW n \in Nat, 1970 <= n, n \in Right PROVE n + 1 \in Right
    <2>1. LeapYears(n + 1) = IF IsLeapYear(n) THEN LeapYears(n) \cup {n} ELSE LeapYears(n)
        BY <1>2 DEF LeapYears
    <2>2. n \notin LeapYears(n)
        BY DEF LeapYears
    <2>3. IsFiniteSet(LeapYears(n)) /\ Cardinality(LeapYears(n)) = LeapsBefore(n) - 477
        BY <1>2
    <2>4. /\ IsFiniteSet(LeapYears(n + 1))
          /\ Cardinality(LeapYears(n + 1)) = Cardinality(LeapYears(n)) + LeapDay(n)
        <3>1. CASE IsLeapYear(n)
            BY <2>1, <2>2, <2>3, <3>1, FS_AddElement DEF LeapDay
        <3>2. CASE ~IsLeapYear(n)
            <4>1. Cardinality(LeapYears(n)) + 0 = Cardinality(LeapYears(n))
                BY <2>3, LeapStep
            <4> QED BY <2>1, <2>3, <3>2, <4>1 DEF LeapDay
        <3> QED BY <3>1, <3>2
    <2>5. LeapsBefore(n + 1) = LeapsBefore(n) + LeapDay(n) /\ LeapsBefore(n) \in Int
        BY LeapStep
    <2>6. LeapDay(n) \in Int
        BY DEF LeapDay
    <2> QED BY <2>3, <2>4, <2>5, <2>6
<1> HIDE DEF Right
<1>3. y \in Right
    BY <1>1, <1>2, Upwards, SMT
<1> QED
    BY <1>3 DEF Right

DaysBefore(y, m) ==
    {t \in (1..12) \X (1..31) : t[1] < m /\ t[2] <= DaysInMonth(y, t[1])}

\* A month has 28 to 31 days.
LEMMA MonthRange ==
    ASSUME NEW y \in Int, NEW m \in 1..12
    PROVE  DaysInMonth(y, m) \in 28..31
BY DEF DaysInMonth

\* The days before a month are those of the months before it.
LEMMA MonthStep ==
    ASSUME NEW y \in Int, NEW m \in 1..12, IsFiniteSet(DaysBefore(y, m))
    PROVE  /\ IsFiniteSet(DaysBefore(y, m + 1))
           /\ Cardinality(DaysBefore(y, m + 1)) = Cardinality(DaysBefore(y, m)) + DaysInMonth(y, m)
<1> DEFINE n == DaysInMonth(y, m)
           these == {m} \X (1..n)
<1>1. n \in 28..31
    BY MonthRange
<1> HIDE DEF n
<1>2. DaysBefore(y, m + 1) = DaysBefore(y, m) \cup these
    <2>1. ASSUME NEW t \in DaysBefore(y, m + 1) PROVE t \in DaysBefore(y, m) \cup these
        BY <1>1 DEF DaysBefore, n
    <2>2. ASSUME NEW t \in DaysBefore(y, m) PROVE t \in DaysBefore(y, m + 1)
        BY DEF DaysBefore
    <2>3. ASSUME NEW t \in these PROVE t \in DaysBefore(y, m + 1)
        BY <1>1 DEF DaysBefore, n
    <2> QED BY <2>1, <2>2, <2>3
<1>3. DaysBefore(y, m) \cap these = {}
    BY DEF DaysBefore
<1>4. IsFiniteSet(these) /\ Cardinality(these) = n
    <2>1. IsFiniteSet({m}) /\ Cardinality({m}) = 1
        BY FS_Singleton
    <2>2. IsFiniteSet(1..n) /\ Cardinality(1..n) = n
        <3>1. n \in Int /\ ~(1 > n) /\ (n - 1) + 1 = n
            BY <1>1
        <3> QED BY <3>1, FS_Interval
    <2>3. IsFiniteSet(these) /\ Cardinality(these) = Cardinality({m}) * Cardinality(1..n)
        BY <2>1, <2>2, FS_Product
    <2>4. 1 * n = n
        BY <1>1
    <2> QED BY <2>1, <2>2, <2>3, <2>4
<1>5. Cardinality(DaysBefore(y, m)) \in Nat
    BY FS_CardinalityType
<1> HIDE DEF these
<1>6. IsFiniteSet(DaysBefore(y, m) \cap these) /\ Cardinality(DaysBefore(y, m) \cap these) = 0
    BY <1>3, FS_EmptySet
<1>7. /\ IsFiniteSet(DaysBefore(y, m) \cup these)
      /\ Cardinality(DaysBefore(y, m) \cup these)
            = Cardinality(DaysBefore(y, m)) + Cardinality(these)
                 - Cardinality(DaysBefore(y, m) \cap these)
    BY <1>4, FS_Union
<1>8. \A k \in Nat : k + n - 0 = k + n
    BY <1>1
<1> QED
    BY <1>2, <1>4, <1>5, <1>6, <1>7, <1>8 DEF n

\* days of a year before its month m
DaysTo(y, m) ==
    IF m = 1 THEN 0 ELSE IF m = 2 THEN 31
    ELSE LeapDay(y) + 59 + (153 * (m - 3) + 2) \div 5

\* So are the days by the formula, in which the months begin in March.
LEMMA DaysToStep ==
    ASSUME NEW y \in Int, NEW m \in 1..11
    PROVE  DaysTo(y, m + 1) = DaysTo(y, m) + DaysInMonth(y, m)
BY DEF DaysTo, DaysInMonth, LeapDay

\* Counted and computed, they are as many.
LEMMA MonthCount ==
    ASSUME NEW y \in Int, NEW m \in 1..12
    PROVE  Cardinality(DaysBefore(y, m)) = DaysTo(y, m)
<1> DEFINE P(k) == IsFiniteSet(DaysBefore(y, k)) /\ Cardinality(DaysBefore(y, k)) = DaysTo(y, k)
<1>1. P(1)
    <2>1. DaysBefore(y, 1) = {}
        BY DEF DaysBefore
    <2> QED BY <2>1, FS_EmptySet DEF DaysTo
<1>2. ASSUME NEW k \in 1..11, P(k) PROVE P(k + 1)
    BY <1>2, MonthStep, DaysToStep
<1> HIDE DEF P
<1>3. P(2) BY <1>1, <1>2
<1>4. P(3) BY <1>3, <1>2
<1>5. P(4) BY <1>4, <1>2
<1>6. P(5) BY <1>5, <1>2
<1>7. P(6) BY <1>6, <1>2
<1>8. P(7) BY <1>7, <1>2
<1>9. P(8) BY <1>8, <1>2
<1>10. P(9) BY <1>9, <1>2
<1>11. P(10) BY <1>10, <1>2
<1>12. P(11) BY <1>11, <1>2
<1>13. P(12) BY <1>12, <1>2
<1>14. P(m)
    BY <1>1, <1>3, <1>4, <1>5, <1>6, <1>7, <1>8, <1>9, <1>10, <1>11, <1>12, <1>13
<1> QED
    BY <1>14 DEF P

IsDate(c) == c.year \in Int /\ c.month \in 1..12 /\ c.day \in Int

\* the days of a civil date, from the same number of days before the year
DayNumber(c) == 365 * (c.year - 1970) + LeapsBefore(c.year) - 477 + DaysTo(c.year, c.month) + c.day - 1

\* days_from_civil numbers the days in the order of the calendar.
LEMMA CivilToDays ==
    ASSUME NEW c, IsDate(c)
    PROVE  DaysFromCivil(c) = DayNumber(c)
<1> DEFINE y == IF c.month <= 2 THEN c.year - 1 ELSE c.year
           s == IF c.month > 2 THEN c.month - 3 ELSE c.month + 9
           era == y \div 400
           yoe == y - era * 400
<1>1. y \in Int /\ s \in 0..11 /\ c.day \in Int
    BY DEF IsDate
<1>2. era \in Int /\ yoe \in Int
    BY <1>1
<1>3. DaysFromCivil(c) = era * 146097 + (yoe * 365 + yoe \div 4 - yoe \div 100
                           + ((153 * s + 2) \div 5 + c.day - 1)) - 719468
    BY SMT DEF DaysFromCivil
<1>4. LeapsBefore(y + 1) = 97 * era + yoe \div 4 - yoe \div 100
    <2>1. y = 400 * era + yoe
        BY <1>1, <1>2
    <2>2. (y + 1) - 1 = y
        BY <1>1
    <2> HIDE DEF era, yoe, y
    <2>3. y \div 4 = 100 * era + yoe \div 4
        BY <2>1, <1>2
    <2>4. y \div 100 = 4 * era + yoe \div 100
        BY <2>1, <1>2
    <2>5. y \div 400 = era
        BY DEF era
    <2>6. yoe \div 4 \in Int /\ yoe \div 100 \in Int
        BY <1>2
    <2> QED BY <2>2, <2>3, <2>4, <2>5, <2>6, <1>2 DEF LeapsBefore
<1> DEFINE M == (153 * s + 2) \div 5
<1>5. M \in Int
    BY <1>1
<1>6. yoe \div 4 \in Int /\ yoe \div 100 \in Int
    BY <1>2
<1>7. DaysFromCivil(c) = 365 * y + LeapsBefore(y + 1) + M + c.day - 1 - 719468
    <2> HIDE DEF M, y, s
    <2> DEFINE a == yoe \div 4
               b == yoe \div 100
    <2>1. y = 400 * era + yoe
        BY <1>1, <1>2
    <2>2. a \in Int /\ b \in Int /\ LeapsBefore(y + 1) = 97 * era + a - b
        BY <1>4, <1>6
    <2>3. DaysFromCivil(c) = era * 146097 + (yoe * 365 + a - b + (M + c.day - 1)) - 719468
        BY <1>3, SMT DEF M
    <2> HIDE DEF a, b, era, yoe
    <2> QED BY <1>1, <1>2, <1>5, <2>1, <2>2, <2>3, SMT
<1>8. LeapsBefore(c.year) \in Int /\ LeapsBefore(c.year + 1) = LeapsBefore(c.year) + LeapDay(c.year)
    BY LeapStep DEF IsDate
<1>9. CASE c.month > 2
    <2>1. y = c.year /\ s = c.month - 3
        BY <1>9 DEF IsDate
    <2>2. DaysTo(c.year, c.month) = LeapDay(c.year) + 59 + M
        BY <1>9, <2>1 DEF DaysTo, IsDate
    <2> HIDE DEF M
    <2>3. LeapDay(c.year) \in Int /\ c.year \in Int
        BY DEF LeapDay, IsDate
    <2> HIDE DEF y, s
    <2>4. DaysFromCivil(c) = 365 * c.year + LeapsBefore(c.year + 1) + M + c.day - 1 - 719468
        BY <1>7, <2>1, SMT
    <2> DEFINE l == LeapDay(c.year)
               L == LeapsBefore(c.year)
    <2>5. DaysFromCivil(c) = 365 * c.year + (L + l) + M + c.day - 1 - 719468
        BY <1>8, <2>4
    <2>6. DayNumber(c) = 365 * (c.year - 1970) + L - 477 + (l + 59 + M) + c.day - 1
        BY <2>2, SMT DEF DayNumber
    <2>7. l \in Int /\ L \in Int /\ c.year \in Int /\ c.day \in Int /\ M \in Int
        BY <1>1, <1>5, <1>8, <2>3
    <2> HIDE DEF l, L
    <2> QED BY <2>5, <2>6, <2>7, SMT
<1>10. CASE c.month <= 2
    <2>1. y = c.year - 1 /\ (c.year - 1) + 1 = c.year
        BY <1>10 DEF IsDate
    <2>2. M = 306 + DaysTo(c.year, c.month)
        <3>1. CASE c.month = 1
            BY <3>1 DEF DaysTo
        <3>2. CASE c.month = 2
            BY <3>2 DEF DaysTo
        <3> QED BY <1>10, <3>1, <3>2 DEF IsDate
    <2>3. DaysTo(c.year, c.month) \in Int /\ c.year \in Int
        BY <1>10 DEF DaysTo, IsDate
    <2> HIDE DEF M
    <2> QED BY <1>1, <1>5, <1>7, <1>8, <2>1, <2>2, <2>3, SMT DEF DayNumber
<1> QED
    BY <1>9, <1>10 DEF IsDate

\* And it counts them: the days of whole years, whole months and the month.
LEMMA CountedDays ==
    ASSUME NEW c, IsDate(c), 1970 <= c.year
    PROVE  Counted(c) = DaysFromCivil(c)
<1>1. Counted(c) = 365 * (c.year - 1970) + Cardinality(LeapYears(c.year))
                   + Cardinality(DaysBefore(c.year, c.month)) + c.day - 1
    BY DEF Counted, LeapYears, DaysBefore
<1>2. Cardinality(LeapYears(c.year)) = LeapsBefore(c.year) - 477
    BY LeapCount DEF IsDate
<1>3. Cardinality(DaysBefore(c.year, c.month)) = DaysTo(c.year, c.month)
    BY MonthCount DEF IsDate
<1>4. LeapsBefore(c.year) \in Int
    BY LeapStep DEF IsDate
<1>5. c.year \in Int /\ c.day \in Int /\ DaysTo(c.year, c.month) \in Int
    BY DEF IsDate, DaysTo, LeapDay
<1>6. DaysFromCivil(c) = DayNumber(c)
    BY CivilToDays
<1> QED
    BY <1>1, <1>2, <1>3, <1>4, <1>5, <1>6 DEF DayNumber

----------------------------------------------------------------------------
(* And back: the year, month and day of a number of days.  The arithmetic is  *)
(* solved for one variable at a time, its quotients as bounds.               *)

\* days of a cycle of 400 years before its year q, both counted from March
EraDays(q) == 365 * q + q \div 4 - q \div 100

\* A year from March on has 365 days, and one more when the leap day at its
\* end is one of the calendar: the year that ends it is a leap year.
LEMMA EraStep ==
    ASSUME NEW q \in Int, 0 <= q, q <= 399
    PROVE  /\ EraDays(q + 1) >= EraDays(q) + 365
           /\ EraDays(q + 1) <= EraDays(q) + 366
           /\ q < 399 /\ EraDays(q + 1) = EraDays(q) + 366 => IsLeapYear(q + 1)
           /\ q < 399 /\ IsLeapYear(q + 1) => EraDays(q + 1) = EraDays(q) + 366
BY DEF EraDays, IsLeapYear

\* The year that from the days of a cycle is told.
LEMMA YearOfEra ==
    ASSUME NEW d \in Int, 0 <= d, d <= 146096
    PROVE  LET q == (d - d \div 1460 + d \div 36524 - d \div 146096) \div 365 IN
           /\ q \in Int /\ 0 <= q /\ q <= 399
           /\ EraDays(q) <= d
           /\ d < EraDays(q) + 366
           /\ d = EraDays(q) + 365 => q = 399 \/ EraDays(q + 1) = EraDays(q) + 366
<1> DEFINE a == d \div 1460
           b == d \div 36524
           e == d \div 146096
           n == d - a + b - e
           q == n \div 365
           f == q \div 4
           g == q \div 100
<1>1. a \in Int /\ 1460 * a <= d /\ d < 1460 * a + 1460
    BY SMT
<1>2. b \in Int /\ 36524 * b <= d /\ d < 36524 * b + 36524
    BY SMT
<1>3. e \in Int /\ 146096 * e <= d /\ d < 146096 * e + 146096
    BY SMT
<1>4. n \in Int /\ n = d - a + b - e
    BY <1>1, <1>2, <1>3, SMT
<1> HIDE DEF a, b, e, n
<1>5. q \in Int /\ 365 * q <= n /\ n < 365 * q + 365
    BY <1>4, SMT
<1> HIDE DEF q
<1>6. f \in Int /\ 4 * f <= q /\ q < 4 * f + 4
    BY <1>5, SMT
<1>7. g \in Int /\ 100 * g <= q /\ q < 100 * g + 100
    BY <1>5, SMT
<1>8. EraDays(q) = 365 * q + f - g
    BY DEF EraDays
<1> HIDE DEF f, g
<1>9. 0 <= q /\ q <= 399
    BY <1>1, <1>2, <1>3, <1>4, <1>5, SMT
<1>10. 365 * q + f - g <= d
    BY <1>1, <1>2, <1>3, <1>4, <1>5, <1>6, <1>7, <1>9, SMTT(60)
<1>11. d < 365 * q + f - g + 366
    BY <1>1, <1>2, <1>3, <1>4, <1>5, <1>6, <1>7, <1>9, SMTT(60)
<1>12. d = 365 * q + f - g + 365 => q = 399 \/ EraDays(q + 1) = EraDays(q) + 366
    <2> SUFFICES ASSUME d = 365 * q + f - g + 365, q # 399
                 PROVE  EraDays(q + 1) = EraDays(q) + 366
        OBVIOUS
    <2>1. n >= 365 * q + 364
        BY <1>1, <1>2, <1>3, <1>4, <1>5, <1>6, <1>7, <1>9, SMTT(60)
    <2>2. q = 4 * f + 3 /\ (q # 100 * g + 99)
        BY <1>1, <1>2, <1>3, <1>4, <1>5, <1>6, <1>7, <1>9, SMTT(60)
    <2>3. (q + 1) \div 4 = f + 1 /\ (q + 1) \div 100 = g
        BY <1>5, <1>6, <1>7, <2>2, SMT
    <2> QED
        BY <1>5, <1>6, <1>7, <1>8, <2>3, SMT DEF EraDays
<1>13. q = (d - d \div 1460 + d \div 36524 - d \div 146096) \div 365
    BY DEF q, n, a, b, e
<1> QED
    BY <1>5, <1>8, <1>9, <1>10, <1>11, <1>12, <1>13, SMT

\* The year of a day is unique.
LEMMA OneYear ==
    ASSUME NEW p \in Int, 0 <= p, p <= 399, NEW q \in Int, 0 <= q, q <= 399,
           NEW d \in Int,
           EraDays(p) <= d, d < EraDays(p) + 366, EraDays(q) <= d, d < EraDays(q) + 366,
           d = EraDays(p) + 365 => p = 399 \/ EraDays(p + 1) = EraDays(p) + 366,
           d = EraDays(q) + 365 => q = 399 \/ EraDays(q + 1) = EraDays(q) + 366
    PROVE  p = q
<1>1. ASSUME NEW u \in Int, 0 <= u, u <= 399, NEW v \in Int, 0 <= v, v <= 399, u < v
      PROVE  /\ EraDays(v) >= EraDays(u + 1) /\ EraDays(u + 1) >= EraDays(u) + 365
             /\ EraDays(u) \in Int /\ EraDays(u + 1) \in Int /\ EraDays(v) \in Int
    BY <1>1, SMT DEF EraDays
<1>2. ~(p < q)
    BY <1>1, SMT
<1>3. ~(q < p)
    BY <1>1, SMT
<1> QED
    BY <1>2, <1>3, SMT

\* The month of a day of a year from March on: the months s have 30 or 31 days,
\* and the last has what is left.
LEMMA MonthOfDay ==
    ASSUME NEW n \in Int, 0 <= n, n <= 365
    PROVE  LET s == (5 * n + 2) \div 153
               day == n - (153 * s + 2) \div 5 + 1
           IN  /\ s \in Int /\ 0 <= s /\ s <= 11
               /\ 1 <= day /\ day <= 31
               /\ s \in {1, 3, 6, 8} => day <= 30
               /\ s = 11 => day <= 29
               /\ s = 11 /\ day = 29 <=> n = 365
<1> DEFINE s == (5 * n + 2) \div 153
<1>1. s \in Int /\ 153 * s <= 5 * n + 2 /\ 5 * n + 2 < 153 * s + 153
    BY SMT
<1> HIDE DEF s
<1>2. 0 <= s /\ s <= 11
    BY <1>1, SMT
<1> QED
    BY <1>1, <1>2, SMT DEF s

\* A day of a year from March on gives back its month.
LEMMA DayOfMonth ==
    ASSUME NEW s \in Int, 0 <= s, s <= 11, NEW day \in Int, 1 <= day,
           day <= IF s \in {1, 3, 6, 8} THEN 30 ELSE IF s = 11 THEN 29 ELSE 31
    PROVE  LET n == (153 * s + 2) \div 5 + day - 1 IN
           /\ n \in Int /\ 0 <= n /\ n <= 365
           /\ (5 * n + 2) \div 153 = s
           /\ n = 365 <=> s = 11 /\ day = 29
<1> DEFINE m == (153 * s + 2) \div 5
           n == m + day - 1
           t == (5 * n + 2) \div 153
<1>1. m \in Int /\ 5 * m <= 153 * s + 2 /\ 153 * s + 2 < 5 * m + 5
    BY SMT
<1> HIDE DEF m
<1>2. n \in Int
    BY <1>1
<1>3. t \in Int /\ 153 * t <= 5 * n + 2 /\ 5 * n + 2 < 153 * t + 153
    BY <1>2, SMT
<1> HIDE DEF t
<1>4. t = s
    BY <1>1, <1>3, SMT
<1>5. 0 <= n /\ n <= 365 /\ (n = 365 <=> s = 11 /\ day = 29)
    BY <1>1, SMT
<1> QED
    BY <1>2, <1>4, <1>5 DEF t, m

\* a date that the calendar has, of any year
OnCalendar(c) == IsDate(c) /\ 1 <= c.day /\ c.day <= DaysInMonth(c.year, c.month)

\* The leap years of every cycle are those of the first.
LEMMA SameInEveryEra ==
    ASSUME NEW q \in Int, NEW era \in Int
    PROVE  IsLeapYear(q + 400 * era) <=> IsLeapYear(q)
<1>1. (q + 400 * era) % 4 = q % 4 /\ (q + 400 * era) % 100 = q % 100
      /\ (q + 400 * era) % 400 = q % 400
    BY SMT
<1> QED
    BY <1>1 DEF IsLeapYear

\* civil_from_days makes a date of every number of days, and the number
\* days_from_civil makes of that date is the one it was made of.
LEMMA CivilOfDays ==
    ASSUME NEW days \in Int, NEW second
    PROVE  LET c == CivilFromDays(days, second) IN
           OnCalendar(c) /\ DaysFromCivil(c) = days
<1> DEFINE z == days + 719468
           era == z \div 146097
           doe == z - era * 146097
           q == (doe - doe \div 1460 + doe \div 36524 - doe \div 146096) \div 365
           doy == doe - (365 * q + q \div 4 - q \div 100)
           s == (5 * doy + 2) \div 153
           month == IF s < 10 THEN s + 3 ELSE s - 9
           day == doy - (153 * s + 2) \div 5 + 1
           y == q + era * 400
           year == IF month <= 2 THEN y + 1 ELSE y
           c == CivilFromDays(days, second)
<1>1. c.year = year /\ c.month = month /\ c.day = day
    BY SMT DEF CivilFromDays, Civil
<1>2. z \in Int /\ era \in Int /\ doe \in Int /\ 0 <= doe /\ doe <= 146096 /\ z = days + 719468
      /\ doe = z - era * 146097
    BY SMT
<1> HIDE DEF z, era, doe
<1>3. /\ q \in Int /\ 0 <= q /\ q <= 399
      /\ EraDays(q) <= doe /\ doe < EraDays(q) + 366
      /\ doe = EraDays(q) + 365 => q = 399 \/ EraDays(q + 1) = EraDays(q) + 366
    BY <1>2, YearOfEra, SMT
<1> HIDE DEF q
<1>4. EraDays(q) \in Int /\ doy = doe - EraDays(q)
    BY <1>3 DEF EraDays
<1>5. doy \in Int /\ 0 <= doy /\ doy <= 365
    BY <1>2, <1>3, <1>4, SMT
<1> HIDE DEF doy
<1>6. /\ s \in Int /\ 0 <= s /\ s <= 11 /\ day \in Int
      /\ 1 <= day /\ day <= 31
      /\ s \in {1, 3, 6, 8} => day <= 30
      /\ s = 11 => day <= 29
      /\ s = 11 /\ day = 29 <=> doy = 365
    BY <1>5, MonthOfDay, SMT
<1>7. day = doy - (153 * s + 2) \div 5 + 1 /\ (153 * s + 2) \div 5 \in Int
    BY <1>6, SMT
<1> HIDE DEF s, day
<1>8. month \in 1..12 /\ y \in Int /\ year \in Int /\ y = q + era * 400
    BY <1>2, <1>3, <1>6, SMT
<1>9. day <= DaysInMonth(year, month)
    <2>1. CASE s = 11
        <3>1. month = 2 /\ year = q + 1 + 400 * era
            BY <1>2, <1>3, <2>1, SMT
        <3>2. ASSUME day = 29 PROVE IsLeapYear(year)
            <4>1. doe = EraDays(q) + 365
                BY <1>2, <1>4, <1>6, <2>1, <3>2, SMT
            <4>2. IsLeapYear(q + 1)
                <5>1. IsLeapYear(400)
                    BY SMT DEF IsLeapYear
                <5>2. CASE q = 399
                    BY <5>1, <5>2, SMT
                <5>3. CASE q # 399
                    BY <1>3, <4>1, <5>3, EraStep, SMT
                <5> QED BY <5>2, <5>3
            <4>3. IsLeapYear((q + 1) + 400 * era)
                <5>1. q + 1 \in Int
                    BY <1>3
                <5> QED BY <1>2, <4>2, <5>1, SameInEveryEra
            <4> QED BY <3>1, <4>3, SMT
        <3> QED BY <1>6, <2>1, <3>1, <3>2, SMT DEF DaysInMonth
    <2>2. CASE s # 11
        <3>1. /\ month # 2
              /\ month \in {4, 6, 9, 11} => s \in {1, 3, 6, 8}
            BY <1>6, <2>2, SMT
        <3> HIDE DEF month
        <3>2. \/ month \in {4, 6, 9, 11}
              \/ month \in {1, 3, 5, 7, 8, 10, 12}
            BY <1>8, <3>1, SMT
        <3> QED BY <1>6, <3>1, <3>2, SMT DEF DaysInMonth
    <2> QED BY <2>1, <2>2
<1>10. OnCalendar(c)
    BY <1>1, <1>6, <1>8, <1>9 DEF OnCalendar, IsDate
<1>11. DaysFromCivil(c) = days
    <2>1. (IF c.month <= 2 THEN c.year - 1 ELSE c.year) = y
        BY <1>1, <1>8, SMT
    <2>2. (IF c.month > 2 THEN c.month - 3 ELSE c.month + 9) = s
        BY <1>1, <1>6, SMT
    <2>3. y \div 400 = era /\ y - era * 400 = q
        BY <1>2, <1>3, <1>8, SMT
    <2> HIDE DEF y
    <2>4. DaysFromCivil(c) = era * 146097 + (q * 365 + q \div 4 - q \div 100
                               + ((153 * s + 2) \div 5 + c.day - 1)) - 719468
        BY <2>1, <2>2, <2>3, SMT DEF DaysFromCivil
    <2>5. (153 * s + 2) \div 5 + c.day - 1 = doy
        BY <1>1, <1>5, <1>6, <1>7, SMT
    <2>6. q * 365 + q \div 4 - q \div 100 = EraDays(q)
        BY <1>3, SMT DEF EraDays
    <2>7. DaysFromCivil(c) = era * 146097 + (EraDays(q) + doy) - 719468
        BY <2>4, <2>5, <2>6, SMT
    <2> QED BY <1>2, <1>4, <1>5, <2>7, SMT
<1> QED
    BY <1>10, <1>11

\* What civil_from_days computes on the way, one quotient after the other.
LEMMA CivilFields ==
    ASSUME NEW days, NEW second, NEW era, NEW doe, NEW q, NEW doy, NEW s,
           (days + 719468) \div 146097 = era,
           (days + 719468) - era * 146097 = doe,
           (doe - doe \div 1460 + doe \div 36524 - doe \div 146096) \div 365 = q,
           doe - (365 * q + q \div 4 - q \div 100) = doy,
           (5 * doy + 2) \div 153 = s
    PROVE  LET c == CivilFromDays(days, second)
               month == IF s < 10 THEN s + 3 ELSE s - 9
               year == q + era * 400
           IN  /\ c.day = doy - (153 * s + 2) \div 5 + 1
               /\ c.month = month
               /\ c.year = IF month <= 2 THEN year + 1 ELSE year
BY SMT DEF CivilFromDays, Civil

\* Two dates of the calendar with the same number of days are the same.
LEMMA DaysOfCivil ==
    ASSUME NEW c, OnCalendar(c), NEW second
    PROVE  /\ DaysFromCivil(c) \in Int
           /\ LET o == CivilFromDays(DaysFromCivil(c), second) IN
              o.year = c.year /\ o.month = c.month /\ o.day = c.day
<1> DEFINE y == IF c.month <= 2 THEN c.year - 1 ELSE c.year
           s == IF c.month > 2 THEN c.month - 3 ELSE c.month + 9
           era == y \div 400
           p == y - era * 400
           doy == (153 * s + 2) \div 5 + c.day - 1
           doe == EraDays(p) + doy
           z == era * 146097 + doe
<1>1. c.year \in Int /\ c.month \in 1..12 /\ c.day \in Int /\ y \in Int /\ s \in Int /\ 0 <= s /\ s <= 11
    BY SMT DEF OnCalendar, IsDate
<1>2. era \in Int /\ p \in Int /\ 0 <= p /\ p <= 399 /\ y = p + 400 * era
    BY <1>1, SMT
<1>3. 1 <= c.day /\ c.day <= IF s \in {1, 3, 6, 8} THEN 30 ELSE IF s = 11 THEN 29 ELSE 31
    BY <1>1, SMT DEF OnCalendar, DaysInMonth
<1>4. s = 11 /\ c.day = 29 => IsLeapYear(c.year) /\ c.year = y + 1
    BY <1>1, SMT DEF OnCalendar, DaysInMonth
<1> HIDE DEF s
<1>5. /\ doy \in Int /\ 0 <= doy /\ doy <= 365
      /\ (5 * doy + 2) \div 153 = s
      /\ doy = 365 => s = 11 /\ c.day = 29
    BY <1>1, <1>3, DayOfMonth, SMT
<1>6. DaysFromCivil(c) = z - 719468
    BY <1>1, SMT DEF DaysFromCivil, EraDays, s
<1>7. c.day = doy - (153 * s + 2) \div 5 + 1
    BY <1>1, SMT
<1> HIDE DEF doy, era, p, y
<1>8. /\ EraDays(p) \in Int /\ 0 <= EraDays(p) /\ EraDays(p) <= 145731
    BY <1>2, SMT DEF EraDays
<1>9. doe \in Int /\ 0 <= doe /\ doe <= 146096
    BY <1>5, <1>8, SMT
<1>10. doy = 365 => p = 399 \/ EraDays(p + 1) = EraDays(p) + 366
    <2> SUFFICES ASSUME doy = 365, p # 399 PROVE EraDays(p + 1) = EraDays(p) + 366
        OBVIOUS
    <2>1. IsLeapYear((p + 1) + 400 * era) /\ p + 1 \in Int
        BY <1>2, <1>4, <1>5, SMT
    <2>2. IsLeapYear(p + 1)
        BY <1>2, <2>1, SameInEveryEra
    <2> QED BY <1>2, <2>2, EraStep, SMT
<1> HIDE DEF doe
<1>11. z \in Int /\ z \div 146097 = era /\ z - era * 146097 = doe
    BY <1>2, <1>9, SMT
<1> DEFINE q == (doe - doe \div 1460 + doe \div 36524 - doe \div 146096) \div 365
<1>12. q = p
    <2>1. /\ q \in Int /\ 0 <= q /\ q <= 399
          /\ EraDays(q) <= doe /\ doe < EraDays(q) + 366
          /\ doe = EraDays(q) + 365 => q = 399 \/ EraDays(q + 1) = EraDays(q) + 366
        BY <1>9, YearOfEra, SMT
    <2>2. /\ EraDays(p) <= doe /\ doe < EraDays(p) + 366
          /\ doe = EraDays(p) + 365 => p = 399 \/ EraDays(p + 1) = EraDays(p) + 366
        BY <1>5, <1>8, <1>10, SMT DEF doe
    <2> HIDE DEF q
    <2> QED BY <1>2, <1>9, <2>1, <2>2, OneYear
<1>13. doe - (365 * p + p \div 4 - p \div 100) = doy
    BY <1>2, <1>5, <1>8, SMT DEF doe, EraDays
<1> HIDE DEF z
<1> DEFINE month == IF s < 10 THEN s + 3 ELSE s - 9
           year == p + era * 400
           o == CivilFromDays(z - 719468, second)
<1>14. (z - 719468) + 719468 = z
    BY <1>11, SMT
<1>15. /\ o.day = doy - (153 * s + 2) \div 5 + 1
       /\ o.month = month
       /\ o.year = IF month <= 2 THEN year + 1 ELSE year
    BY <1>5, <1>11, <1>12, <1>13, <1>14, CivilFields, SMT DEF q
<1>16. month = c.month
    BY <1>1, SMT DEF s
<1>17. (IF month <= 2 THEN year + 1 ELSE year) = c.year
    BY <1>1, <1>2, <1>16, SMT DEF y
<1> QED
    BY <1>6, <1>7, <1>11, <1>15, <1>16, <1>17, SMT

----------------------------------------------------------------------------
(* Times of day, and years that are too early or too late. *)

\* the first day of a year
NewYear(y) == 365 * (y - 1970) + LeapsBefore(y) - 477

\* Later years begin later.
LEMMA YearsGrow ==
    ASSUME NEW u \in Int, NEW v \in Int, u <= v
    PROVE  NewYear(u) \in Int /\ NewYear(v) \in Int /\ NewYear(u) <= NewYear(v)
<1>1. CASE u = v
    BY <1>1, SMT DEF NewYear, LeapsBefore
<1>2. CASE u < v
    BY <1>2, SMT DEF NewYear, LeapsBefore
<1> QED
    BY <1>1, <1>2, SMT

\* The first day of the year after, by the formula.
LEMMA YearAfter ==
    ASSUME NEW y \in Int
    PROVE  NewYear(y + 1) = 365 * (y + 1 - 1970) + LeapsBefore(y + 1) - 477
<1> QED
    BY SMT DEF NewYear

\* A date lies between the first days of its year and of the next.
LEMMA WithinYear ==
    ASSUME NEW c, OnCalendar(c)
    PROVE  /\ NewYear(c.year) <= DaysFromCivil(c)
           /\ DaysFromCivil(c) < NewYear(c.year + 1)
<1>1. c.year \in Int /\ c.month \in 1..12 /\ c.day \in Int
    BY DEF OnCalendar, IsDate
<1>2. /\ LeapsBefore(c.year) \in Int /\ LeapDay(c.year) \in Int
      /\ LeapsBefore(c.year + 1) = LeapsBefore(c.year) + LeapDay(c.year)
    BY <1>1, LeapStep DEF LeapDay
<1>3. /\ DaysTo(c.year, c.month) + c.day - 1 \in Int
      /\ 0 <= DaysTo(c.year, c.month) + c.day - 1
      /\ DaysTo(c.year, c.month) + c.day - 1 <= 364 + LeapDay(c.year)
    BY <1>1, SMT DEF OnCalendar, DaysTo, DaysInMonth, LeapDay
<1> DEFINE rest == DaysTo(c.year, c.month) + c.day - 1
           l == LeapDay(c.year)
           L == LeapsBefore(c.year)
<1>4. DaysFromCivil(c) = 365 * (c.year - 1970) + L - 477 + rest
    <2>1. DaysTo(c.year, c.month) \in Int
        BY <1>1, SMT DEF DaysTo, LeapDay
    <2>2. DaysFromCivil(c) = DayNumber(c)
        BY CivilToDays DEF OnCalendar
    <2> QED BY <1>1, <1>2, <2>1, <2>2, SMT DEF DayNumber
<1>5. NewYear(c.year) = 365 * (c.year - 1970) + L - 477
    BY DEF NewYear
<1>6. NewYear(c.year + 1) = 365 * (c.year + 1 - 1970) + LeapsBefore(c.year + 1) - 477
    BY <1>1, YearAfter, SMT
<1>7. LeapsBefore(c.year + 1) = L + l /\ rest \in Int /\ L \in Int /\ l \in Int /\ 0 <= rest /\ rest <= 364 + l
    BY <1>2, <1>3
<1> HIDE DEF rest, l, L
<1> QED
    BY <1>1, <1>4, <1>5, <1>6, <1>7, SMT

\* The years from 1970 to 9999 are the days from 0 on to their last.
LEMMA YearRange ==
    ASSUME NEW c, OnCalendar(c)
    PROVE  YearInRange(c.year)
              <=> 0 <= DaysFromCivil(c) /\ DaysFromCivil(c) <= Counted(LastDay)
<1> DEFINE d == DaysFromCivil(c)
           y == c.year
<1>1. y \in Int /\ d \in Int
    BY DaysOfCivil DEF OnCalendar, IsDate
<1>2. NewYear(1970) = 0 /\ NewYear(10000) = 2932897
    BY SMT DEF NewYear, LeapsBefore
<1>3. Counted(LastDay) = 2932896
    <2>1. IsDate(LastDay) /\ LastDay.year = 9999
        BY SMT DEF IsDate, LastDay, Civil
    <2>2. Counted(LastDay) = DaysFromCivil(LastDay)
        BY <2>1, CountedDays, SMT
    <2>3. DaysFromCivil(LastDay) = 2932896
        BY SMT DEF DaysFromCivil, LastDay, Civil
    <2> QED BY <2>2, <2>3, SMT
<1>4. NewYear(y) <= d /\ d < NewYear(y + 1)
    BY WithinYear
<1> HIDE DEF d, y
<1>5. CASE y < 1970
    <2>1. NewYear(y + 1) <= NewYear(1970) /\ NewYear(y + 1) \in Int
        BY <1>1, <1>5, YearsGrow, SMT
    <2>2. d < 0
        BY <1>1, <1>2, <1>4, <2>1, SMT
    <2> QED BY <1>1, <1>5, <2>2, SMT DEF d, y, YearInRange
<1>6. CASE y > 9999
    <2>1. NewYear(10000) <= NewYear(y) /\ NewYear(y) \in Int
        BY <1>1, <1>6, YearsGrow, SMT
    <2>2. d >= 2932897
        BY <1>1, <1>2, <1>4, <2>1, SMT
    <2> QED BY <1>1, <1>3, <1>6, <2>2, SMT DEF d, y, YearInRange
<1>7. CASE 1970 <= y /\ y <= 9999
    <2>1. NewYear(1970) <= NewYear(y) /\ NewYear(y + 1) <= NewYear(10000)
          /\ NewYear(y) \in Int /\ NewYear(y + 1) \in Int
        BY <1>1, <1>7, YearsGrow, SMT
    <2>2. 0 <= d /\ d <= 2932896
        BY <1>1, <1>2, <1>4, <2>1, SMT
    <2> QED BY <1>1, <1>3, <1>7, <2>2, SMT DEF d, y, YearInRange
<1> QED
    BY <1>1, <1>5, <1>6, <1>7, SMT

\* A second of a day and its digits.
LEMMA SecondsDigits ==
    ASSUME NEW days, NEW n \in Int, 0 <= n, n < 86400
    PROVE  LET o == CivilFromDays(days, n) IN
           /\ o.hour \in 0..23 /\ o.minute \in 0..59 /\ o.second \in 0..59
           /\ SecondOfDay(o) = n
<1> DEFINE h == n \div 3600
           r == n % 3600
           mi == r \div 60
           s == n % 60
           o == CivilFromDays(days, n)
<1>1. o.hour = h /\ o.minute = mi /\ o.second = s
    BY SMT DEF CivilFromDays, Civil
<1>2. h \in Int /\ r \in Int /\ n = 3600 * h + r /\ 0 <= r /\ r < 3600
    BY SMT
<1>3. s = r % 60
    BY <1>2, SMT
<1> HIDE DEF h, r
<1>4. mi \in Int /\ s \in Int /\ r = 60 * mi + s /\ 0 <= s /\ s < 60
    BY <1>2, <1>3, SMT
<1> HIDE DEF mi, s
<1> QED
    BY <1>1, <1>2, <1>4, SMT DEF SecondOfDay

\* Hour, minute and second are the digits of a second of the day.
LEMMA SecondOfDigits ==
    ASSUME NEW h \in Int, 0 <= h, h <= 23, NEW m \in Int, 0 <= m, m <= 59,
           NEW s \in Int, 0 <= s, s <= 59
    PROVE  LET n == h * 3600 + m * 60 + s IN
           /\ n \in Int /\ 0 <= n /\ n < 86400
           /\ n \div 3600 = h /\ (n % 3600) \div 60 = m /\ n % 60 = s
<1> DEFINE r == m * 60 + s
           n == h * 3600 + r
<1>1. r \in Int /\ 0 <= r /\ r < 3600 /\ r \div 60 = m /\ r % 60 = s
    BY SMT
<1> HIDE DEF r
<1>2. n \in Int /\ 0 <= n /\ n < 86400 /\ n \div 3600 = h /\ n % 3600 = r /\ n % 60 = r % 60
    BY <1>1, SMT
<1>3. n = h * 3600 + m * 60 + s
    BY SMT DEF r
<1> QED
    BY <1>1, <1>2, <1>3, SMT

\* What civil_from_days makes of a second of the day.
LEMMA ClockOf ==
    ASSUME NEW days, NEW n
    PROVE  LET o == CivilFromDays(days, n) IN
           o.hour = n \div 3600 /\ o.minute = (n % 3600) \div 60 /\ o.second = n % 60
<1> QED
    BY SMT DEF CivilFromDays, Civil

\* A time of day is given back.
LEMMA DigitsOfSecond ==
    ASSUME NEW c, NEW days,
           NEW h \in Int, 0 <= h, h <= 23, NEW m \in Int, 0 <= m, m <= 59,
           NEW s \in Int, 0 <= s, s <= 59,
           c.hour = h, c.minute = m, c.second = s
    PROVE  LET n == SecondOfDay(c)
               o == CivilFromDays(days, n)
           IN  /\ n \in Int /\ 0 <= n /\ n < 86400
               /\ o.hour = h /\ o.minute = m /\ o.second = s
<1> DEFINE n == SecondOfDay(c)
           k == h * 3600 + m * 60 + s
<1>1. n = k
    BY SMT DEF SecondOfDay
<1>2. /\ k \in Int /\ 0 <= k /\ k < 86400
      /\ k \div 3600 = h /\ (k % 3600) \div 60 = m /\ k % 60 = s
    BY SecondOfDigits, SMT
<1> HIDE DEF n, k
<1>3. LET o == CivilFromDays(days, n) IN
      o.hour = n \div 3600 /\ o.minute = (n % 3600) \div 60 /\ o.second = n % 60
    BY ClockOf, SMT
<1> QED
    BY <1>1, <1>2, <1>3, SMT DEF n

\* civil_from_days gives a date and a time of day and nothing more.
LEMMA CivilShape ==
    ASSUME NEW days \in Int, NEW n \in Int, NEW o, o = CivilFromDays(days, n)
    PROVE  o = Civil(o.year, o.month, o.day, o.hour, o.minute, o.second)
<1> QED
    BY SMT DEF CivilFromDays, Civil

\* Parse takes what is a time of the years from 1970 to 9999 and nothing else.
LEMMA ParseReal ==
    ASSUME NEW c, {c.hour, c.minute, c.second} \subseteq Nat
    PROVE  Parse(c) = IF Real(c) THEN [day |-> DaysFromCivil(c), second |-> SecondOfDay(c)]
                      ELSE Refused
<1>1. c.hour \in Nat /\ c.minute \in Nat /\ c.second \in Nat
    OBVIOUS
<1>2. (c.hour <= 23 <=> c.hour \in 0..23) /\ (c.minute <= 59 <=> c.minute \in 0..59)
      /\ (c.second <= 59 <=> c.second \in 0..59)
    BY <1>1
<1> QED
    BY <1>2, Zenon DEF Parse, Real

\* Whatever UtcTimestamp prints is a real time when its year has four digits.
LEMMA ParsePrinted ==
    ASSUME NEW days \in Int, NEW n \in Int, 0 <= n, n < 86400
    PROVE  Parse(CivilFromDays(days, n))
               = IF 0 <= days /\ days <= Counted(LastDay)
                 THEN [day |-> days, second |-> n] ELSE Refused
<1> DEFINE o == CivilFromDays(days, n)
<1>1. OnCalendar(o) /\ DaysFromCivil(o) = days
    BY CivilOfDays
<1>2. o.hour \in 0..23 /\ o.minute \in 0..59 /\ o.second \in 0..59 /\ SecondOfDay(o) = n
    BY SecondsDigits
<1>3. YearInRange(o.year) <=> 0 <= days /\ days <= Counted(LastDay)
    BY <1>1, YearRange
<1> HIDE DEF o
<1>4. o.month \in 1..12 /\ o.day \in 1..DaysInMonth(o.year, o.month)
    <2>1. DaysInMonth(o.year, o.month) \in 28..31
        BY <1>1, MonthRange DEF OnCalendar, IsDate
    <2> QED BY <1>1, <2>1 DEF OnCalendar, IsDate
<1>5. o.hour <= 23 /\ o.minute <= 59 /\ o.second <= 59
    BY <1>2
<1>6. Parse(o) = IF YearInRange(o.year) THEN [day |-> DaysFromCivil(o), second |-> SecondOfDay(o)]
                 ELSE Refused
    BY <1>4, <1>5 DEF Parse
<1> QED
    BY <1>1, <1>2, <1>3, <1>6 DEF o

\* So is that of every real time.
LEMMA RealClock ==
    ASSUME NEW c, Real(c), NEW days
    PROVE  LET n == SecondOfDay(c)
               o == CivilFromDays(days, n)
           IN  /\ n \in Int /\ 0 <= n /\ n < 86400
               /\ o.hour = c.hour /\ o.minute = c.minute /\ o.second = c.second
<1> DEFINE h == c.hour
           m == c.minute
           s == c.second
<1>1. /\ h \in Int /\ 0 <= h /\ h <= 23 /\ m \in Int /\ 0 <= m /\ m <= 59
      /\ s \in Int /\ 0 <= s /\ s <= 59
    BY DEF Real
<1>2. c.hour = h /\ c.minute = m /\ c.second = s
    OBVIOUS
<1> HIDE DEF h, m, s
<1> QED
    BY <1>1, <1>2, DigitsOfSecond, SMT

\* A real time has a date on the calendar and a second of its day.
LEMMA RealTime ==
    ASSUME NEW c, Real(c), c.year \in Int
    PROVE  /\ OnCalendar(c) /\ c.day \in 1..31 /\ 1970 <= c.year /\ c.year <= 9999
           /\ Counted(c) = DaysFromCivil(c) /\ DaysFromCivil(c) \in Int
           /\ SecondOfDay(c) \in Int /\ 0 <= SecondOfDay(c) /\ SecondOfDay(c) < 86400
<1>1. /\ 1970 <= c.year /\ c.year <= 9999 /\ c.month \in 1..12
      /\ c.day \in 1..DaysInMonth(c.year, c.month)
    BY DEF Real, YearInRange
<1>2. OnCalendar(c) /\ c.day \in 1..31
    <2>1. DaysInMonth(c.year, c.month) \in 28..31
        BY <1>1, MonthRange
    <2> QED BY <1>1, <2>1 DEF OnCalendar, IsDate
<1>3. Counted(c) = DaysFromCivil(c) /\ DaysFromCivil(c) \in Int
    BY <1>1, <1>2, CountedDays, DaysOfCivil DEF OnCalendar
<1>4. SecondOfDay(c) \in Int /\ 0 <= SecondOfDay(c) /\ SecondOfDay(c) < 86400
    BY RealClock, SMT
<1> QED
    BY <1>1, <1>2, <1>3, <1>4

\* A real time prints as itself.
LEMMA PrintedAgain ==
    ASSUME NEW c, Real(c), c.year \in Int,
           c = Civil(c.year, c.month, c.day, c.hour, c.minute, c.second)
    PROVE  CivilFromDays(DaysFromCivil(c), SecondOfDay(c)) = c
<1> DEFINE o == CivilFromDays(DaysFromCivil(c), SecondOfDay(c))
<1>1. o.year = c.year /\ o.month = c.month /\ o.day = c.day
    BY RealTime, DaysOfCivil
<1>2. o.hour = c.hour /\ o.minute = c.minute /\ o.second = c.second
    BY RealClock, SMT
<1>3. o = Civil(o.year, o.month, o.day, o.hour, o.minute, o.second)
    BY RealTime, CivilShape, SMT
<1>4. Civil(o.year, o.month, o.day, o.hour, o.minute, o.second)
          = Civil(c.year, c.month, c.day, c.hour, c.minute, c.second)
    BY <1>1, <1>2, Zenon
<1> HIDE DEF o
<1>5. o = c
    BY <1>3, <1>4, Zenon
<1> QED
    BY <1>5 DEF o

\* A real time with an offset is the instant that many seconds before.
LEMMA WithOffset ==
    ASSUME NEW c, Real(c), c.year \in Int, NEW offset \in Int
    PROVE  LET s == SecondOfDay(c) - offset
               shifted == [day |-> DaysFromCivil(c) + s \div SecondsPerDay,
                           second |-> s % SecondsPerDay]
           IN  CanonicalizePubtime(c, offset)
                   = IF shifted.day >= 0 /\ shifted.day <= Counted(LastDay) THEN shifted ELSE Refused
<1> DEFINE s == SecondOfDay(c) - offset
           days == DaysFromCivil(c) + s \div SecondsPerDay
           rest == s % SecondsPerDay
<1>1. CanonicalizePubtime(c, offset) = Parse(CivilFromDays(days, rest))
    <2>1. c.month \in 1..12 /\ c.day \in 1..31
        BY RealTime DEF Real
    <2> QED BY <2>1, Zenon DEF CanonicalizePubtime
<1>2. days \in Int /\ rest \in Int /\ 0 <= rest /\ rest < 86400
    BY RealTime, SMT DEF SecondsPerDay
<1>3. days >= 0 <=> 0 <= days
    BY <1>2
<1> HIDE DEF days, rest
<1>4. CanonicalizePubtime(c, offset)
         = IF days >= 0 /\ days <= Counted(LastDay) THEN [day |-> days, second |-> rest] ELSE Refused
    BY <1>1, <1>2, <1>3, ParsePrinted
<1> QED
    BY <1>4 DEF days, rest

\* What CountsTheCalendar asks of the two copies of the arithmetic.
LEMMA TimesCount ==
    ASSUME NEW c, NEW offset \in Int,
           c = Civil(c.year, c.month, c.day, c.hour, c.minute, c.second),
           c.year \in Int, {c.hour, c.minute, c.second} \subseteq Nat
    PROVE  CountsTheCalendar(c, offset)
<1> DEFINE t == [day |-> DaysFromCivil(c), second |-> SecondOfDay(c)]
<1>1. Parse(c) = IF Real(c) THEN t ELSE Refused
    BY ParseReal
<1>2. ASSUME Real(c) PROVE CivilFromDays(t.day, t.second) = c /\ FromUnixSeconds(t) = t
    <2>1. CivilFromDays(t.day, t.second) = c
        BY <1>2, PrintedAgain
    <2>2. c.year <= 9999
        BY <1>2, RealTime
    <2> HIDE DEF t
    <2> QED BY <1>1, <1>2, <2>1, <2>2, SMT DEF FromUnixSeconds
<1>3. ASSUME Real(c) PROVE Counted(c) = DaysFromCivil(c)
    BY <1>3, RealTime
<1>4. CASE ~Real(c)
    BY <1>1, <1>4, Zenon DEF CountsTheCalendar
<1>5. CASE Real(c)
    <2> DEFINE s == SecondOfDay(c) - offset
               shifted == [day |-> DaysFromCivil(c) + s \div SecondsPerDay,
                           second |-> s % SecondsPerDay]
    <2>1. CanonicalizePubtime(c, offset)
              = IF shifted.day >= 0 /\ shifted.day <= Counted(LastDay) THEN shifted ELSE Refused
        BY <1>5, WithOffset
    <2>2. t.day = Counted(c) /\ t.second = SecondOfDay(c)
        BY <1>3, <1>5
    <2> QED
        BY <1>1, <1>2, <1>3, <1>5, <2>1, <2>2, Zenon DEF CountsTheCalendar
<1> QED
    BY <1>4, <1>5

\* Times that exist are parsed, printed and canonicalised as the calendar has it,
\* for every year from 1970 to 9999 and for every offset.
THEOREM TimesAreRealAlways == Spec => []TimesAreReal
<1>1. Called => TimesAreReal
    <2> SUFFICES ASSUME Called, call = "time"
                 PROVE  CountsTheCalendar(input.civil, input.offset)
        BY DEF TimesAreReal
    <2>1. Moment(input)
        BY InputAssumption DEF Called
    <2>2. /\ input.civil = Civil(input.civil.year, input.civil.month, input.civil.day,
                                 input.civil.hour, input.civil.minute, input.civil.second)
          /\ input.civil.year \in Int /\ input.offset \in Int
          /\ {input.civil.hour, input.civil.minute, input.civil.second} \subseteq Nat
        <3>1. input.civil.year \in Nat
            BY <2>1, Zenon DEF Moment
        <3>2. input.civil.year \in Int
            BY <3>1
        <3> QED BY <2>1, <3>2, Zenon DEF Moment
    <2> QED
        BY <2>2, TimesCount, Zenon
<1> QED
    BY <1>1, CalledAlways, PTL

----------------------------------------------------------------------------
(* The release ladder. *)

\* what the release deployed last has of one that is known
Kept(o, q, schema) ==
    /\ Follows(o, q)
    /\ Home(q) = HomeAt(o, schema)
    /\ o.yanked => q.yanked

Record(o, schema) ==
    /\ o = [name |-> o.name, version |-> o.version, evidence |-> o.evidence, source |-> o.source,
            schema |-> o.schema, registry |-> o.registry, category |-> o.category,
            yanked |-> o.yanked]
    /\ o.schema \in 1..4 /\ o.schema <= schema
    /\ o.yanked \in BOOLEAN

LadderInv(site, history) ==
    /\ site \in Candidate
    /\ PackageKeys(site.packages)
    /\ site.schema >= 3 => VerifyRows(site)
    /\ \A o \in history :
           /\ Record(o, site.schema)
           /\ \E q \in site.packages : Kept(o, q, site.schema)

\* what a transition makes of a package, and of where it is
Steps(q, r, before, after) ==
    /\ Follows(q, r)
    /\ q.yanked => r.yanked
    /\ \/ before = after /\ Home(r) = Home(q)
       \/ before = 1 /\ after = 2 /\ Home(r) = Home(q)
       \/ before = 2 /\ after = 3 /\ Home(r) = In(CategoryForV2Home(q.registry, q.name))
       \/ before = 3 /\ after = 4 /\ Home(r) = In(MigrateV3Category(q.category))

\* Packages of one home have its registry and its category.
LEMMA SameHome ==
    ASSUME NEW p, NEW q, Home(p) = Home(q)
    PROVE  p.registry = q.registry /\ p.category = q.category
<1>1. Home(p).registry = Home(q).registry /\ Home(p).category = Home(q).category
    OBVIOUS
<1> QED BY <1>1 DEF Home

\* A package that is where the migrations put its first release is, after
\* a transition, where they put it next.
LEMMA KeptHome ==
    ASSUME NEW o, NEW q, NEW r, NEW before \in 1..4, NEW after \in 1..4,
           Record(o, before), Kept(o, q, before), Steps(q, r, before, after)
    PROVE  Home(r) = HomeAt(o, after)
<1>1. Home(q) = HomeAt(o, before) /\ q.name = o.name /\ o.schema \in 1..4 /\ o.schema <= before
    BY DEF Kept, Follows, Identity, Record
<1>2. CASE before = after /\ Home(r) = Home(q)
    BY <1>1, <1>2
<1>3. CASE before = 1 /\ after = 2 /\ Home(r) = Home(q)
    BY <1>1, <1>3 DEF HomeAt
<1>4. CASE before = 2 /\ after = 3 /\ Home(r) = In(CategoryForV2Home(q.registry, q.name))
    <2>1. Home(q) = Home(o)
        BY <1>1, <1>4 DEF HomeAt
    <2>2. q.registry = o.registry
        BY <2>1, SameHome
    <2>3. HomeAt(o, 3) = In(CategoryForV2Home(o.registry, o.name))
        BY <1>1, <1>4 DEF HomeAt
    <2> QED BY <1>1, <1>4, <2>2, <2>3
<1>5. CASE before = 3 /\ after = 4 /\ Home(r) = In(MigrateV3Category(q.category))
    <2> DEFINE second == IF o.schema <= 2 THEN CategoryForV2Home(o.registry, o.name)
                         ELSE o.category
    <2>1. HomeAt(o, 4) = In(MigrateV3Category(second))
        BY <1>1, <1>5 DEF HomeAt
    <2>2. q.category = second
        <3>1. CASE o.schema = 3
            <4>1. Home(q) = Home(o)
                BY <1>1, <1>5, <3>1 DEF HomeAt
            <4> QED BY <3>1, <4>1, SameHome
        <3>2. CASE o.schema <= 2
            <4>1. Home(q) = In(second)
                BY <1>1, <1>5, <3>2 DEF HomeAt
            <4>2. Home(q).category = In(second).category
                BY <4>1
            <4> QED BY <4>2 DEF Home, In
        <3> QED BY <1>1, <1>5, <3>1, <3>2
    <2> QED BY <1>5, <2>1, <2>2
<1> QED
    BY <1>2, <1>3, <1>4, <1>5 DEF Steps

\* Each of the five transitions takes every package on.
LEMMA KeepsSteps ==
    ASSUME NEW s, NEW t, Keeps(s, t), NEW q \in s.packages,
           s.schema = t.schema \/ (s.schema = 1 /\ t.schema = 2)
    PROVE  \E r \in t.packages : Steps(q, r, s.schema, t.schema)
<1>1. PICK r \in t.packages : Immutable(q, r) /\ NotReactivated(q, r)
    BY DEF Keeps
<1> QED
    BY <1>1 DEF Immutable, NotReactivated, Steps, Home

\* Each of the five transitions takes every package on, and leaves a release
\* whose rows say what its packages say.
LEMMA TransitionSteps ==
    ASSUME NEW s \in Candidate, NEW t \in Candidate, VerifyMonotonic(s, t)
    PROVE  /\ PackageKeys(t.packages)
           /\ t.schema >= 3 => VerifyRows(t)
           /\ s.schema <= t.schema
           /\ \A q \in s.packages : \E r \in t.packages : Steps(q, r, s.schema, t.schema)
<1> USE LadderAssumption
<1>1. CASE s.schema = 1 /\ t.schema = 2
    <2>1. V1ToV2(s, t)
        BY <1>1, SMT DEF VerifyMonotonic
    <2> QED BY <1>1, <2>1, KeepsSteps DEF V1ToV2
<1>2. CASE s.schema = 2 /\ t.schema = 3
    <2>1. V2ToV3(s, t)
        BY <1>2, SMT DEF VerifyMonotonic
    <2>2. ASSUME NEW q \in s.packages
          PROVE  \E r \in t.packages : Steps(q, r, 2, 3)
        <3> DEFINE c == CategoryForV2Home(q.registry, q.name)
        <3>1. PICK r \in t.packages : r.registry = c.registry /\ r.category = c /\ MigratesV2(q, r)
            BY <2>1 DEF V2ToV3
        <3> QED
            BY <3>1 DEF MigratesV2, NotReactivated, Steps, Home, In
    <2> QED BY <1>2, <2>1, <2>2 DEF V2ToV3, ValidV3
<1>3. CASE s.schema = 3 /\ t.schema = 3
    <2>1. V3ToV3(s, t)
        BY <1>3, SMT DEF VerifyMonotonic
    <2> QED BY <1>3, <2>1, KeepsSteps DEF V3ToV3, ValidV3
<1>4. CASE s.schema = 3 /\ t.schema = 4
    <2>1. V3ToV4(s, t)
        BY <1>4, SMT DEF VerifyMonotonic
    <2>2. ASSUME NEW q \in s.packages
          PROVE  \E r \in t.packages : Steps(q, r, 3, 4)
        <3> DEFINE c == MigrateV3Category(q.category)
        <3>1. PICK r \in t.packages :
                  /\ Follows(q, r) /\ q.yanked = r.yanked
                  /\ r.registry = "main" /\ r.category = c
            BY <2>1 DEF V3ToV4
        <3>2. c.registry = "main"
            BY DEF MigrateV3Category, CategoryId
        <3> QED
            BY <3>1, <3>2 DEF Steps, Home, In
    <2> QED BY <1>4, <2>1, <2>2 DEF V3ToV4, ValidV4
<1>5. CASE s.schema = 4 /\ t.schema = 4
    <2>1. V4ToV4(s, t)
        BY <1>5, SMT DEF VerifyMonotonic
    <2> QED BY <1>5, <2>1, KeepsSteps DEF V4ToV4, ValidV4
<1> QED
    BY <1>1, <1>2, <1>3, <1>4, <1>5 DEF VerifyMonotonic

\* What is noted as removed is otherwise what it was.
LEMMA Removal ==
    ASSUME NEW o, NEW schema, Record(o, schema), NEW x \in BOOLEAN
    PROVE  Record([o EXCEPT !.yanked = x], schema)
<1> DEFINE n == [o EXCEPT !.yanked = x]
<1>1. o.schema \in 1..4 /\ o.schema <= schema
    BY DEF Record
<1>2. PICK a, b, c, d, e, f, g, h :
          o = [name |-> a, version |-> b, evidence |-> c, source |-> d,
               schema |-> e, registry |-> f, category |-> g, yanked |-> h]
    BY Zenon DEF Record
<1>3. /\ n = [name |-> a, version |-> b, evidence |-> c, source |-> d,
               schema |-> e, registry |-> f, category |-> g, yanked |-> x]
      /\ o.schema = e
    BY <1>2, SMT
<1> HIDE DEF n
<1>4. /\ n = [name |-> n.name, version |-> n.version, evidence |-> n.evidence,
               source |-> n.source, schema |-> n.schema, registry |-> n.registry,
               category |-> n.category, yanked |-> n.yanked]
      /\ n.schema = e /\ n.yanked = x
    BY <1>3, SMT
<1>5. Record(n, schema)
    BY <1>1, <1>3, <1>4, Zenon DEF Record
<1> QED
    BY <1>5 DEF n

\* What is remembered of a release is what it has.
LEMMA RememberedKept ==
    ASSUME NEW t \in Candidate, NEW old, PackageKeys(t.packages),
           \A o \in old : /\ Record(o, t.schema)
                          /\ \E q \in t.packages : Kept(o, q, t.schema)
    PROVE  \A o \in Remembered(old, t) :
               /\ Record(o, t.schema)
               /\ \E q \in t.packages : Kept(o, q, t.schema)
<1> USE LadderAssumption
<1> DEFINE removed(o) == o.yanked \/ \E q \in t.packages : Continues(o, q, t.schema) /\ q.yanked
<1>1. ASSUME NEW o \in old
      PROVE  LET n == [o EXCEPT !.yanked = removed(o)] IN
             /\ Record(n, t.schema)
             /\ \E q \in t.packages : Kept(n, q, t.schema)
    <2> DEFINE n == [o EXCEPT !.yanked = removed(o)]
    <2>1. Record(o, t.schema)
        OBVIOUS
    <2>2. PICK q \in t.packages : Kept(o, q, t.schema)
        OBVIOUS
    <2>3. /\ n.name = o.name /\ n.version = o.version /\ n.evidence = o.evidence
          /\ n.source = o.source /\ n.schema = o.schema /\ n.registry = o.registry
          /\ n.category = o.category /\ n.yanked = removed(o)
        BY <2>1 DEF Record
    <2>4. Record(n, t.schema)
        <3>1. removed(o) \in BOOLEAN
            BY <2>1 DEF Record
        <3> HIDE DEF removed
        <3> QED BY <2>1, <3>1, Removal
    <2>5. ASSUME NEW r \in t.packages, Continues(o, r, t.schema) PROVE r = q
        <3>1. Identity(r) = Identity(q)
            BY <2>2, <2>5 DEF Continues, Kept, Follows
        <3>2. Home(r) = Home(q)
            BY <2>2, <2>5 DEF Continues, Kept
        <3>3. Key(r) = Key(q)
            BY <3>1, <3>2, SameHome DEF Identity, Key
        <3> QED BY <3>3 DEF PackageKeys
    <2>6. removed(o) => q.yanked
        BY <2>2, <2>5 DEF Kept
    <2>7. HomeAt(n, t.schema) = HomeAt(o, t.schema)
        BY <2>3 DEF HomeAt, Home
    <2>8. Follows(n, q)
        BY <2>2, <2>3 DEF Kept, Follows, Identity
    <2>9. Kept(n, q, t.schema)
        <3> HIDE DEF n, removed
        <3> QED BY <2>2, <2>3, <2>6, <2>7, <2>8 DEF Kept
    <2> QED BY <2>4, <2>9
<1>2. ASSUME NEW p \in t.packages
      PROVE  LET n == [name |-> p.name, version |-> p.version, evidence |-> p.evidence,
                       source |-> p.source, schema |-> t.schema, registry |-> p.registry,
                       category |-> p.category, yanked |-> p.yanked]
             IN  Record(n, t.schema) /\ Kept(n, p, t.schema)
    <2> DEFINE n == [name |-> p.name, version |-> p.version, evidence |-> p.evidence,
                     source |-> p.source, schema |-> t.schema, registry |-> p.registry,
                     category |-> p.category, yanked |-> p.yanked]
    <2>1. Record(n, t.schema)
        BY DEF Record
    <2>2. Follows(n, p) /\ Home(p) = HomeAt(n, t.schema)
        BY DEF Follows, Identity, Home, HomeAt
    <2> QED BY <2>1, <2>2 DEF Kept
<1> HIDE DEF removed
<1>3. ASSUME NEW o \in Remembered(old, t)
      PROVE  \/ \E x \in old : o = [x EXCEPT !.yanked = removed(x)]
             \/ \E p \in t.packages :
                    o = [name |-> p.name, version |-> p.version, evidence |-> p.evidence,
                         source |-> p.source, schema |-> t.schema, registry |-> p.registry,
                         category |-> p.category, yanked |-> p.yanked]
    BY <1>3, Zenon DEF Remembered, removed
<1>4. ASSUME NEW o \in Remembered(old, t)
      PROVE  Record(o, t.schema) /\ \E q \in t.packages : Kept(o, q, t.schema)
    <2>1. CASE \E x \in old : o = [x EXCEPT !.yanked = removed(x)]
        <3>1. PICK x \in old : o = [x EXCEPT !.yanked = removed(x)]
            BY <2>1
        <3> QED BY <1>1, <3>1
    <2>2. CASE \E p \in t.packages :
                   o = [name |-> p.name, version |-> p.version, evidence |-> p.evidence,
                        source |-> p.source, schema |-> t.schema, registry |-> p.registry,
                        category |-> p.category, yanked |-> p.yanked]
        BY <1>2, <2>2, Zenon
    <2> QED BY <1>3, <1>4, <2>1, <2>2, Zenon
<1> QED
    BY <1>4

\* A first release is remembered as it is.
LEMMA LadderStarts ==
    ASSUME LadderInit
    PROVE  LadderInv(released, known)
<1>1. released \in Candidate /\ Rendered(released) /\ known = Remembered({}, released)
      /\ released.schema \in 1..4
    BY LadderAssumption DEF LadderInit
<1>2. PackageKeys(released.packages) /\ (released.schema >= 3 => VerifyRows(released))
    BY <1>1 DEF Rendered, ValidV3, ValidV4
<1> QED
    BY <1>1, <1>2, RememberedKept DEF LadderInv

\* A release that verify-monotonic admits keeps what is remembered.
LEMMA LadderSteps ==
    ASSUME LadderInv(released, known), ReleaseSite
    PROVE  LadderInv(released', known')
<1>1. PICK t \in Candidate : /\ VerifyMonotonic(released, t)
                             /\ released' = t /\ known' = Remembered(known, t)
    BY DEF ReleaseSite
<1>2. released \in Candidate /\ released.schema \in 1..4 /\ t.schema \in 1..4
      /\ (\A q \in released.packages : q.yanked \in BOOLEAN)
      /\ \A q \in t.packages : q.yanked \in BOOLEAN
    BY LadderAssumption DEF LadderInv
<1>3. /\ PackageKeys(t.packages) /\ (t.schema >= 3 => VerifyRows(t))
      /\ released.schema <= t.schema
      /\ \A q \in released.packages :
             \E r \in t.packages : Steps(q, r, released.schema, t.schema)
    BY <1>1, <1>2, TransitionSteps
<1>4. ASSUME NEW o \in known
      PROVE  Record(o, t.schema) /\ \E r \in t.packages : Kept(o, r, t.schema)
    <2>1. PICK q \in released.packages : Kept(o, q, released.schema)
        BY DEF LadderInv
    <2>2. PICK r \in t.packages : Steps(q, r, released.schema, t.schema)
        BY <1>3
    <2>3. Record(o, released.schema)
        BY DEF LadderInv
    <2>4. Record(o, t.schema)
        BY <1>2, <1>3, <2>3 DEF Record
    <2>5. Home(r) = HomeAt(o, t.schema)
        BY <1>2, <2>1, <2>2, <2>3, KeptHome
    <2>6. Follows(o, r)
        BY <2>1, <2>2 DEF Kept, Steps, Follows
    <2>7. o.yanked => r.yanked
        BY <2>1, <2>2 DEF Kept, Steps
    <2> QED BY <2>4, <2>5, <2>6, <2>7 DEF Kept
<1>5. \A o \in Remembered(known, t) :
          Record(o, t.schema) /\ \E r \in t.packages : Kept(o, r, t.schema)
    BY <1>3, <1>4, RememberedKept
<1> QED
    BY <1>1, <1>3, <1>5 DEF LadderInv

\* a site is only there when it went up the ladder
Climbed ==
    /\ call = "release" => LadderInv(released, known)
    /\ call # "release" => known = {}

\* However often a site is deployed and migrated, what it ever released is there,
\* as it first was, where it belongs, and yanked once it was removed.
THEOREM ReleasedForGoodAlways == Spec => []ReleasedForGood
<1>1. Init => Climbed
    BY LadderStarts DEF Init, Climbed
<1>2. Climbed /\ [Next]_vars => Climbed'
    <2> SUFFICES ASSUME Climbed, [Next]_vars PROVE Climbed'
        OBVIOUS
    <2>1. CASE Evaluate
        BY <2>1 DEF Evaluate, Climbed, ladder
    <2>2. CASE Deploy
        BY <2>2, LadderSteps DEF Deploy, Climbed
    <2>3. CASE UNCHANGED vars
        BY <2>3 DEF vars, ladder, Climbed
    <2> QED BY <2>1, <2>2, <2>3 DEF Next
<1>3. Climbed => ReleasedForGood
    <2> SUFFICES ASSUME Climbed, released # NoSite, NEW o \in known
                 PROVE  \E q \in released.packages :
                            /\ Follows(o, q)
                            /\ Home(q) = HomeAt(o, released.schema)
                            /\ o.yanked => q.yanked
                            /\ released.schema >= 3 => released.site[Key(q)].yanked = q.yanked
        BY DEF ReleasedForGood
    <2>1. LadderInv(released, known)
        BY DEF Climbed
    <2>2. PICK q \in released.packages : Kept(o, q, released.schema)
        BY <2>1 DEF LadderInv
    <2>3. released.schema >= 3 => released.site[Key(q)].yanked = q.yanked
        BY <2>1 DEF LadderInv, VerifyRows, RowMatches
    <2> QED BY <2>2, <2>3 DEF Kept
<1> QED
    BY <1>1, <1>2, <1>3, PTL DEF Spec

----------------------------------------------------------------------------
(* Evidence and plans: what BuildCandidate computes on its way has names, and *)
(* each of its reasons is there exactly when what it says is so.             *)

\* what BuildCandidate computes on its way
DeltaOf(s) ==
    IF s.base = Nothing THEN Nothing
    ELSE ArchiveDelta(ArchiveAnalysis(s.base.archive), ArchiveAnalysis(s.candidate.archive))
DependenciesOf(s) ==
    DependencyDelta(IF s.base = Nothing THEN {} ELSE DependencySet(s.base),
                    DependencySet(s.candidate))
ApiOf(s) == FetchApiEvidence(s.response, s.base, s.candidate)
ClassifiedOf(s) ==
    Classified(s, ArchiveAnalysis(s.candidate.archive), DeltaOf(s), DependenciesOf(s), ApiOf(s))
SourceOf(s) ==
    SourceEvidence(ClassifiedOf(s), ArchiveAnalysis(s.candidate.archive), ApiOf(s), s.public)
ReasonsOf(s) == ClassifiedOf(s) \cup SourceReasons(ClassifiedOf(s), SourceOf(s))
BaseArchive(s) ==
    IF s.base = Nothing THEN Nothing ELSE Summary(ArchiveAnalysis(s.base.archive))

\* no record of the evidence is taken for None
LEMMA Somethings ==
    /\ \A a : ArchiveAnalysis(a) # Nothing /\ Summary(a) # Nothing
    /\ \A a, b : ArchiveDelta(a, b) # Nothing
    /\ \A r, x : ApiVersion(r, x) # Nothing
    /\ \A a, b : [candidate |-> a, base |-> b] # Nothing
    /\ \A a, b : [commit |-> a, path |-> b] # Nothing
    /\ \A a, b : [repository |-> a, commit |-> b] # Nothing
    /\ Mismatch.level = "mismatch" /\ Unavailable.level = "unavailable"
<1>1. \A r : r = Nothing => DOMAIN r = {"none"}
    BY DEF Nothing
<1>2. \A a : ArchiveAnalysis(a) # Nothing
    <2> SUFFICES ASSUME NEW a PROVE ArchiveAnalysis(a) # Nothing
        OBVIOUS
    <2>1. DOMAIN ArchiveAnalysis(a) = {"files", "surface", "vcs"}
        BY DEF ArchiveAnalysis
    <2> QED BY <1>1, <2>1
<1>3. \A a : Summary(a) # Nothing
    BY <1>1 DEF Summary
<1>4. \A a, b : ArchiveDelta(a, b) # Nothing
    <2> SUFFICES ASSUME NEW a, NEW b PROVE ArchiveDelta(a, b) # Nothing
        OBVIOUS
    <2>1. DOMAIN ArchiveDelta(a, b) = {"added", "removed", "changed", "surfaceChanged"}
        BY DEF ArchiveDelta
    <2> QED BY <1>1, <2>1
<1>5. \A r, x : ApiVersion(r, x) # Nothing
    <2> SUFFICES ASSUME NEW r, NEW x PROVE ApiVersion(r, x) # Nothing
        OBVIOUS
    <2>1. DOMAIN ApiVersion(r, x) = {"publisher", "repository", "trusted"}
        BY DEF ApiVersion
    <2> QED BY <1>1, <2>1
<1>6. /\ \A a, b : [candidate |-> a, base |-> b] # Nothing
      /\ \A a, b : [commit |-> a, path |-> b] # Nothing
      /\ \A a, b : [repository |-> a, commit |-> b] # Nothing
    BY <1>1
<1> QED
    BY <1>2, <1>3, <1>4, <1>5, <1>6 DEF Mismatch, Unavailable

\* The candidate that BuildCandidate writes, field by field.
LEMMA Built ==
    ASSUME NEW s
    PROVE  LET c == BuildCandidate(s) IN
           /\ c.activity = s.activity /\ c.implicit = ~s.explicit /\ c.dormant = s.dormant
           /\ c.hasBase = (s.base # Nothing) /\ c.baseArchive = BaseArchive(s)
           /\ c.archive = Summary(ArchiveAnalysis(s.candidate.archive))
           /\ c.delta = DeltaOf(s) /\ c.dependencies = DependenciesOf(s) /\ c.api = ApiOf(s)
           /\ c.source = SourceOf(s) /\ c.reasons = ReasonsOf(s)
           /\ c.decision = DecisionForReasons(ReasonsOf(s))
<1> DEFINE base == IF s.base = Nothing THEN Nothing ELSE ArchiveAnalysis(s.base.archive)
<1>1. (IF base = Nothing THEN Nothing ELSE Summary(base)) = BaseArchive(s)
    BY Somethings DEF BaseArchive
<1>2. (IF s.base = Nothing THEN Nothing
       ELSE ArchiveDelta(base, ArchiveAnalysis(s.candidate.archive))) = DeltaOf(s)
    BY DEF DeltaOf
<1>3. BuildCandidate(s) =
         [activity |-> s.activity, implicit |-> ~s.explicit, dormant |-> s.dormant,
          hasBase |-> s.base # Nothing, baseArchive |-> BaseArchive(s),
          archive |-> Summary(ArchiveAnalysis(s.candidate.archive)), delta |-> DeltaOf(s),
          dependencies |-> DependenciesOf(s), api |-> ApiOf(s), source |-> SourceOf(s),
          reasons |-> ReasonsOf(s), decision |-> DecisionForReasons(ReasonsOf(s))]
    BY <1>1, <1>2, Zenon DEF BuildCandidate, DependenciesOf, ApiOf, ClassifiedOf, SourceOf, ReasonsOf
<1> QED
    BY <1>3

----------------------------------------------------------------------------
\* A reason is there when, and only when, what it names is.
LEMMA Policies ==
    ASSUME NEW registry, NEW ds
    PROVE  DependencyPolicy(registry, ds) \subseteq
               {"unknown-dependency-home", "forbidden-category-dependency"}
BY Zenon DEF DependencyPolicy

\* The two reasons that crates.io gives, or its silence.
LEMMA Discontinuities ==
    ASSUME NEW hasBase \in BOOLEAN, NEW api
    PROVE  LET D == ClassifyApiDiscontinuity(hasBase, api) IN
           /\ D \subseteq {"publisher-discontinuity", "repository-discontinuity"}
           /\ "publisher-discontinuity" \in D
                 <=> hasBase /\ (api = Nothing \/ Discontinuous(api.base.publisher, api.candidate.publisher))
           /\ "repository-discontinuity" \in D
                 <=> hasBase /\ (api = Nothing \/ Discontinuous(api.base.repository, api.candidate.repository))
<1> HIDE DEF Discontinuous
<1> QED
    BY DEF ClassifyApiDiscontinuity

\* Each reason of classify_candidate_reasons and of the selection.
LEMMA ReasonsGiven ==
    ASSUME NEW s, s.dormant \in BOOLEAN, s.explicit \in BOOLEAN,
           NEW archive, NEW delta, NEW dependencies, NEW api
    PROVE  LET R == Classified(s, archive, delta, dependencies, api)
               differs(before, after) == s.base # Nothing /\ (api = Nothing \/ Discontinuous(before, after))
           IN  /\ "new-package" \in R <=> s.activity = "new"
               /\ "inactive-revival" \in R <=> s.activity = "inactive"
               /\ "dormant-wakeup" \in R <=> s.dormant
               /\ "new-dependency" \in R <=> dependencies.newPackages # {}
               /\ "build-surface-changed" \in R
                     <=> IF delta = Nothing THEN archive.surface # {} ELSE delta.surfaceChanged
               /\ "publisher-discontinuity" \in R
                     <=> differs(api.base.publisher, api.candidate.publisher)
               /\ "repository-discontinuity" \in R
                     <=> differs(api.base.repository, api.candidate.repository)
               /\ "explicit-candidate" \in R <=> s.explicit
               /\ "source-unavailable" \notin R /\ "source-mismatch" \notin R
               /\ DependencyPolicy(s.registry, DependencySet(s.candidate)) \subseteq R
<1> DEFINE P == DependencyPolicy(s.registry, DependencySet(s.candidate))
           D == ClassifyApiDiscontinuity(s.base # Nothing, api)
           changed == IF delta = Nothing THEN archive.surface # {} ELSE delta.surfaceChanged
<1>1. P \subseteq {"unknown-dependency-home", "forbidden-category-dependency"}
    BY Policies
<1>2. /\ D \subseteq {"publisher-discontinuity", "repository-discontinuity"}
      /\ "publisher-discontinuity" \in D
            <=> s.base # Nothing /\ (api = Nothing \/ Discontinuous(api.base.publisher, api.candidate.publisher))
      /\ "repository-discontinuity" \in D
            <=> s.base # Nothing /\ (api = Nothing \/ Discontinuous(api.base.repository, api.candidate.repository))
    BY Discontinuities
<1> HIDE DEF P, D
<1>3. Classified(s, archive, delta, dependencies, api)
        = Activities(s.activity) \cup If(s.dormant, "dormant-wakeup")
          \cup If(dependencies.newPackages # {}, "new-dependency")
          \cup If(changed, "build-surface-changed") \cup P \cup D
          \cup If(s.explicit, "explicit-candidate")
    BY DEF Classified, P, D
<1> HIDE DEF changed
<1>4. \A holds, reason, x : x \in If(holds, reason) <=> holds /\ x = reason
    BY DEF If
<1>5. \A x : x \in Activities(s.activity)
                <=> \/ x = "new-package" /\ s.activity = "new"
                    \/ x = "inactive-revival" /\ s.activity = "inactive"
    BY DEF Activities
<1>6. \A x : x \in Classified(s, archive, delta, dependencies, api)
                <=> \/ x = "new-package" /\ s.activity = "new"
                    \/ x = "inactive-revival" /\ s.activity = "inactive"
                    \/ s.dormant /\ x = "dormant-wakeup"
                    \/ dependencies.newPackages # {} /\ x = "new-dependency"
                    \/ changed /\ x = "build-surface-changed"
                    \/ x \in P \/ x \in D
                    \/ s.explicit /\ x = "explicit-candidate"
    BY <1>3, <1>4, <1>5, Zenon
<1> QED
    BY <1>1, <1>2, <1>6 DEF P, changed

\* The three ends of a comparison with the public source.
LEMMA SourceEnds ==
    ASSUME NEW s, NEW source, source = SourceOf(s)
    PROVE  LET archive == ArchiveAnalysis(s.candidate.archive)
               api == ApiOf(s).candidate
               anchor == Anchor(archive, api)
               tree == PublicGitTree(s.public, anchor)
           IN  \/ source = Unavailable
               \/ source = Mismatch
               \/ /\ source = anchor
                  /\ ApiOf(s) # Nothing
                  /\ ~AnchorMissing(archive, api)
                  /\ api.trusted # Nothing => ~AnchorsDisagree(archive, api)
                  /\ Fetchable(s.public, anchor)
                  /\ \A f \in Compared(archive.files) :
                        /\ Matches(f, tree, anchor.path)
                        /\ ~BlobFails(tree, JoinVcsPath(anchor.path, SourcePathForArchiveFile(f.path)))
<1> DEFINE archive == ArchiveAnalysis(s.candidate.archive)
           api == IF ApiOf(s) = Nothing THEN Nothing ELSE ApiOf(s).candidate
<1>1. \/ source = Unavailable
      \/ source = VerifySourceCorrespondence(archive, api, s.public)
    BY Zenon DEF SourceOf, SourceEvidence
<1>2. AnchorMissing(archive, Nothing)
    BY DEF AnchorMissing
<1> HIDE DEF archive
<1> QED
    BY <1>1, <1>2, Zenon DEF VerifySourceCorrespondence, CompareArchiveToTree, archive

\* a row reports this of a release
Reports(row, release, said) ==
    /\ row.version = release.version
    /\ said = [publisher |-> row.publisher, repository |-> row.repository,
               trusted |-> ParseTrustedPublishing(row.trusted)]

\* What crates.io says of a release comes from a row of its answer.
LEMMA RowBehind ==
    ASSUME NEW response, NEW release, ExactVersion(response, release) # {}
    PROVE  \E i \in DOMAIN response.versions : Reports(response.versions[i], release,
                                                           ApiVersion(response, release))
<1> DEFINE w == CHOOSE v \in ExactVersion(response, release) : TRUE
<1>1. w \in ExactVersion(response, release)
    OBVIOUS
<1>2. ApiVersion(response, release)
          = [publisher |-> w.publisher, repository |-> w.repository,
             trusted |-> ParseTrustedPublishing(w.trusted)]
    BY DEF ApiVersion
<1> HIDE DEF w
<1>3. w.version = release.version /\ \E i \in DOMAIN response.versions : w = response.versions[i]
    BY <1>1, Zenon DEF ExactVersion
<1> QED
    BY <1>2, <1>3, Zenon DEF Reports

\* Evidence of the API has a row of the candidate, and one of the base if there
\* is a base.
LEMMA ApiParts ==
    ASSUME NEW s, ApiOf(s) # Nothing
    PROVE  /\ s.response # Nothing
           /\ ExactVersion(s.response, s.candidate) # {}
           /\ ApiOf(s).candidate = ApiVersion(s.response, s.candidate)
           /\ ApiOf(s).base # Nothing <=> s.base # Nothing
           /\ s.base # Nothing => /\ ExactVersion(s.response, s.base) # {}
                                  /\ ApiOf(s).base = ApiVersion(s.response, s.base)
BY Somethings DEF ApiOf, FetchApiEvidence

\* Without its suffix a trusted repository is itself when it had none.
LEMMA SuffixGone ==
    ASSUME NEW s, Selection(s), ApiOf(s) # Nothing, ApiOf(s).candidate.trusted # Nothing,
           NormalizePublicRepository(ApiOf(s).candidate.trusted.repository) # Nothing
    PROVE  ApiOf(s).candidate.trusted.repository
                   = NormalizePublicRepository(ApiOf(s).candidate.trusted.repository)
               <=> ~ApiOf(s).candidate.trusted.repository.suffixed
<1>1. PICK i \in DOMAIN s.response.versions :
          Reports(s.response.versions[i], s.candidate, ApiOf(s).candidate)
    BY ApiParts, RowBehind
<1> DEFINE t == s.response.versions[i].trusted
           r == ApiOf(s).candidate.trusted.repository
<1>2. ApiOf(s).candidate.trusted = ParseTrustedPublishing(t)
    BY <1>1 DEF Reports
<1>3. t # Nothing /\ r = ProviderRepository(t)
    BY <1>2 DEF ParseTrustedPublishing
<1>4. t.suffixed \in BOOLEAN
    BY <1>1, <1>3, ApiParts, Zenon DEF Selection
<1>5. NormalizePublicRepository(r) = [r EXCEPT !.suffixed = FALSE]
    BY DEF NormalizePublicRepository
<1>6. r = [host |-> t.provider, path |-> t.path, suffixed |-> t.suffixed, odd |-> t.odd]
    BY <1>3 DEF ProviderRepository
<1> HIDE DEF t, r
<1>7. r = NormalizePublicRepository(r) <=> ~r.suffixed
    BY <1>4, <1>5, <1>6
<1> QED
    BY <1>7 DEF r

\* The source evidence passes its check exactly when crates.io did not name the
\* trusted repository with its suffix.
LEMMA SourceReads ==
    ASSUME NEW s, Selection(s)
    PROVE  LET c == BuildCandidate(s) IN ValidateSourceEvidence(c) <=> ~Renamed(c)
<1> SUFFICES ASSUME NEW c, c = BuildCandidate(s)
             PROVE  ValidateSourceEvidence(c) <=> ~Renamed(c)
    OBVIOUS
<1> DEFINE archive == ArchiveAnalysis(s.candidate.archive)
           api == ApiOf(s).candidate
<1>1. c.source = SourceOf(s) /\ c.api = ApiOf(s) /\ c.archive.vcs = archive.vcs
    <2>1. c.source = SourceOf(s) /\ c.api = ApiOf(s) /\ c.archive = Summary(archive)
        BY Built
    <2> QED BY <2>1 DEF Summary
<1> HIDE DEF archive
<1>2. CASE SourceOf(s) = Unavailable \/ SourceOf(s) = Mismatch
    BY <1>1, <1>2, Somethings DEF ValidateSourceEvidence, Renamed
<1>3. CASE /\ SourceOf(s) = Anchor(archive, api)
           /\ ApiOf(s) # Nothing
           /\ ~AnchorMissing(archive, api)
           /\ api.trusted # Nothing => ~AnchorsDisagree(archive, api)
    <2> DEFINE r == api.trusted.repository
               claim == archive.vcs
    <2>1. CASE api.trusted = Nothing
        <3>1. /\ c.source.level = "asserted" /\ claim # Nothing
              /\ c.source.commit = claim.commit /\ c.source.path = claim.path
            BY <1>1, <1>3, <2>1 DEF Anchor, AnchorMissing, ClaimedPath
        <3> QED BY <1>1, <3>1 DEF ValidateSourceEvidence, Renamed
    <2>2. CASE api.trusted # Nothing
        <3>1. /\ c.source.level = "attested"
              /\ c.source.commit = api.trusted.commit
              /\ c.source.repository = NormalizePublicRepository(r)
              /\ c.source.path = ClaimedPath(archive)
            BY <1>1, <1>3, <2>2 DEF Anchor
        <3>2. claim # Nothing => claim.commit = api.trusted.commit
            BY <1>3, <2>2 DEF AnchorsDisagree
        <3>3. NormalizePublicRepository(r) # Nothing
            BY <1>3, <2>2 DEF AnchorMissing
        <3>4. r = NormalizePublicRepository(r) <=> ~r.suffixed
            BY <1>3, <2>2, <3>3, SuffixGone
        <3>5. Renamed(c) <=> r.suffixed
            BY <1>1, <3>1 DEF Renamed
        <3> HIDE DEF r
        <3>6. ValidateSourceEvidence(c) <=> r = NormalizePublicRepository(r)
            BY <1>1, <1>3, <2>2, <3>1, <3>2 DEF ValidateSourceEvidence, ClaimedPath, r
        <3> QED BY <3>4, <3>5, <3>6
    <2> QED BY <2>1, <2>2
<1>4. \/ SourceOf(s) = Unavailable \/ SourceOf(s) = Mismatch
      \/ /\ SourceOf(s) = Anchor(archive, api)
         /\ ApiOf(s) # Nothing
         /\ ~AnchorMissing(archive, api)
         /\ api.trusted # Nothing => ~AnchorsDisagree(archive, api)
    BY SourceEnds DEF archive
<1> QED
    BY <1>2, <1>3, <1>4

\* reasons that the source adds stand for nothing else
LEMMA SourceAdds ==
    ASSUME NEW s, Selection(s)
    PROVE  LET R == ReasonsOf(s)
               C == ClassifiedOf(s)
           IN  /\ \A x : x \in R <=> \/ x \in C
                                     \/ /\ x = "source-unavailable" /\ C \cap SourcePromotion # {}
                                        /\ SourceOf(s).level = "unavailable"
                                     \/ x = "source-mismatch" /\ SourceOf(s).level = "mismatch"
               /\ R \cap SourcePromotion = C \cap SourcePromotion
<1> DEFINE R == ReasonsOf(s)
           C == ClassifiedOf(s)
<1>1. R = C \cup SourceReasons(C, SourceOf(s))
    BY DEF ReasonsOf
<1> HIDE DEF R, C
<1>2. \A x : x \in R <=> \/ x \in C
                         \/ /\ x = "source-unavailable" /\ C \cap SourcePromotion # {}
                            /\ SourceOf(s).level = "unavailable"
                         \/ x = "source-mismatch" /\ SourceOf(s).level = "mismatch"
    BY <1>1, Zenon DEF SourceReasons, If
<1>3. "source-unavailable" \notin SourcePromotion /\ "source-mismatch" \notin SourcePromotion
    BY DEF SourcePromotion
<1>4. R \cap SourcePromotion = C \cap SourcePromotion
    BY <1>2, <1>3
<1> QED
    BY <1>2, <1>4 DEF R, C

\* Reasons, lane and decision pass theirs.
LEMMA ReasonsRead ==
    ASSUME NEW s, Selection(s)
    PROVE  LET c == BuildCandidate(s) IN
           /\ ValidateReasonConsistency(c)
           /\ ValidateCandidateLane(c)
           /\ ValidateDecision(c)
<1> SUFFICES ASSUME NEW c, c = BuildCandidate(s)
             PROVE  ValidateReasonConsistency(c) /\ ValidateCandidateLane(c) /\ ValidateDecision(c)
    OBVIOUS
<1> DEFINE C == ClassifiedOf(s)
<1>1. /\ c.activity = s.activity /\ c.implicit = ~s.explicit /\ c.dormant = s.dormant
      /\ c.hasBase = (s.base # Nothing)
      /\ c.archive.surface = ArchiveAnalysis(s.candidate.archive).surface
      /\ c.delta = DeltaOf(s) /\ c.dependencies = DependenciesOf(s) /\ c.api = ApiOf(s)
      /\ c.source = SourceOf(s) /\ c.reasons = ReasonsOf(s)
      /\ c.decision = DecisionForReasons(ReasonsOf(s))
    <2>1. /\ c.activity = s.activity /\ c.implicit = ~s.explicit /\ c.dormant = s.dormant
          /\ c.hasBase = (s.base # Nothing)
          /\ c.archive = Summary(ArchiveAnalysis(s.candidate.archive))
          /\ c.delta = DeltaOf(s) /\ c.dependencies = DependenciesOf(s) /\ c.api = ApiOf(s)
          /\ c.source = SourceOf(s) /\ c.reasons = ReasonsOf(s)
          /\ c.decision = DecisionForReasons(ReasonsOf(s))
        BY Built
    <2>2. Summary(ArchiveAnalysis(s.candidate.archive)).surface
              = ArchiveAnalysis(s.candidate.archive).surface
        BY DEF Summary
    <2> QED BY <2>1, <2>2, Zenon
<1>2. s.dormant \in BOOLEAN /\ s.explicit \in BOOLEAN /\ (~s.explicit => s.activity = "active")
    BY DEF Selection
<1>3. SourcePromotion = PromotedBy
    BY Zenon DEF SourcePromotion, PromotedBy
<1>4. DeltaOf(s) = Nothing <=> s.base = Nothing
    BY Somethings DEF DeltaOf
<1>5. /\ "new-package" \in C <=> s.activity = "new"
      /\ "inactive-revival" \in C <=> s.activity = "inactive"
      /\ "dormant-wakeup" \in C <=> s.dormant
      /\ "new-dependency" \in C <=> c.dependencies.newPackages # {}
      /\ "build-surface-changed" \in C
            <=> IF c.hasBase THEN c.delta.surfaceChanged ELSE c.archive.surface # {}
      /\ "publisher-discontinuity" \in C
            <=> c.hasBase /\ (c.api = Nothing \/ Discontinuous(c.api.base.publisher, c.api.candidate.publisher))
      /\ "repository-discontinuity" \in C
            <=> c.hasBase /\ (c.api = Nothing \/ Discontinuous(c.api.base.repository, c.api.candidate.repository))
      /\ "explicit-candidate" \in C <=> s.explicit
      /\ "source-unavailable" \notin C /\ "source-mismatch" \notin C
    <2> DEFINE d == DeltaOf(s)
               p == DependenciesOf(s)
               api == ApiOf(s)
               a == ArchiveAnalysis(s.candidate.archive)
    <2>1. /\ "new-package" \in C <=> s.activity = "new"
          /\ "inactive-revival" \in C <=> s.activity = "inactive"
          /\ "dormant-wakeup" \in C <=> s.dormant
          /\ "new-dependency" \in C <=> p.newPackages # {}
          /\ "build-surface-changed" \in C <=> IF d = Nothing THEN a.surface # {} ELSE d.surfaceChanged
          /\ "publisher-discontinuity" \in C
                <=> s.base # Nothing /\ (api = Nothing \/ Discontinuous(api.base.publisher, api.candidate.publisher))
          /\ "repository-discontinuity" \in C
                <=> s.base # Nothing /\ (api = Nothing \/ Discontinuous(api.base.repository, api.candidate.repository))
          /\ "explicit-candidate" \in C <=> s.explicit
          /\ "source-unavailable" \notin C /\ "source-mismatch" \notin C
        <3>1. C = Classified(s, a, d, p, api)
            BY Zenon DEF ClassifiedOf
        <3> HIDE DEF a, d, p, api, C
        <3> QED BY <1>2, <3>1, ReasonsGiven
    <2> HIDE DEF C
    <2> QED BY <1>1, <1>4, <2>1
<1> HIDE DEF C
<1>6. /\ \A x : x \in c.reasons <=> \/ x \in C
                                    \/ /\ x = "source-unavailable" /\ C \cap PromotedBy # {}
                                       /\ c.source.level = "unavailable"
                                    \/ x = "source-mismatch" /\ c.source.level = "mismatch"
      /\ c.reasons \cap PromotedBy = C \cap PromotedBy
    BY <1>1, <1>3, SourceAdds DEF C
<1>7. ValidateReasonConsistency(c)
    <2>1. /\ "new-package" \in c.reasons <=> c.activity = "new"
          /\ "inactive-revival" \in c.reasons <=> c.activity = "inactive"
          /\ "dormant-wakeup" \in c.reasons <=> c.dormant
          /\ "new-dependency" \in c.reasons <=> c.dependencies.newPackages # {}
          /\ "build-surface-changed" \in c.reasons
                <=> IF c.hasBase THEN c.delta.surfaceChanged ELSE c.archive.surface # {}
          /\ "source-unavailable" \in c.reasons
                <=> c.reasons \cap PromotedBy # {} /\ c.source.level = "unavailable"
          /\ "source-mismatch" \in c.reasons <=> c.source.level = "mismatch"
        BY <1>1, <1>5, <1>6
    <2>2. /\ "publisher-discontinuity" \in c.reasons
                <=> c.hasBase /\ (c.api = Nothing \/ Discontinuous(c.api.base["publisher"], c.api.candidate["publisher"]))
          /\ "repository-discontinuity" \in c.reasons
                <=> c.hasBase /\ (c.api = Nothing \/ Discontinuous(c.api.base["repository"], c.api.candidate["repository"]))
        BY <1>5, <1>6
    <2> QED
        BY <2>1, <2>2, Zenon DEF ValidateReasonConsistency, Discontinuous
<1>8. ValidateCandidateLane(c)
    <2>1. "explicit-candidate" \in c.reasons <=> s.explicit
        BY <1>5, <1>6
    <2> QED BY <1>1, <1>2, <2>1 DEF ValidateCandidateLane
<1>9. ValidateDecision(c)
    BY <1>1, <1>3, Zenon DEF ValidateDecision, DecisionForReasons, Blocking
<1> QED
    BY <1>7, <1>8, <1>9

\* So do the archives, the dependencies and the API evidence.
LEMMA ArchivesRead ==
    ASSUME NEW s, Selection(s)
    PROVE  LET c == BuildCandidate(s) IN
           /\ c.activity = "new" <=> ~c.hasBase
           /\ ValidateCandidateArchives(c)
           /\ ValidateDependencyDelta(c.dependencies)
           /\ ValidateApiEvidence(c)
<1> SUFFICES ASSUME NEW c, c = BuildCandidate(s)
             PROVE  /\ c.activity = "new" <=> ~c.hasBase
                    /\ ValidateCandidateArchives(c)
                    /\ ValidateDependencyDelta(c.dependencies)
                    /\ ValidateApiEvidence(c)
    OBVIOUS
<1> DEFINE a == ArchiveAnalysis(s.candidate.archive)
           b == ArchiveAnalysis(s.base.archive)
<1>1. /\ c.activity = s.activity /\ c.hasBase = (s.base # Nothing)
      /\ c.baseArchive = BaseArchive(s) /\ c.archive = Summary(a)
      /\ c.delta = DeltaOf(s) /\ c.dependencies = DependenciesOf(s) /\ c.api = ApiOf(s)
    BY Built
<1>2. s.activity = "new" <=> s.base = Nothing
    BY DEF Selection
<1>3. /\ BaseArchive(s) = IF s.base = Nothing THEN Nothing ELSE Summary(b)
      /\ DeltaOf(s) = IF s.base = Nothing THEN Nothing ELSE ArchiveDelta(b, a)
    BY DEF BaseArchive, DeltaOf
<1> HIDE DEF a, b
<1>4. ValidateCandidateArchives(c)
    <2>1. /\ c.hasBase <=> c.baseArchive # Nothing
          /\ c.hasBase <=> c.delta # Nothing
        BY <1>1, <1>3, Somethings
    <2>2. ASSUME s.base # Nothing
          PROVE  /\ c.delta.surfaceChanged <=> c.baseArchive.surface # c.archive.surface
                 /\ c.delta.added \cap c.delta.removed = {}
                 /\ (c.delta.added \cup c.delta.removed) \cap c.delta.changed = {}
        <3>1. c.delta = ArchiveDelta(b, a) /\ c.baseArchive = Summary(b) /\ c.archive = Summary(a)
            BY <1>1, <1>3, <2>2
        <3>2. c.baseArchive.surface = b.surface /\ c.archive.surface = a.surface
            BY <3>1 DEF Summary
        <3> DEFINE before == {f.path : f \in b.files}
                   after == {f.path : f \in a.files}
                   differ == {f.path : f \in a.files \ b.files}
        <3>3. /\ c.delta.added = after \ before /\ c.delta.removed = before \ after
              /\ c.delta.changed = differ \cap before
              /\ c.delta.surfaceChanged = (b.surface # a.surface)
            BY <3>1 DEF ArchiveDelta
        <3>4. differ \subseteq after
            OBVIOUS
        <3> HIDE DEF before, after, differ
        <3> QED BY <3>2, <3>3, <3>4
    <2> QED BY <1>1, <2>1, <2>2 DEF ValidateCandidateArchives
<1>5. ValidateDependencyDelta(c.dependencies)
    BY <1>1 DEF ValidateDependencyDelta, DependenciesOf, DependencyDelta
<1>6. ValidateApiEvidence(c)
    BY <1>1, ApiParts DEF ValidateApiEvidence
<1> QED
    BY <1>1, <1>2, <1>4, <1>5, <1>6

\* A plan passes all of them together, see PlanReads.
LEMMA PlansRead ==
    ASSUME NEW s, Selection(s)
    PROVE  PlanReads(s)
BY SourceReads, ReasonsRead, ArchivesRead, Zenon DEF PlanReads, ValidateCandidate

----------------------------------------------------------------------------
(* What the evidence is worth. *)

\* The last component of a path is replaced.
LEMMA LastReplaced ==
    ASSUME NEW S, NEW p \in Seq(S), p # <<>>, NEW x \in S
    PROVE  Sibling(p, x) = [p EXCEPT ![Len(p)] = x]
<1> DEFINE n == Len(p)
           F == SubSeq(p, 1, n - 1)
           G == F \o <<x>>
           H == [p EXCEPT ![n] = x]
<1>1. n \in Nat /\ n >= 1 /\ DOMAIN p = 1..n
    BY EmptySeq, LenProperties
<1>2. F \in Seq(S) /\ Len(F) = n - 1 /\ \A i \in 1..(n - 1) : F[i] = p[i]
    BY <1>1, SubSeqProperties
<1>3. <<x>> \in Seq(S) /\ Len(<<x>>) = 1 /\ <<x>>[1] = x
    OBVIOUS
<1>4. Front(p) = F
    BY DEF Front
<1> HIDE DEF F
<1>5. G \in Seq(S) /\ Len(G) = n
      /\ \A i \in 1..n : G[i] = IF i <= n - 1 THEN F[i] ELSE x
    <2>1. G \in Seq(S) /\ Len(G) = Len(F) + Len(<<x>>)
          /\ \A i \in 1 .. Len(F) + Len(<<x>>) : G[i] = IF i <= Len(F) THEN F[i] ELSE <<x>>[i - Len(F)]
        BY <1>2, <1>3, ConcatProperties
    <2> HIDE DEF n, G
    <2> QED BY <1>1, <1>2, <1>3, <2>1
<1>6. H \in Seq(S)
    BY <1>1, ExceptSeq
<1>7. Len(H) = n
      /\ \A i \in 1..n : H[i] = IF i = n THEN x ELSE p[i]
    BY <1>1, ExceptSeq
<1> HIDE DEF n, G, H
<1>8. \A i \in 1..n : G[i] = H[i]
    BY <1>1, <1>2, <1>5, <1>7
<1>9. G = H
    BY <1>5, <1>6, <1>7, <1>8, SeqEqual
<1> QED
    BY <1>4, <1>9 DEF Sibling, G, H, n

\* An archive that was inspected has files and directories.
LEMMA InspectedEntries ==
    ASSUME NEW a, InspectWithLimits(a), NEW e \in Entries(a)
    PROVE  /\ e.type = "file" \/ e.type = "directory"
           /\ e.type = "file" => /\ e \in Regular(a) /\ e.path # <<>> /\ ParseContents(e)
                                 /\ ArchiveFile(e) \in ArchiveAnalysis(a).files
<1>1. ReadEntry(e) /\ (e.type = "file" => e \in Regular(a) /\ ParseContents(e))
    BY DEF InspectWithLimits, Regular
<1>2. ArchiveAnalysis(a).files = {ArchiveFile(f) : f \in Regular(a)}
    BY DEF ArchiveAnalysis
<1> QED
    BY <1>1, <1>2 DEF ReadEntry

\* What is called public is compared entry by entry, see SourceIs.
LEMMA SourcesAre ==
    ASSUME NEW s, Selection(s)
    PROVE  SourceIs(s)
<1> SUFFICES ASSUME Plannable(s), NEW c, c = BuildCandidate(s),
                    c.source.level \in {"asserted", "attested"},
                    NEW e \in Entries(s.candidate.archive), e.type # "directory"
             PROVE  \/ e.path \in {VcsInfo, <<".cargo-ok">>}
                    \/ \E n \in DOMAIN Original,
                          o \in {x \in Entries(s.candidate.archive) : x.type # "directory"} :
                           /\ Last(e.path) = n
                           /\ o.path = [e.path EXCEPT ![Len(e.path)] = Original[n]]
                    \/ \E p \in s.public, o \in UNION {q.objects : q \in s.public} :
                           /\ p.repository = c.source.repository /\ p.commit = c.source.commit
                           /\ o \in p.objects
                           /\ o.content = e.content
                           /\ o.mode = IF ExecutableMode(e.mode) THEN "100755" ELSE "100644"
                           /\ \/ o.path = c.source.path \o e.path
                              \/ \E n \in DOMAIN Original :
                                     /\ Original[n] = Last(e.path)
                                     /\ o.path = c.source.path \o Sibling(e.path, n)
    BY Zenon DEF SourceIs
<1> DEFINE a == s.candidate.archive
           files == ArchiveAnalysis(a).files
           anchor == Anchor(ArchiveAnalysis(a), ApiOf(s).candidate)
           tree == PublicGitTree(s.public, anchor)
           f == ArchiveFile(e)
<1>1. InspectWithLimits(a)
    BY DEF Plannable, Inspected
<1>2. e.path \in Seq(STRING) /\ e.path # <<>> /\ e.mode \in Nat
      /\ f \in files /\ f.path = e.path /\ f.content = e.content /\ f.mode = e.mode
    <2>1. e.path \in Seq(STRING) /\ e.mode \in Nat
        BY Zenon DEF Selection
    <2>2. f.path = e.path /\ f.content = e.content /\ f.mode = e.mode
        BY DEF ArchiveFile
    <2> QED BY <1>1, <2>1, <2>2, InspectedEntries
<1>3. /\ c.source = anchor
      /\ Fetchable(s.public, anchor)
      /\ \A g \in Compared(files) :
             /\ Matches(g, tree, anchor.path)
             /\ ~BlobFails(tree, JoinVcsPath(anchor.path, SourcePathForArchiveFile(g.path)))
    <2>1. c.source = SourceOf(s)
        BY Built
    <2>2. c.source # Unavailable /\ c.source # Mismatch
        BY Somethings
    <2> QED BY <2>1, <2>2, SourceEnds
<1> HIDE DEF files, f
<1>4. CASE IsGeneratedManifest(e.path, files)
    <2> DEFINE n == Last(e.path)
    <2>1. n \in DOMAIN Original /\ Sibling(e.path, Original[n]) \in Paths(files)
        BY <1>4, Zenon DEF IsGeneratedManifest
    <2>2. PICK o \in Regular(a) : o.path = Sibling(e.path, Original[n])
        <3>1. PICK g \in files : g.path = Sibling(e.path, Original[n])
            BY <2>1, Zenon DEF Paths
        <3>2. PICK o \in Regular(a) : g = ArchiveFile(o)
            BY <3>1, Zenon DEF files, ArchiveAnalysis
        <3>3. g.path = o.path
            BY <3>2 DEF ArchiveFile
        <3> QED BY <3>1, <3>3
    <2>3. Original[n] \in STRING
        BY <2>1, EvidenceAssumption
    <2> HIDE DEF n
    <2>4. o.path = [e.path EXCEPT ![Len(e.path)] = Original[n]]
        <3>1. Sibling(e.path, Original[n]) = [e.path EXCEPT ![Len(e.path)] = Original[n]]
            BY <1>2, <2>3, LastReplaced
        <3> QED BY <2>2, <3>1, Zenon
    <2>5. o \in Entries(a) /\ o.type # "directory"
        BY <2>2 DEF Regular
    <2>6. \E m \in DOMAIN Original, x \in {y \in Entries(a) : y.type # "directory"} :
              /\ Last(e.path) = m
              /\ x.path = [e.path EXCEPT ![Len(e.path)] = Original[m]]
        BY <2>1, <2>4, <2>5, Zenon DEF n
    <2> QED BY <2>6, Zenon
<1>5. CASE ~IsGeneratedManifest(e.path, files) /\ e.path \notin {VcsInfo, <<".cargo-ok">>}
    <2>1. f \in Compared(files)
        BY <1>2, <1>5, Zenon DEF Compared
    <2>2. /\ tree \in s.public
          /\ tree.repository = anchor.repository /\ tree.commit = anchor.commit
        BY <1>3, Zenon DEF Fetchable, PublicGitTree
    <2> DEFINE path == JoinVcsPath(anchor.path, SourcePathForArchiveFile(e.path))
    <2>3. PICK o \in Blob(tree, path) :
              o.content = e.content /\ ExecutableMode(e.mode) = (o.mode = "100755")
        BY <1>2, <1>3, <2>1, Zenon DEF Matches
    <2>4. o.mode \in {"100644", "100755"}
        BY <1>2, <1>3, <2>1, <2>3, Zenon DEF BlobFails
    <2>5. o.mode = IF ExecutableMode(e.mode) THEN "100755" ELSE "100644"
        BY <2>3, <2>4
    <2>6. o \in tree.objects /\ o.path = path
        BY <2>3, Zenon DEF Blob
    <2>7. \/ path = anchor.path \o e.path
          \/ \E n \in DOMAIN Original :
                 /\ Original[n] = Last(e.path)
                 /\ path = anchor.path \o Sibling(e.path, n)
        <3> DEFINE restored == {n \in DOMAIN Original : Original[n] = Last(e.path)}
        <3>1. CASE restored = {}
            BY <3>1, Zenon DEF SourcePathForArchiveFile, JoinVcsPath
        <3>2. CASE restored # {}
            <4>1. (CHOOSE n \in restored : TRUE) \in restored
                BY <3>2
            <4>2. path = anchor.path \o Sibling(e.path, CHOOSE n \in restored : TRUE)
                BY <3>2, Zenon DEF SourcePathForArchiveFile, JoinVcsPath
            <4> QED BY <4>1, <4>2, Zenon
        <3> QED BY <3>1, <3>2
    <2> HIDE DEF path, tree, anchor
    <2>8. o \in UNION {q.objects : q \in s.public}
        BY <2>2, <2>6
    <2> QED BY <1>3, <2>2, <2>3, <2>5, <2>6, <2>7, <2>8, Zenon
<1> QED
    BY <1>4, <1>5

\* the files of an archive that a build may run or link, see QuietlyAutomatic
SurfacingOf(archive) ==
    {ArchiveFile(e) : e \in {f \in Entries(archive) :
        /\ f.type = "file"
        /\ \/ ExecutableMode(f.mode) \/ f.content \in WithNul
           \/ Last(f.path) \in Surfacing \/ f.path \in CargoConfig}}

\* What the build surface says of files is which files it has.
LEMMA FileSurface ==
    ASSUME NEW a, InspectWithLimits(a), NEW p, NEW x, NEW c
    PROVE  Surface(p, "file", x, c) \in ArchiveAnalysis(a).surface
               <=> [path |-> p, content |-> c, mode |-> x] \in SurfacingOf(a)
<1> DEFINE g == [path |-> p, content |-> c, mode |-> x]
           row == Surface(p, "file", x, c)
           files == {ArchiveFile(e) : e \in Regular(a)}
           builds(f) == \/ ExecutableMode(f.mode) \/ f.content \in WithNul
                        \/ Last(f.path) \in Surfacing \/ f.path \in CargoConfig
<1>1. ArchiveAnalysis(a).surface = UNION {MarkFileSurface(f) \cup MarkManifestSurface(f) : f \in files}
    BY DEF ArchiveAnalysis
<1>2. ASSUME NEW f \in files PROVE row \notin MarkManifestSurface(f)
    <2>1. PICK e \in Regular(a) : f = ArchiveFile(e)
        BY <1>2
    <2>2. f.path = e.path /\ f.content = e.content
        BY <2>1 DEF ArchiveFile
    <2>3. f.path \in Manifests => f.content \in DOMAIN Declared
        BY <2>2 DEF InspectWithLimits, ParseContents
    <2>4. ASSUME f.path \in Manifests, NEW d \in Declared[f.content]
          PROVE  row # Surface(f.path, d[1], 0, d[2])
        <3>1. d[1] # "file"
            BY <2>3, <2>4, EvidenceAssumption
        <3>2. row.what = "file" /\ Surface(f.path, d[1], 0, d[2]).what = d[1]
            BY DEF Surface
        <3> HIDE DEF row
        <3> QED BY <3>1, <3>2
    <2> HIDE DEF row
    <2> QED BY <2>4, Zenon DEF MarkManifestSurface
<1>3. ASSUME NEW f \in files PROVE row \in MarkFileSurface(f) <=> f = g /\ builds(f)
    <2>1. PICK e \in Regular(a) : f = ArchiveFile(e)
        BY <1>3
    <2>2. f = [path |-> e.path, content |-> e.content, mode |-> e.mode]
        BY <2>1 DEF ArchiveFile
    <2>3. row = Surface(f.path, "file", f.mode, f.content) <=> f = g
        BY <2>2 DEF Surface
    <2> HIDE DEF row, g
    <2>4. row \in MarkFileSurface(f) <=> builds(f) /\ row = Surface(f.path, "file", f.mode, f.content)
        BY Zenon DEF MarkFileSurface, IsBinary
    <2> HIDE DEF builds
    <2> QED BY <2>3, <2>4
<1> HIDE DEF row, g
<1>4. row \in ArchiveAnalysis(a).surface <=> \E f \in files : f = g /\ builds(f)
    <2>1. row \in ArchiveAnalysis(a).surface
             <=> \E f \in files : row \in MarkFileSurface(f) \/ row \in MarkManifestSurface(f)
        BY <1>1
    <2> HIDE DEF files, builds
    <2> QED BY <1>2, <1>3, <2>1, Zenon
<1>5. ASSUME NEW e PROVE LET f == ArchiveFile(e) IN
          builds(f) <=> \/ ExecutableMode(e.mode) \/ e.content \in WithNul
                        \/ Last(e.path) \in Surfacing \/ e.path \in CargoConfig
    BY Zenon DEF ArchiveFile
<1>6. g \in SurfacingOf(a) <=> \E f \in files : f = g /\ builds(f)
    <2>1. \A f : f \in files <=> \E e \in Entries(a) : e.type = "file" /\ f = ArchiveFile(e)
        BY Zenon DEF Regular
    <2>2. \A f : f \in SurfacingOf(a) <=>
              \E e \in Entries(a) : /\ e.type = "file" /\ f = ArchiveFile(e)
                                    /\ \/ ExecutableMode(e.mode) \/ e.content \in WithNul
                                       \/ Last(e.path) \in Surfacing \/ e.path \in CargoConfig
        BY Zenon DEF SurfacingOf
    <2> HIDE DEF files, builds
    <2> QED BY <1>5, <2>1, <2>2, Zenon
<1> QED
    BY <1>4, <1>6 DEF row, g

\* Archives of one build surface have the same files in it.
LEMMA SameSurfacing ==
    ASSUME NEW a, NEW b, InspectWithLimits(a), InspectWithLimits(b),
           ArchiveAnalysis(a).surface = ArchiveAnalysis(b).surface
    PROVE  SurfacingOf(a) = SurfacingOf(b)
<1>1. ASSUME NEW x, InspectWithLimits(x), NEW f \in SurfacingOf(x)
      PROVE  f = [path |-> f.path, content |-> f.content, mode |-> f.mode]
    <2>1. PICK e : f = ArchiveFile(e)
        BY <1>1, Zenon DEF SurfacingOf
    <2> QED BY <2>1 DEF ArchiveFile
<1>2. ASSUME NEW f \in SurfacingOf(a) PROVE f \in SurfacingOf(b)
    <2>1. f = [path |-> f.path, content |-> f.content, mode |-> f.mode]
        BY <1>1
    <2>2. [path |-> f.path, content |-> f.content, mode |-> f.mode] \in SurfacingOf(b)
        BY <2>1, FileSurface, Zenon
    <2> QED BY <2>1, <2>2
<1>3. ASSUME NEW f \in SurfacingOf(b) PROVE f \in SurfacingOf(a)
    <2>1. f = [path |-> f.path, content |-> f.content, mode |-> f.mode]
        BY <1>1
    <2>2. [path |-> f.path, content |-> f.content, mode |-> f.mode] \in SurfacingOf(a)
        BY <2>1, FileSurface, Zenon
    <2> QED BY <2>1, <2>2
<1> QED
    BY <1>2, <1>3, Zenon

\* No reason at all was given for what is decided by itself, see
\* QuietlyAutomatic.
LEMMA AutomaticsAreQuiet ==
    ASSUME NEW s, Selection(s)
    PROVE  QuietlyAutomatic(s)
<1> DEFINE packages(release) == {PackageIdentity[d.package] : d \in DependencySet(release)}
<1> SUFFICES ASSUME Plannable(s), BuildCandidate(s).decision = "automatic"
             PROVE  /\ s.activity = "active" /\ ~s.dormant /\ s.base # Nothing
                    /\ SurfacingOf(s.base.archive) = SurfacingOf(s.candidate.archive)
                    /\ packages(s.candidate) \subseteq packages(s.base)
                    /\ \A p \in packages(s.candidate) : \E h \in Homes :
                          PackageIdentity[h.name] = p /\ h.permitted
                    /\ \E i, j \in DOMAIN s.response.versions :
                          LET v == s.response.versions[i]
                              w == s.response.versions[j]
                          IN  /\ v.version = s.candidate.version /\ w.version = s.base.version
                              /\ v.publisher = w.publisher /\ v.publisher # Nothing
                              /\ v.repository = w.repository /\ v.repository # Nothing
    BY Zenon DEF QuietlyAutomatic, SurfacingOf
<1> DEFINE C == ClassifiedOf(s)
           a == ArchiveAnalysis(s.candidate.archive)
           d == DeltaOf(s)
           p == DependenciesOf(s)
           api == ApiOf(s)
           P == DependencyPolicy(s.registry, DependencySet(s.candidate))
<1>1. C \cap Blocking = {} /\ C \cap SourcePromotion = {}
    <2>1. DecisionForReasons(ReasonsOf(s)) = "automatic"
        BY Built
    <2>2. ReasonsOf(s) \cap Blocking = {} /\ ReasonsOf(s) \cap (SourcePromotion \cup {"source-unavailable"}) = {}
        BY <2>1 DEF DecisionForReasons
    <2>3. C \subseteq ReasonsOf(s)
        BY Zenon DEF ReasonsOf
    <2> HIDE DEF C
    <2> QED BY <2>2, <2>3
<1>2. /\ s.dormant \in BOOLEAN /\ s.explicit \in BOOLEAN
      /\ s.activity \in {"new", "inactive", "active"} /\ (s.activity = "new" <=> s.base = Nothing)
    BY DEF Selection
<1>3. /\ "new-package" \in C <=> s.activity = "new"
      /\ "inactive-revival" \in C <=> s.activity = "inactive"
      /\ "dormant-wakeup" \in C <=> s.dormant
      /\ "new-dependency" \in C <=> p.newPackages # {}
      /\ "build-surface-changed" \in C <=> IF d = Nothing THEN a.surface # {} ELSE d.surfaceChanged
      /\ "publisher-discontinuity" \in C
            <=> s.base # Nothing /\ (api = Nothing \/ Discontinuous(api.base.publisher, api.candidate.publisher))
      /\ "repository-discontinuity" \in C
            <=> s.base # Nothing /\ (api = Nothing \/ Discontinuous(api.base.repository, api.candidate.repository))
      /\ P \subseteq C
    <2>1. C = Classified(s, a, d, p, api)
        BY Zenon DEF ClassifiedOf
    <2> HIDE DEF a, d, p, api, C
    <2> QED BY <1>2, <2>1, ReasonsGiven
<1> HIDE DEF C, a, d, p, api, P
<1>4. \A x \in SourcePromotion \cup Blocking : x \notin C
    BY <1>1
<1>5. /\ s.activity = "active" /\ ~s.dormant /\ s.base # Nothing
      /\ p.newPackages = {} /\ (d # Nothing => ~d.surfaceChanged)
      /\ api # Nothing
      /\ ~Discontinuous(api.base.publisher, api.candidate.publisher)
      /\ ~Discontinuous(api.base.repository, api.candidate.repository)
    BY <1>2, <1>3, <1>4 DEF SourcePromotion
<1>6. P = {}
    <2>1. P \subseteq Blocking
        BY Policies DEF P, Blocking
    <2> QED BY <1>1, <1>3, <2>1
<1>7. SurfacingOf(s.base.archive) = SurfacingOf(s.candidate.archive)
    <2>1. d = ArchiveDelta(ArchiveAnalysis(s.base.archive), a) /\ d # Nothing
        BY <1>5, Somethings DEF d, DeltaOf, a
    <2>2. d.surfaceChanged = (ArchiveAnalysis(s.base.archive).surface # a.surface)
        BY <2>1 DEF ArchiveDelta
    <2>3. ArchiveAnalysis(s.base.archive).surface = ArchiveAnalysis(s.candidate.archive).surface
        BY <1>5, <2>1, <2>2 DEF a
    <2>4. InspectWithLimits(s.base.archive) /\ InspectWithLimits(s.candidate.archive)
        BY <1>5 DEF Plannable, Inspected
    <2> QED BY <2>3, <2>4, SameSurfacing
<1>8. packages(s.candidate) \subseteq packages(s.base)
    <2> DEFINE after == DependencySet(s.candidate)
               before == DependencySet(s.base)
               named(S) == {PackageIdentity[x.package] : x \in S}
    <2>1. p.newPackages = named(after \ before) \ named(before)
        BY <1>5, Zenon DEF p, DependenciesOf, DependencyDelta
    <2> QED BY <1>5, <2>1
<1>9. ASSUME NEW x \in packages(s.candidate)
      PROVE  \E h \in Homes : PackageIdentity[h.name] = x /\ h.permitted
    <2>1. PICK e \in DependencySet(s.candidate) : x = PackageIdentity[e.package]
        BY <1>9
    <2> DEFINE homes == ResolveDependency(s.registry, e.package)
    <2>2. homes # {} /\ \A h \in homes : h.permitted
        <3>1. "unknown-dependency-home" \notin P /\ "forbidden-category-dependency" \notin P
            BY <1>6
        <3> QED BY <3>1, Zenon DEF P, DependencyPolicy
    <2>3. homes \subseteq {h \in Homes : PackageIdentity[h.name] = x}
        BY <2>1, Zenon DEF ResolveDependency
    <2> HIDE DEF homes
    <2> QED BY <2>2, <2>3
<1>10. \E i, j \in DOMAIN s.response.versions :
           LET v == s.response.versions[i]
               w == s.response.versions[j]
           IN  /\ v.version = s.candidate.version /\ w.version = s.base.version
               /\ v.publisher = w.publisher /\ v.publisher # Nothing
               /\ v.repository = w.repository /\ v.repository # Nothing
    <2>1. /\ ExactVersion(s.response, s.candidate) # {}
          /\ ExactVersion(s.response, s.base) # {}
          /\ api.candidate = ApiVersion(s.response, s.candidate)
          /\ api.base = ApiVersion(s.response, s.base)
        BY <1>5, ApiParts DEF api
    <2>2. PICK i \in DOMAIN s.response.versions :
              Reports(s.response.versions[i], s.candidate, api.candidate)
        BY <2>1, RowBehind
    <2>3. PICK j \in DOMAIN s.response.versions :
              Reports(s.response.versions[j], s.base, api.base)
        BY <2>1, RowBehind
    <2>4. /\ api.candidate.publisher = s.response.versions[i].publisher
          /\ api.candidate.repository = s.response.versions[i].repository
          /\ api.base.publisher = s.response.versions[j].publisher
          /\ api.base.repository = s.response.versions[j].repository
        BY <2>2, <2>3 DEF Reports
    <2> QED BY <1>5, <2>2, <2>3, <2>4, Zenon DEF Discontinuous, Reports
<1> QED
    BY <1>5, <1>7, <1>8, <1>9, <1>10, Zenon

\* What is inspected is a selection that the assumption admits.
LEMMA Selected ==
    ASSUME Called, call = "evidence"
    PROVE  Selection(input)
BY InputAssumption DEF Called

\* A plan that was computed passes the checks of plan.rs when it is read, and
\* fails them exactly where a trusted repository is named with ".git".
THEOREM PlansValidateAlways == Spec => []PlansValidate
<1>1. Called => PlansValidate
    BY Selected, PlansRead DEF PlansValidate
<1> QED
    BY <1>1, CalledAlways, PTL

\* Every entry of an archive whose source is called asserted or attested is a
\* file of that public commit, or one of the records Cargo writes.
THEOREM SourceIsPublicAlways == Spec => []SourceIsPublic
<1>1. Called => SourceIsPublic
    BY Selected, SourcesAre DEF SourceIsPublic
<1> QED
    BY <1>1, CalledAlways, PTL

\* A decision of "automatic" has the same publisher, repository, scripts and
\* packages behind it that the base had.
THEOREM AutomaticIsQuietAlways == Spec => []AutomaticIsQuiet
<1>1. Called => AutomaticIsQuiet
    BY Selected, AutomaticsAreQuiet DEF AutomaticIsQuiet
<1> QED
    BY <1>1, CalledAlways, PTL

=============================================================================
