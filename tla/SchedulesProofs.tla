---------------------------- MODULE SchedulesProofs ----------------------------
(***************************************************************************)
(* Theorems about Cadence and Schedules, for every calendar and every      *)
(* bound: an occurrence is computed right, none is queued twice, and a     *)
(* script's runs do not pile up.                                           *)
(***************************************************************************)
EXTENDS Schedules, FiniteSetTheorems, FunctionTheorems, SequenceTheorems, WellFoundedInduction,
        TLAPS

-----------------------------------------------------------------------------
(* Numbers.                                                                *)

\* A set of naturals has a least: induction, by the least counterexample.
LEMMA LeastNatural ==
    ASSUME NEW T \in SUBSET Nat, T # {}
    PROVE  \E n \in T : \A k \in T : n <= k
<1> DEFINE R == {ss \in Nat \X Nat : ss[1] < ss[2]}
<1>1. IsWellFoundedOn(R, Nat)
  BY NatLessThanWellFounded DEF OpToRel
<1>2. \E n \in T : \A k \in T : ~ (<<k, n>> \in R)
  <2> HIDE DEF R
  <2> QED
    BY <1>1, WFMin
<1>3. PICK n \in T : \A k \in T : ~ (<<k, n>> \in R)
  BY <1>2
<1>4. ASSUME NEW k \in T PROVE n <= k
  <2>1. ~ (<<k, n>> \in R)
    BY <1>3
  <2>2. k \in Nat /\ n \in Nat
    OBVIOUS
  <2> QED
    BY <2>1, <2>2
<1> QED
  BY <1>4

\* What \div and % are.
LEMMA DivMod ==
    ASSUME NEW a \in Int, NEW b \in Nat \ {0}
    PROVE  /\ a \div b \in Int /\ a % b \in 0 .. b - 1
           /\ a = b * (a \div b) + (a % b)
OBVIOUS

\* Multiples of b are b apart.
LEMMA Monotone ==
    ASSUME NEW b \in Nat, NEW x \in Int, NEW y \in Int, x < y
    PROVE  b * x + b <= b * y
OBVIOUS

\* A quotient and a remainder are the only ones.
LEMMA DivModUnique ==
    ASSUME NEW a \in Int, NEW b \in Nat \ {0}, NEW q \in Int, NEW r \in 0 .. b - 1,
           a = b * q + r
    PROVE  a \div b = q /\ a % b = r
<1>1. a \div b \in Int /\ a % b \in 0 .. b - 1 /\ a = b * (a \div b) + (a % b)
  BY DivMod
<1>2. ASSUME a \div b < q PROVE FALSE
  BY <1>1, <1>2, Monotone
<1>3. ASSUME q < a \div b PROVE FALSE
  BY <1>1, <1>3, Monotone
<1> QED
  BY <1>1, <1>2, <1>3

\* Dividing by a product is dividing twice.
LEMMA Nested ==
    ASSUME NEW a \in Int, NEW b \in Nat \ {0}, NEW c \in Nat \ {0}
    PROVE  /\ a % (b * c) = b * ((a \div b) % c) + (a % b)
           /\ a \div (b * c) = (a \div b) \div c
           /\ b * c \in Nat \ {0}
<1> DEFINE q == a \div b
           r == a % b
           x == q % c
           y == q \div c
<1>1. q \in Int /\ r \in 0 .. b - 1 /\ a = b * q + r
  BY DivMod
<1>2. y \in Int /\ x \in 0 .. c - 1 /\ q = c * y + x
  BY <1>1, DivMod
<1> HIDE DEF q, r, x, y
<1>3. b * c \in Nat \ {0}
  OBVIOUS
<1>4. b * x + b <= b * c /\ b * x \in Nat
  BY <1>2, Monotone
<1>5. b * x + r \in 0 .. b * c - 1
  BY <1>1, <1>3, <1>4
<1>6. a = (b * c) * y + (b * x + r)
  <2>1. b * (c * y + x) = (b * c) * y + b * x
    BY <1>2
  <2> QED
    BY <1>1, <1>2, <2>1
<1>7. a \div (b * c) = y /\ a % (b * c) = b * x + r
  <2> DEFINE k == b * c
             s == b * x + r
  <2>1. k \in Nat \ {0} /\ s \in 0 .. k - 1 /\ a = k * y + s
    BY <1>3, <1>5, <1>6
  <2> HIDE DEF k, s
  <2>2. a \div k = y /\ a % k = s
    BY <2>1, <1>2, DivModUnique
  <2> QED
    BY <2>2 DEF k, s
<1> QED
  BY <1>3, <1>7 DEF q, r, x, y

\* A remainder comes round once in k.
LEMMA Periodic ==
    ASSUME NEW k \in Nat \ {0}, NEW last \in Int, NEW t \in last .. last + k
    PROVE  t % k = last % k <=> t \in {last, last + k}
<1>1. last \div k \in Int /\ last % k \in 0 .. k - 1 /\ last = k * (last \div k) + (last % k)
  BY DivMod
<1>2. t \div k \in Int /\ t % k \in 0 .. k - 1 /\ t = k * (t \div k) + (t % k)
  BY DivMod
<1>3. ASSUME t % k = last % k PROVE t \in {last, last + k}
  <2>1. k * (t \div k) <= k * (last \div k) + k /\ k * (last \div k) <= k * (t \div k)
    BY <1>1, <1>2, <1>3
  <2>2. t \div k \in {last \div k, last \div k + 1}
    <3>1. ASSUME t \div k < last \div k PROVE FALSE
      BY <1>1, <1>2, <2>1, <3>1, Monotone
    <3>2. ASSUME last \div k + 1 < t \div k PROVE FALSE
      <4>1. k * (last \div k + 1) + k <= k * (t \div k)
        BY <1>1, <1>2, <3>2, Monotone
      <4> QED
        BY <1>1, <1>2, <2>1, <4>1
    <3> QED
      BY <1>1, <1>2, <3>1, <3>2
  <2> QED
    BY <1>1, <1>2, <1>3, <2>2
<1>4. (last + k) % k = last % k
  <2>1. last + k = k * (last \div k + 1) + (last % k)
    BY <1>1
  <2> DEFINE a == last + k
             q == last \div k + 1
             r == last % k
  <2>2. a \in Int /\ q \in Int /\ r \in 0 .. k - 1 /\ a = k * q + r
    BY <1>1, <2>1
  <2> HIDE DEF a, q, r
  <2>3. a % k = r
    BY <2>2, DivModUnique
  <2> QED
    BY <2>3 DEF a, r
<1> QED
  BY <1>3, <1>4

-----------------------------------------------------------------------------
(* The calendar.                                                           *)

\* The calendar's sizes.
LEMMA Sizes ==
    /\ Hours \in Nat \ {0} /\ Minutes \in Nat \ {0} /\ WeekDays \in Nat \ {0}
    /\ LastDay \in Nat \ {0}
    /\ DayMinutes \in Nat \ {0} /\ DayMinutes = Minutes * Hours
BY CalendarAssumption DEF DayMinutes

\* Months follow one another, each as long as a schedule may name a day.
LEMMA MonthSizes ==
    /\ YearDays \in Nat \ {0} /\ Len(DaysBefore) - 1 \in Nat \ {0} /\ DaysBefore[1] = 0
    /\ \A m \in 1 .. Len(DaysBefore) : DaysBefore[m] \in Nat
    /\ \A m \in Months : /\ m + 1 \in 1 .. Len(DaysBefore)
                         /\ DaysBefore[m] \in Nat /\ DaysBefore[m + 1] \in Nat
                         /\ DaysBefore[m] + LastDay <= DaysBefore[m + 1]
                         /\ DaysBefore[m + 1] <= YearDays
    /\ \A m, n \in Months : m < n => DaysBefore[m + 1] <= DaysBefore[n]
<1>1. /\ Len(DaysBefore) \in Nat /\ Len(DaysBefore) > 1
      /\ DOMAIN DaysBefore = 1 .. Len(DaysBefore)
      /\ \A m \in 1 .. Len(DaysBefore) : DaysBefore[m] \in Nat
      /\ LastDay \in Nat \ {0}
  BY CalendarAssumption
<1>2. \A m, n \in 1 .. Len(DaysBefore) : m < n => DaysBefore[m] + LastDay <= DaysBefore[n]
  BY <1>1, CalendarAssumption
<1>3. \A m, n \in 1 .. Len(DaysBefore) : m <= n => DaysBefore[m] <= DaysBefore[n]
  BY <1>1, <1>2
<1>4. DaysBefore[1] = 0 /\ YearDays \in Nat \ {0}
  BY <1>1, <1>2, CalendarAssumption DEF YearDays
<1> QED
  BY <1>1, <1>2, <1>3, <1>4 DEF Months, YearDays

\* A day of the year, from 0, is in this month.
InMonth(day, m) == DaysBefore[m] <= day /\ day < DaysBefore[m + 1]

\* A day of the year is in one month.
LEMMA MonthOf ==
    ASSUME NEW day \in 0 .. YearDays - 1
    PROVE  /\ \E m \in Months : InMonth(day, m)
           /\ \A m, n \in Months : InMonth(day, m) /\ InMonth(day, n) => m = n
<1> DEFINE T == {m \in 1 .. Len(DaysBefore) : day < DaysBefore[m]}
<1>1. Len(DaysBefore) \in T /\ T \in SUBSET Nat
  BY MonthSizes DEF YearDays
<1>2. PICK n \in T : \A k \in T : n <= k
  BY <1>1, LeastNatural
<1>3. n # 1
  BY <1>2, MonthSizes
<1>4. n - 1 \in Months /\ n - 1 \notin T /\ (n - 1) + 1 = n
  BY <1>2, <1>3, MonthSizes DEF Months
<1>5. InMonth(day, n - 1)
  BY <1>2, <1>4, MonthSizes DEF InMonth
<1>6. ASSUME NEW i \in Months, NEW j \in Months, InMonth(day, i), InMonth(day, j), i < j
      PROVE  FALSE
  BY <1>6, MonthSizes DEF InMonth, Months
<1>7. \A i \in Months : i \in Nat
  BY MonthSizes DEF Months
<1> QED
  BY <1>4, <1>5, <1>6, <1>7

-----------------------------------------------------------------------------
(* Fields and instants.                                                    *)

\* Fields that name a day of their month.
Real(f) ==
    /\ f \in [year : Int, month : Months, day : Nat \ {0}, hour : 0 .. (Hours - 1),
              minute : 0 .. (Minutes - 1)]
    /\ DaysBefore[f.month] + f.day <= DaysBefore[f.month + 1]

\* Its day's number, from the first.
DayNumber(f) == f.year * YearDays + DaysBefore[f.month] + f.day - 1

\* The fields of a day say its number, and the number them.
LEMMA DayNumberIs ==
    ASSUME NEW f, Real(f)
    PROVE  /\ DayNumber(f) \in Int
           /\ DayNumber(f) \div YearDays = f.year
           /\ DayNumber(f) % YearDays = DaysBefore[f.month] + f.day - 1
           /\ InMonth(DaysBefore[f.month] + f.day - 1, f.month)
<1> DEFINE r == DaysBefore[f.month] + f.day - 1
           n == DayNumber(f)
<1>1. f.year \in Int /\ f.month \in Months /\ f.day \in Nat \ {0}
  BY DEF Real
<1>a. /\ DaysBefore[f.month] \in Nat /\ DaysBefore[f.month + 1] \in Nat
      /\ DaysBefore[f.month + 1] <= YearDays /\ YearDays \in Nat \ {0}
  BY <1>1, MonthSizes
<1>2. r \in 0 .. YearDays - 1 /\ InMonth(r, f.month)
  BY <1>1, <1>a DEF Real, InMonth
<1>3. n \in Int /\ n = YearDays * f.year + r
  <2>1. f.year * YearDays = YearDays * f.year /\ f.year * YearDays \in Int
    BY <1>1, <1>a
  <2> QED
    BY <1>1, <1>a, <2>1 DEF DayNumber
<1> HIDE DEF r, n
<1>4. n \div YearDays = f.year /\ n % YearDays = r
  BY <1>1, <1>2, <1>3, MonthSizes, DivModUnique
<1> QED
  BY <1>2, <1>3, <1>4 DEF r, n

\* The fields of an instant are those of a day.
LEMMA FieldsOf ==
    ASSUME NEW t \in Int
    PROVE  /\ Real(Fields(t))
           /\ DayNumber(Fields(t)) = t \div DayMinutes
           /\ Fields(t).hour = (t \div Minutes) % Hours
           /\ Fields(t).minute = t % Minutes
<1> DEFINE days == t \div DayMinutes
           day == days % YearDays
           month == CHOOSE m \in Months : InMonth(day, m)
<1>1. days \in Int
  BY Sizes, DivMod
<1>2. /\ days \div YearDays \in Int /\ day \in 0 .. YearDays - 1
      /\ days = YearDays * (days \div YearDays) + day
  BY <1>1, MonthSizes, DivMod
<1>3. month \in Months /\ InMonth(day, month)
  BY <1>2, MonthOf
<1>4. (t \div Minutes) % Hours \in 0 .. Hours - 1 /\ t % Minutes \in 0 .. Minutes - 1
  BY Sizes, DivMod
<1>5. Fields(t) = [year |-> days \div YearDays, month |-> month,
                   day |-> day - DaysBefore[month] + 1,
                   hour |-> (t \div Minutes) % Hours, minute |-> t % Minutes]
  BY DEF Fields, InMonth
<1> HIDE DEF days, day, month
<1>6. day - DaysBefore[month] + 1 \in Nat \ {0}
  BY <1>2, <1>3, MonthSizes DEF InMonth
<1>a. /\ DaysBefore[month] \in Nat /\ DaysBefore[month + 1] \in Nat
      /\ YearDays \in Nat \ {0}
  BY <1>3, MonthSizes
<1>7. Real(Fields(t))
  BY <1>2, <1>3, <1>4, <1>5, <1>6, <1>a DEF Real, InMonth
<1>8. DayNumber(Fields(t)) = days
  <2>1. days = (days \div YearDays) * YearDays + day
    BY <1>1, <1>2, <1>a
  <2> QED
    BY <1>1, <1>2, <1>3, <1>5, <1>a, <2>1 DEF DayNumber
<1> QED
  BY <1>5, <1>7, <1>8 DEF days

\* An instant is a day, and a time of it.
LEMMA InstantOf ==
    ASSUME NEW f, Real(f)
    PROVE  /\ Instant(f) \in Int
           /\ Instant(f) = DayMinutes * DayNumber(f) + (Minutes * f.hour + f.minute)
           /\ Minutes * f.hour + f.minute \in 0 .. DayMinutes - 1
           /\ Instant(f) \div DayMinutes = DayNumber(f)
           /\ (Instant(f) \div Minutes) % Hours = f.hour
           /\ Instant(f) % Minutes = f.minute
           /\ Instant(f) % DayMinutes = Minutes * f.hour + f.minute
<1> DEFINE n == DayNumber(f)
           h == f.hour
           m == f.minute
           r == Minutes * h + m
           t == DayMinutes * n + r
<1>1. n \in Int /\ h \in 0 .. Hours - 1 /\ m \in 0 .. Minutes - 1
  BY DayNumberIs DEF Real
<1>2. Instant(f) = (n * Hours + h) * Minutes + m
  BY DEF Instant, DayNumber
<1> HIDE DEF n, h, m
<1>3. (n * Hours + h) * Minutes = Minutes * Hours * n + Minutes * h
  BY <1>1, Sizes
<1>4. r \in 0 .. DayMinutes - 1
  <2>1. Minutes * h + Minutes <= Minutes * Hours /\ Minutes * h \in Nat
    BY <1>1, Sizes, Monotone
  <2> QED
    BY <1>1, <2>1, Sizes
<1>5. t \in Int /\ Instant(f) = t
  BY <1>1, <1>2, <1>3, <1>4, Sizes
<1>6. t = Minutes * (Hours * n + h) + m /\ Hours * n + h \in Int
  BY <1>1, <1>3, Sizes
<1> HIDE DEF r, t
<1>7. t \div DayMinutes = n /\ t % DayMinutes = r
  BY <1>1, <1>4, <1>5, Sizes, DivModUnique DEF t
<1>8. t \div Minutes = Hours * n + h /\ t % Minutes = m
  <2> DEFINE q == Hours * n + h
  <2>1. q \in Int /\ t = Minutes * q + m
    BY <1>6
  <2> HIDE DEF q
  <2>2. t \div Minutes = q /\ t % Minutes = m
    BY <1>1, <1>5, <2>1, Sizes, DivModUnique
  <2> QED
    BY <2>2 DEF q
<1>9. (Hours * n + h) % Hours = h
  <2> DEFINE q == Hours * n + h
  <2>1. q \in Int /\ q = Hours * n + h
    BY <1>6
  <2> HIDE DEF q
  <2>2. q % Hours = h
    BY <1>1, <2>1, Sizes, DivModUnique
  <2> QED
    BY <2>2 DEF q
<1> QED
  BY <1>4, <1>5, <1>7, <1>8, <1>9 DEF n, h, m, r, t

\* Fields and instants are the same, read both ways: an instant has its fields ...
LEMMA InstantOfFields ==
    ASSUME NEW t \in Int
    PROVE  Instant(Fields(t)) = t
<1>1. t \div DayMinutes \in Int /\ t = DayMinutes * (t \div DayMinutes) + (t % DayMinutes)
  BY Sizes, DivMod
<1>2. t % DayMinutes = Minutes * ((t \div Minutes) % Hours) + (t % Minutes)
  BY Sizes, Nested
<1> QED
  BY <1>1, <1>2, FieldsOf, InstantOf

\* ... and fields their instant.
LEMMA FieldsOfInstant ==
    ASSUME NEW f, Real(f)
    PROVE  Fields(Instant(f)) = f
<1> DEFINE g == Fields(Instant(f))
<1>1. Real(g) /\ DayNumber(g) = DayNumber(f) /\ g.hour = f.hour /\ g.minute = f.minute
  BY InstantOf, FieldsOf
<1> HIDE DEF g
<1>2. /\ g.year = f.year
      /\ DaysBefore[g.month] + g.day - 1 = DaysBefore[f.month] + f.day - 1
      /\ DaysBefore[f.month] + f.day - 1 \in 0 .. YearDays - 1
  <2>1. DayNumber(f) % YearDays \in 0 .. YearDays - 1
    BY DayNumberIs, MonthSizes, DivMod
  <2> QED
    BY <1>1, <2>1, DayNumberIs
<1>3. g.month = f.month
  BY <1>1, <1>2, DayNumberIs, MonthOf DEF Real
<1>4. g.day = f.day
  <2>1. DaysBefore[f.month] \in Nat /\ g.day \in Nat /\ f.day \in Nat
    BY <1>1, MonthSizes DEF Real
  <2> QED
    BY <1>2, <1>3, <2>1
<1> QED
  BY <1>1, <1>2, <1>3, <1>4 DEF Real, g

-----------------------------------------------------------------------------
(* Occurrences.                                                            *)

\* A cadence of one period: the candidate near now, or one period before it, is
\* the last occurrence, and one period on is the next.
LEMMA PeriodAround ==
    ASSUME NEW c, NEW k \in Nat \ {0}, NEW x \in Int, NEW now \in Int,
           x - k <= now, now < x + k,
           \A t \in Int : Occurs(c, t) <=> t % k = x % k
    PROVE  /\ Passed(x, x - k, now) \in Int
           /\ Around(c, Passed(x, x - k, now), now, Passed(x, x - k, now) + k)
<1> DEFINE last == Passed(x, x - k, now)
<1>1. last \in {x, x - k} /\ last \in Int /\ last <= now /\ now < last + k
  BY DEF Passed
<1>2. last % k = x % k
  <2>1. CASE last = x
    BY <2>1
  <2>2. CASE last = x - k
    <3> DEFINE y == x - k
    <3>1. y \in Int /\ x \in y .. y + k /\ x \in {y, y + k}
      OBVIOUS
    <3> HIDE DEF y
    <3>2. x % k = y % k
      BY <3>1, Periodic
    <3> QED
      BY <2>2, <3>2 DEF y
  <2> QED
    BY <1>1, <2>1, <2>2
<1>3. \A t \in last .. last + k : t % k = last % k <=> t \in {last, last + k}
  BY <1>1, Periodic
<1> HIDE DEF last
<1>4. \A t \in last .. last + k : Occurs(c, t) <=> t \in {last, last + k}
  BY <1>1, <1>2, <1>3
<1> QED
  BY <1>1, <1>4 DEF Around, last

\* Two digits make one number.
LEMMA Digits ==
    ASSUME NEW b \in Nat \ {0}, NEW x \in Int, NEW y \in Int,
           NEW r \in 0 .. b - 1, NEW s \in 0 .. b - 1,
           b * x + r = b * y + s
    PROVE  x = y /\ r = s
<1> DEFINE a == b * x + r
<1>1. a \in Int /\ a = b * x + r /\ a = b * y + s
  OBVIOUS
<1> HIDE DEF a
<1>2. a \div b = x /\ a % b = r
  BY <1>1, DivModUnique
<1>3. a \div b = y /\ a % b = s
  BY <1>1, DivModUnique
<1> QED
  BY <1>2, <1>3

\* An hourly cadence comes round at its minute.
LEMMA HourlyRight ==
    ASSUME NEW now \in Int, NEW c \in Cadences, c.frequency = "hourly"
    PROVE  /\ LatestOccurrence(c, now) \in Int
           /\ Around(c, LatestOccurrence(c, now), now, NextOccurrence(c, now))
<1> DEFINE f == Fields(now)
           g == [f EXCEPT !.minute = c.minute]
           x == Instant(g)
<1>1. c.minute \in 0 .. Minutes - 1
  BY DEF Cadences
<1>2. Real(f) /\ Instant(f) = now
  BY FieldsOf, InstantOfFields
<1>3. /\ Real(g) /\ DayNumber(g) = DayNumber(f) /\ g.hour = f.hour
      /\ f.minute \in 0 .. Minutes - 1 /\ g.minute = c.minute
  BY <1>1, <1>2 DEF Real, DayNumber
<1> HIDE DEF f, g
<1>4. x \in Int /\ x % Minutes = c.minute
  BY <1>3, InstantOf
<1>5. x - now = g.minute - f.minute
  <2> DEFINE a == DayMinutes * DayNumber(f)
             b == Minutes * f.hour
  <2>1. a \in Int /\ b \in Int
    BY <1>2, DayNumberIs, Sizes DEF Real
  <2>2. now = a + (b + f.minute) /\ x = a + (b + g.minute)
    BY <1>2, <1>3, InstantOf
  <2> HIDE DEF a, b, x
  <2> QED
    BY <1>1, <1>3, <2>1, <2>2
<1>6. x - Minutes <= now /\ now < x + Minutes
  <2> HIDE DEF x
  <2> QED
    BY <1>1, <1>3, <1>4, <1>5, Sizes
<1>7. \A t \in Int : Occurs(c, t) <=> t % Minutes = x % Minutes
  BY <1>4, FieldsOf DEF Occurs
<1>8. LatestOccurrence(c, now) = Passed(x, x - Minutes, now)
  BY DEF LatestOccurrence, f, g
<1>9. NextOccurrence(c, now) = Passed(x, x - Minutes, now) + Minutes
  BY <1>8 DEF NextOccurrence
<1> HIDE DEF x
<1>10. /\ Passed(x, x - Minutes, now) \in Int
       /\ Around(c, Passed(x, x - Minutes, now), now,
                 Passed(x, x - Minutes, now) + Minutes)
  BY <1>4, <1>6, <1>7, Sizes, PeriodAround
<1> QED
  BY <1>8, <1>9, <1>10

\* The remainder of a day is its time.
LEMMA TimeOfDay ==
    ASSUME NEW t \in Int, NEW h \in 0 .. Hours - 1, NEW m \in 0 .. Minutes - 1
    PROVE  t % DayMinutes = Minutes * h + m <=> Fields(t).hour = h /\ Fields(t).minute = m
<1> DEFINE hh == (t \div Minutes) % Hours
           mm == t % Minutes
<1>1. t % DayMinutes = Minutes * hh + mm
  BY Sizes, Nested
<1>2. hh \in 0 .. Hours - 1 /\ mm \in 0 .. Minutes - 1
  BY Sizes, DivMod
<1>3. Fields(t).hour = hh /\ Fields(t).minute = mm
  BY FieldsOf
<1> HIDE DEF hh, mm
<1>4. ASSUME Minutes * hh + mm = Minutes * h + m PROVE hh = h /\ mm = m
  BY <1>2, <1>4, Sizes, Digits
<1> QED
  BY <1>1, <1>3, <1>4

\* A time of the day of now.
LEMMA ThatDayAt ==
    ASSUME NEW now \in Int, NEW h \in 0 .. Hours - 1, NEW m \in 0 .. Minutes - 1
    PROVE  LET x == Instant([Fields(now) EXCEPT !.hour = h, !.minute = m])
           IN  /\ x \in Int /\ x \div DayMinutes = now \div DayMinutes
               /\ x % DayMinutes = Minutes * h + m
               /\ Minutes * h + m \in 0 .. DayMinutes - 1
<1> DEFINE f == Fields(now)
           g == [f EXCEPT !.hour = h, !.minute = m]
<1>1. Real(f) /\ DayNumber(f) = now \div DayMinutes
  BY FieldsOf
<1>2. Real(g) /\ DayNumber(g) = DayNumber(f) /\ g.hour = h /\ g.minute = m
  BY <1>1 DEF Real, DayNumber
<1> HIDE DEF g
<1>3. /\ Instant(g) \in Int /\ Instant(g) \div DayMinutes = DayNumber(f)
      /\ Instant(g) % DayMinutes = Minutes * h + m
      /\ Minutes * h + m \in 0 .. DayMinutes - 1
  BY <1>2, InstantOf
<1> QED
  BY <1>1, <1>3 DEF g

\* A daily cadence comes round at its time of day.
LEMMA DailyRight ==
    ASSUME NEW now \in Int, NEW c \in Cadences, c.frequency = "daily"
    PROVE  /\ LatestOccurrence(c, now) \in Int
           /\ Around(c, LatestOccurrence(c, now), now, NextOccurrence(c, now))
<1> DEFINE x == Instant([Fields(now) EXCEPT !.hour = c.hour, !.minute = c.minute])
           r == Minutes * c.hour + c.minute
           q == now \div DayMinutes
<1>1. c.hour \in 0 .. Hours - 1 /\ c.minute \in 0 .. Minutes - 1
  BY DEF Cadences
<1>2. x \in Int /\ x \div DayMinutes = q /\ x % DayMinutes = r /\ r \in 0 .. DayMinutes - 1
  BY <1>1, ThatDayAt
<1>3. LatestOccurrence(c, now) = Passed(x, x - DayMinutes, now)
  BY DEF LatestOccurrence
<1>4. NextOccurrence(c, now) = Passed(x, x - DayMinutes, now) + DayMinutes
  BY <1>3 DEF NextOccurrence
<1> HIDE DEF x
<1>5. \A t \in Int : Occurs(c, t) <=> t % DayMinutes = x % DayMinutes
  BY <1>1, <1>2, TimeOfDay DEF Occurs
<1>6. x = DayMinutes * q + r /\ q \in Int
  <2>1. x \div DayMinutes \in Int /\ x = DayMinutes * (x \div DayMinutes) + (x % DayMinutes)
    BY <1>2, Sizes, DivMod
  <2> HIDE DEF r, q
  <2> QED
    BY <1>2, <2>1
<1>7. now = DayMinutes * q + (now % DayMinutes) /\ now % DayMinutes \in 0 .. DayMinutes - 1
  BY Sizes, DivMod
<1> HIDE DEF r, q
<1>8. x - DayMinutes <= now /\ now < x + DayMinutes
  BY <1>2, <1>6, <1>7, Sizes
<1>9. /\ Passed(x, x - DayMinutes, now) \in Int
      /\ Around(c, Passed(x, x - DayMinutes, now), now,
                Passed(x, x - DayMinutes, now) + DayMinutes)
  BY <1>2, <1>5, <1>8, Sizes, PeriodAround
<1> QED
  BY <1>3, <1>4, <1>9

\* So many days back it was that weekday.
LEMMA WeekdayBack ==
    ASSUME NEW q \in Int, NEW w \in 0 .. WeekDays - 1
    PROVE  LET u == ((q % WeekDays) - w) % WeekDays
           IN  u \in 0 .. WeekDays - 1 /\ (q - u) % WeekDays = w
<1> DEFINE v == (q % WeekDays) - w
           u == v % WeekDays
           a == v \div WeekDays
           b == q \div WeekDays
           x == q - u
<1>1. q % WeekDays \in 0 .. WeekDays - 1 /\ q = WeekDays * b + (q % WeekDays) /\ b \in Int
  BY Sizes, DivMod
<1>2. v \in Int /\ u \in 0 .. WeekDays - 1 /\ v = WeekDays * a + u /\ a \in Int
  <2>1. v \in Int
    BY <1>1
  <2> HIDE DEF v
  <2> QED
    BY <2>1, Sizes, DivMod
<1>3. q % WeekDays = v + w /\ x \in Int /\ x = q - u
  BY <1>1, <1>2
<1> HIDE DEF v, u, a, b, x
<1>4. x = WeekDays * (b + a) + w
  BY <1>1, <1>2, <1>3, Sizes
<1>5. x % WeekDays = w
  <2> DEFINE k == b + a
  <2>1. k \in Int /\ x = WeekDays * k + w
    BY <1>1, <1>2, <1>4
  <2> HIDE DEF k
  <2> QED
    BY <1>3, <2>1, Sizes, DivModUnique
<1> QED
  BY <1>2, <1>5 DEF v, u, x

\* A weekly cadence comes round at its time of the week.
LEMMA WeeklyRight ==
    ASSUME NEW now \in Int, NEW c \in Cadences, c.frequency = "weekly"
    PROVE  /\ LatestOccurrence(c, now) \in Int
           /\ Around(c, LatestOccurrence(c, now), now, NextOccurrence(c, now))
<1> DEFINE d == Instant([Fields(now) EXCEPT !.hour = c.hour, !.minute = c.minute])
           r == Minutes * c.hour + c.minute
           q == now \div DayMinutes
           u == ((q % WeekDays) - c.weekday) % WeekDays
           x == d - DayMinutes * u
           k == DayMinutes * WeekDays
<1>1. /\ c.hour \in 0 .. Hours - 1 /\ c.minute \in 0 .. Minutes - 1
      /\ c.weekday \in 0 .. WeekDays - 1
  BY DEF Cadences
<1>2. d \in Int /\ d \div DayMinutes = q /\ d % DayMinutes = r /\ r \in 0 .. DayMinutes - 1
  BY <1>1, ThatDayAt
<1>3. LatestOccurrence(c, now) = Passed(x, x - k, now)
  <2>1. Weekday(d) = q % WeekDays
    BY <1>2 DEF Weekday
  <2> QED
    BY <2>1 DEF LatestOccurrence
<1>4. NextOccurrence(c, now) = Passed(x, x - k, now) + k
  BY <1>3 DEF NextOccurrence
<1>5. d = DayMinutes * q + r /\ q \in Int
  <2> HIDE DEF d
  <2>1. d \div DayMinutes \in Int /\ d = DayMinutes * (d \div DayMinutes) + (d % DayMinutes)
    BY <1>2, Sizes, DivMod
  <2> HIDE DEF r, q
  <2> QED
    BY <1>2, <2>1
<1>6. now = DayMinutes * q + (now % DayMinutes) /\ now % DayMinutes \in 0 .. DayMinutes - 1
  BY Sizes, DivMod
<1>7. u \in 0 .. WeekDays - 1 /\ (q - u) % WeekDays = c.weekday
  BY <1>1, <1>5, WeekdayBack
<1> HIDE DEF d, r, u, q
<1>8. x \in Int /\ x = DayMinutes * (q - u) + r
  <2> DEFINE v == u
  <2>1. v \in Int
    BY <1>7
  <2>2. DayMinutes * (q - v) = DayMinutes * q - DayMinutes * v
    <3> HIDE DEF v
    <3> QED
      BY <1>5, <2>1, Sizes
  <2>3. DayMinutes * v \in Int /\ DayMinutes * q \in Int
    <3> HIDE DEF v
    <3> QED
      BY <1>5, <2>1, Sizes
  <2> QED
    BY <1>2, <1>5, <2>2, <2>3
<1>9. x \div DayMinutes = q - u /\ x % DayMinutes = r
  <2> DEFINE v == q - u
  <2>1. v \in Int /\ x = DayMinutes * v + r
    BY <1>5, <1>7, <1>8
  <2>3. x \in Int /\ r \in 0 .. DayMinutes - 1
    BY <1>2, <1>8
  <2> HIDE DEF v, x
  <2>2. x \div DayMinutes = v /\ x % DayMinutes = r
    BY <2>1, <2>3, Sizes, DivModUnique
  <2> QED
    BY <2>2 DEF v
<1>10. /\ k \in Nat \ {0}
       /\ \A t \in Int :
             t % k = DayMinutes * ((t \div DayMinutes) % WeekDays) + (t % DayMinutes)
  BY Sizes, Nested
<1>11. x % k = DayMinutes * c.weekday + r
  <2> HIDE DEF x, k
  <2>1. x % k = DayMinutes * ((x \div DayMinutes) % WeekDays) + (x % DayMinutes)
    BY <1>8, <1>10
  <2> QED
    BY <1>7, <1>9, <2>1
<1>12. ASSUME NEW t \in Int
       PROVE  Occurs(c, t) <=> t % k = x % k
  <2> DEFINE ww == (t \div DayMinutes) % WeekDays
             rr == t % DayMinutes
  <2>1. t \div DayMinutes \in Int /\ rr \in 0 .. DayMinutes - 1
    BY Sizes, DivMod
  <2>2. ww \in 0 .. WeekDays - 1
    BY <2>1, Sizes, DivMod
  <2>3. Occurs(c, t) <=> rr = r /\ ww = c.weekday
    BY <1>1, TimeOfDay DEF Occurs, Weekday, r
  <2>4. t % k = DayMinutes * ww + rr
    BY <1>10
  <2> HIDE DEF ww, rr, k, x
  <2>5. ASSUME DayMinutes * ww + rr = DayMinutes * c.weekday + r PROVE rr = r /\ ww = c.weekday
    <3>1. ww \in Int /\ c.weekday \in Int
      BY <1>1, <2>2, Sizes
    <3>2. r \in 0 .. DayMinutes - 1 /\ rr \in 0 .. DayMinutes - 1 /\ DayMinutes \in Nat \ {0}
      BY <1>2, <2>1, Sizes
    <3> QED
      BY <2>5, <3>1, <3>2, Digits
  <2> QED
    BY <1>11, <2>3, <2>4, <2>5
<1>13. x - k <= now /\ now < x + k
  <2> DEFINE a == DayMinutes * q
             b == DayMinutes * u
  <2>1. a \in Int /\ b \in Nat /\ DayMinutes * (q - u) = a - b
    BY <1>5, <1>7, Sizes
  <2>2. b + DayMinutes <= k /\ k \in Nat
    BY <1>7, <1>10, Sizes, Monotone
  <2>3. now = a + (now % DayMinutes) /\ x = (a - b) + r
    BY <1>6, <1>8, <2>1
  <2> HIDE DEF a, b, k, x
  <2> QED
    BY <1>2, <1>6, <2>1, <2>2, <2>3, Sizes
<1> HIDE DEF x, k
<1>14. /\ Passed(x, x - k, now) \in Int
       /\ Around(c, Passed(x, x - k, now), now, Passed(x, x - k, now) + k)
  BY <1>8, <1>10, <1>12, <1>13, PeriodAround
<1> QED
  BY <1>3, <1>4, <1>14

\* The fields of a monthly cadence's moment, in this month.
At(c, y, m) == [year |-> y, month |-> m, day |-> c.day, hour |-> c.hour, minute |-> c.minute]

\* An earlier month.
Earlier(f, g) == f.year < g.year \/ (f.year = g.year /\ f.month < g.month)

\* Every month has that day.
LEMMA AtReal ==
    ASSUME NEW c \in Cadences, c.frequency = "monthly", NEW y \in Int, NEW m \in Months
    PROVE  Real(At(c, y, m))
<1>1. /\ c.hour \in 0 .. Hours - 1 /\ c.minute \in 0 .. Minutes - 1 /\ c.day \in 1 .. LastDay
  BY DEF Cadences
<1>2. /\ DaysBefore[m] \in Nat /\ DaysBefore[m + 1] \in Nat
      /\ DaysBefore[m] + LastDay <= DaysBefore[m + 1] /\ LastDay \in Nat
  BY MonthSizes, Sizes
<1> QED
  BY <1>1, <1>2 DEF Real, At

\* Of two months' moments the earlier month's is before.
LEMMA MonthsInOrder ==
    ASSUME NEW f, NEW g, Real(f), Real(g), Earlier(f, g)
    PROVE  Instant(f) < Instant(g)
<1>1. /\ f.year \in Int /\ f.month \in Months /\ f.day \in Nat \ {0}
      /\ g.year \in Int /\ g.month \in Months /\ g.day \in Nat \ {0}
      /\ DaysBefore[f.month] + f.day <= DaysBefore[f.month + 1]
  BY DEF Real
<1>2. /\ DaysBefore[f.month] \in Nat /\ DaysBefore[f.month + 1] \in Nat
      /\ DaysBefore[f.month + 1] <= YearDays /\ YearDays \in Nat
      /\ DaysBefore[g.month] \in Nat
  BY <1>1, MonthSizes
<1>3. DayNumber(f) < DayNumber(g)
  <2> DEFINE a == f.year * YearDays
             b == g.year * YearDays
  <2>1. a \in Int /\ b \in Int
    BY <1>1, <1>2
  <2>2. DayNumber(f) = a + DaysBefore[f.month] + f.day - 1
    BY DEF DayNumber
  <2>3. DayNumber(g) = b + DaysBefore[g.month] + g.day - 1
    BY DEF DayNumber
  <2>4. CASE f.year < g.year
    <3>1. a = YearDays * f.year /\ b = YearDays * g.year
      BY <1>1, <1>2
    <3>2. YearDays * f.year + YearDays <= YearDays * g.year
      BY <1>1, <1>2, <2>4, Monotone
    <3> HIDE DEF a, b
    <3> QED
      BY <1>1, <1>2, <2>1, <2>2, <2>3, <3>1, <3>2
  <2>5. CASE f.year = g.year /\ f.month < g.month
    <3>1. a = b
      BY <2>5
    <3>2. DaysBefore[f.month + 1] <= DaysBefore[g.month]
      BY <1>1, <2>5, MonthSizes
    <3> HIDE DEF a, b
    <3> QED
      BY <1>1, <1>2, <2>1, <2>2, <2>3, <3>1, <3>2
  <2> QED
    BY <2>4, <2>5 DEF Earlier
<1>4. /\ DayNumber(f) \in Int /\ DayNumber(g) \in Int
      /\ DayMinutes * DayNumber(f) + DayMinutes <= DayMinutes * DayNumber(g)
  BY <1>3, DayNumberIs, Sizes, Monotone
<1> DEFINE a == DayMinutes * DayNumber(f)
           b == DayMinutes * DayNumber(g)
           r == Minutes * f.hour + f.minute
           s == Minutes * g.hour + g.minute
<1>5. /\ Instant(f) = a + r /\ Instant(g) = b + s
      /\ r \in 0 .. DayMinutes - 1 /\ s \in 0 .. DayMinutes - 1
  BY InstantOf
<1>6. a \in Int /\ b \in Int /\ a + DayMinutes <= b /\ DayMinutes \in Nat
  BY <1>4, Sizes
<1> HIDE DEF a, b, r, s
<1> QED
  BY <1>5, <1>6

\* A year has a last month.
LEMMA LastMonth ==
    \E last \in Nat \ {0} : Months = 1 .. last /\ Len(DaysBefore) = last + 1
<1>1. /\ Months = 1 .. (Len(DaysBefore) - 1) /\ Len(DaysBefore) - 1 \in Nat \ {0}
      /\ Len(DaysBefore) \in Nat
  BY MonthSizes, CalendarAssumption DEF Months
<1>2. Len(DaysBefore) = (Len(DaysBefore) - 1) + 1
  BY <1>1
<1> QED
  BY <1>1, <1>2

\* MonthAfter is the next month, and no month is between.
LEMMA MonthThen ==
    ASSUME NEW c \in Cadences, c.frequency = "monthly", NEW y \in Int, NEW m \in Months
    PROVE  \E z \in Int, n \in Months :
              /\ MonthAfter(At(c, y, m)) = At(c, z, n)
              /\ Earlier(At(c, y, m), At(c, z, n))
              /\ \A x \in Int, l \in Months :
                    \/ Earlier(At(c, x, l), At(c, y, m)) \/ Earlier(At(c, z, n), At(c, x, l))
                    \/ At(c, x, l) \in {At(c, y, m), At(c, z, n)}
<1>1. PICK last \in Nat \ {0} : Months = 1 .. last /\ Len(DaysBefore) = last + 1
  BY LastMonth
<1>2. CASE m < last
  <2>1. m + 1 \in Months /\ m + 1 < Len(DaysBefore)
    BY <1>1, <1>2
  <2>2. MonthAfter(At(c, y, m)) = At(c, y, m + 1)
    BY <2>1 DEF MonthAfter, At
  <2>3. Earlier(At(c, y, m), At(c, y, m + 1))
    BY <1>1 DEF Earlier, At
  <2>4. \A x \in Int, l \in Months :
           \/ Earlier(At(c, x, l), At(c, y, m)) \/ Earlier(At(c, y, m + 1), At(c, x, l))
           \/ (x = y /\ l \in {m, m + 1})
    BY <1>1 DEF Earlier, At
  <2> QED
    BY <2>1, <2>2, <2>3, <2>4
<1>3. CASE m = last
  <2>1. 1 \in Months /\ ~ (m + 1 < Len(DaysBefore))
    BY <1>1, <1>3
  <2>2. MonthAfter(At(c, y, m)) = At(c, y + 1, 1)
    BY <2>1 DEF MonthAfter, At
  <2>3. Earlier(At(c, y, m), At(c, y + 1, 1))
    BY DEF Earlier, At
  <2>4. \A x \in Int, l \in Months :
           \/ Earlier(At(c, x, l), At(c, y, m)) \/ Earlier(At(c, y + 1, 1), At(c, x, l))
           \/ (x = y /\ l = m) \/ (x = y + 1 /\ l = 1)
    BY <1>1, <1>3 DEF Earlier, At
  <2> QED
    BY <2>1, <2>2, <2>3, <2>4
<1> QED
  BY <1>1, <1>2, <1>3

\* MonthBefore is the month that MonthAfter follows.
LEMMA MonthAgo ==
    ASSUME NEW c \in Cadences, c.frequency = "monthly", NEW y \in Int, NEW m \in Months
    PROVE  \E z \in Int, n \in Months :
              /\ MonthBefore(At(c, y, m)) = At(c, z, n)
              /\ MonthAfter(At(c, z, n)) = At(c, y, m)
              /\ Earlier(At(c, z, n), At(c, y, m))
<1>1. PICK last \in Nat \ {0} : Months = 1 .. last /\ Len(DaysBefore) = last + 1
  BY LastMonth
<1>2. CASE m > 1
  <2>1. m - 1 \in Months /\ (m - 1) + 1 = m /\ (m - 1) + 1 < Len(DaysBefore)
    BY <1>1, <1>2
  <2>2. MonthBefore(At(c, y, m)) = At(c, y, m - 1)
    BY <1>2 DEF MonthBefore, At
  <2>3. MonthAfter(At(c, y, m - 1)) = At(c, y, m)
    BY <2>1 DEF MonthAfter, At
  <2>4. Earlier(At(c, y, m - 1), At(c, y, m))
    BY <1>1 DEF Earlier, At
  <2> QED
    BY <2>1, <2>2, <2>3, <2>4
<1>3. CASE m = 1
  <2>1. last \in Months /\ ~ (last + 1 < Len(DaysBefore)) /\ (y - 1) + 1 = y
        /\ last = Len(DaysBefore) - 1 /\ y - 1 \in Int
    BY <1>1
  <2>2. MonthBefore(At(c, y, m)) = At(c, y - 1, last)
    <3>1. At(c, y, m) \in [year : {y}, month : {m}, day : {c.day}, hour : {c.hour},
                           minute : {c.minute}]
      BY DEF At
    <3>2. [At(c, y, m) EXCEPT !.year = @ - 1, !.month = Len(DaysBefore) - 1]
            \in [year : {y - 1}, month : {last}, day : {c.day}, hour : {c.hour},
                 minute : {c.minute}]
      BY <2>1, <3>1
    <3>3. MonthBefore(At(c, y, m))
            = [At(c, y, m) EXCEPT !.year = @ - 1, !.month = Len(DaysBefore) - 1]
      BY <1>3, <3>1 DEF MonthBefore
    <3> QED
      BY <3>2, <3>3 DEF At
  <2>3. MonthAfter(At(c, y - 1, last)) = At(c, y, m)
    BY <1>3, <2>1 DEF MonthAfter, At
  <2>4. Earlier(At(c, y - 1, last), At(c, y, m))
    BY DEF Earlier, At
  <2> QED
    BY <2>1, <2>2, <2>3, <2>4
<1> QED
  BY <1>1, <1>2, <1>3

\* A monthly cadence comes round at its day and time of every month, across years.
LEMMA MonthlyRight ==
    ASSUME NEW now \in Int, NEW c \in Cadences, c.frequency = "monthly"
    PROVE  /\ LatestOccurrence(c, now) \in Int
           /\ Around(c, LatestOccurrence(c, now), now, NextOccurrence(c, now))
<1> DEFINE f == Fields(now)
           y == f.year
           m == f.month
           g == At(c, y, m)
           before == MonthBefore(g)
           from == IF Instant(g) <= now THEN g ELSE before
           to == MonthAfter(from)
<1>1. /\ y \in Int /\ m \in Months /\ Real(f) /\ Instant(f) = now
      /\ Real(g) /\ Instant(g) \in Int
  BY FieldsOf, InstantOfFields, AtReal, InstantOf DEF Real
<1>2. g = [[f EXCEPT !.hour = c.hour, !.minute = c.minute] EXCEPT !.day = c.day]
  <2>1. f \in [year : {y}, month : {m}, day : {f.day}, hour : {f.hour}, minute : {f.minute}]
    BY <1>1 DEF Real
  <2> HIDE DEF f, y, m
  <2>2. [f EXCEPT !.hour = c.hour, !.minute = c.minute]
          \in [year : {y}, month : {m}, day : {f.day}, hour : {c.hour}, minute : {c.minute}]
    BY <2>1
  <2>3. [[f EXCEPT !.hour = c.hour, !.minute = c.minute] EXCEPT !.day = c.day]
          \in [year : {y}, month : {m}, day : {c.day}, hour : {c.hour}, minute : {c.minute}]
    BY <2>2
  <2>4. \A e \in [year : {y}, month : {m}, day : {c.day}, hour : {c.hour}, minute : {c.minute}] :
           e = At(c, y, m)
    BY DEF At
  <2>5. g = At(c, y, m)
    OBVIOUS
  <2> HIDE DEF g
  <2> QED
    BY <2>3, <2>4, <2>5
<1>3. LatestOccurrence(c, now) = Instant(from)
  <2>1. LatestOccurrence(c, now) = Passed(Instant(g), Instant(before), now)
    <3> HIDE DEF g
    <3> QED
      BY <1>2 DEF LatestOccurrence, f
  <2> QED
    BY <2>1 DEF Passed
<1> HIDE DEF f
<1>4. PICK z \in Int, n \in Months :
         before = At(c, z, n) /\ MonthAfter(At(c, z, n)) = g /\ Earlier(At(c, z, n), g)
  BY <1>1, MonthAgo
<1>5. \E u \in Int, l \in Months : from = At(c, u, l)
  <2>1. CASE Instant(g) <= now
    BY <1>1, <2>1
  <2>2. CASE ~ (Instant(g) <= now)
    BY <1>4, <2>2
  <2> QED
    BY <2>1, <2>2
<1>6. PICK u \in Int, l \in Months : from = At(c, u, l)
  BY <1>5
<1>7. PICK v \in Int, k \in Months :
         /\ to = At(c, v, k) /\ Earlier(from, to)
         /\ \A x \in Int, i \in Months :
               \/ Earlier(At(c, x, i), from) \/ Earlier(to, At(c, x, i))
               \/ At(c, x, i) \in {from, to}
  BY <1>6, MonthThen
<1>8. Real(from) /\ Real(to) /\ Instant(from) \in Int /\ Instant(to) \in Int
  BY <1>6, <1>7, AtReal, InstantOf
<1>9. NextOccurrence(c, now) = Instant(to)
  BY <1>3, <1>8, FieldsOfInstant DEF NextOccurrence
<1>10. Instant(from) <= now
  <2>1. CASE Instant(g) <= now
    BY <2>1
  <2>2. CASE ~ (Instant(g) <= now)
    <3>1. from = before /\ Earlier(from, f)
      BY <1>4, <2>2 DEF Earlier, At
    <3>2. Instant(from) < Instant(f)
      BY <1>1, <1>8, <3>1, MonthsInOrder
    <3> QED
      BY <1>1, <1>8, <3>2
  <2> QED
    BY <2>1, <2>2
<1>11. now < Instant(to)
  <2>1. CASE Instant(g) <= now
    <3>1. from = g /\ Earlier(f, to)
      BY <1>7, <2>1 DEF Earlier, At
    <3> QED
      BY <1>1, <1>8, <3>1, MonthsInOrder
  <2>2. CASE ~ (Instant(g) <= now)
    <3>1. to = g
      BY <1>4, <2>2
    <3> QED
      BY <1>1, <2>2, <3>1
  <2> QED
    BY <2>1, <2>2
<1> HIDE DEF from, to
<1>12. ASSUME NEW t \in Int
       PROVE  Occurs(c, t) <=> Fields(t) = At(c, Fields(t).year, Fields(t).month)
  <2>1. Fields(t) = [year |-> Fields(t).year, month |-> Fields(t).month, day |-> Fields(t).day,
                     hour |-> Fields(t).hour, minute |-> Fields(t).minute]
    BY FieldsOf DEF Real
  <2>2. Occurs(c, t) <=> /\ Fields(t).minute = c.minute /\ Fields(t).hour = c.hour
                         /\ Fields(t).day = c.day
    BY DEF Occurs
  <2> QED
    BY <2>1, <2>2 DEF At
<1>13. ASSUME NEW t \in Instant(from) .. Instant(to), Occurs(c, t)
       PROVE  t \in {Instant(from), Instant(to)}
  <2> DEFINE e == Fields(t)
  <2>0. t \in Int
    BY <1>8
  <2>1. /\ e = At(c, e.year, e.month) /\ e.year \in Int /\ e.month \in Months
        /\ Real(e) /\ Instant(e) = t
    BY <1>12, <1>13, <2>0, FieldsOf, InstantOfFields DEF Real
  <2> HIDE DEF e
  <2>2. ~ Earlier(e, from)
    BY <1>8, <2>0, <2>1, MonthsInOrder
  <2>3. ~ Earlier(to, e)
    BY <1>8, <2>0, <2>1, MonthsInOrder
  <2>4. e \in {from, to}
    BY <1>7, <2>1, <2>2, <2>3
  <2> QED
    BY <2>1, <2>4
<1>14. Occurs(c, Instant(from)) /\ Occurs(c, Instant(to))
  <2>1. Fields(Instant(from)) = At(c, u, l) /\ Fields(Instant(to)) = At(c, v, k)
    BY <1>6, <1>7, <1>8, FieldsOfInstant
  <2> QED
    BY <2>1 DEF Occurs, At
<1> QED
  BY <1>3, <1>8, <1>9, <1>10, <1>11, <1>13, <1>14 DEF Around

\* latest_occurrence is the last moment the cadence names at or before now, and
\* next_occurrence the first after it, for every calendar, cadence and instant
\* (cadence.py:77, cadence.py:98).
THEOREM CalendarRight ==
    \A t \in Int : \A c \in Cadences :
        /\ LatestOccurrence(c, t) \in Int
        /\ Around(c, LatestOccurrence(c, t), t, NextOccurrence(c, t))
<1>1. \A c \in Cadences : c.frequency \in {"hourly", "daily", "weekly", "monthly"}
  BY DEF Cadences
<1> QED
  BY <1>1, HourlyRight, DailyRight, WeeklyRight, MonthlyRight

\* So the schedule's clock never meets one that is wrong.
THEOREM OccurrencesAlwaysRight == clock \in Instants => OccurrencesRight
<1> SUFFICES ASSUME clock \in Instants, NEW day \in 0 .. CycleDays
             PROVE  Right[clock + day * DayMinutes]
  BY DEF OccurrencesRight
<1> DEFINE t == clock + day * DayMinutes
<1>1. DayMinutes \in Nat /\ CycleDays \in Nat /\ Start \in Nat /\ End \in Nat
  BY Sizes, MonthSizes, BoundsAssumption DEF CycleDays
<1>2. day \in Nat /\ day * DayMinutes <= CycleDays * DayMinutes /\ day * DayMinutes \in Nat
      /\ CycleDays * DayMinutes \in Nat
  <2>1. day \in Nat /\ day <= CycleDays
    BY <1>1
  <2>2. CycleDays - day \in Nat /\ (CycleDays - day) * DayMinutes \in Nat
    BY <1>1, <2>1
  <2>3. CycleDays * DayMinutes = day * DayMinutes + (CycleDays - day) * DayMinutes
    BY <1>1, <2>1
  <2>4. day * DayMinutes \in Nat /\ CycleDays * DayMinutes \in Nat
    BY <1>1, <2>1
  <2> QED
    BY <2>1, <2>2, <2>3, <2>4
<1>3. t \in Start .. End + CycleDays * DayMinutes /\ t \in Int
  <2> DEFINE a == day * DayMinutes
             b == CycleDays * DayMinutes
  <2>1. a \in Nat /\ b \in Nat /\ a <= b
    BY <1>2
  <2> HIDE DEF a, b
  <2>2. clock + a \in Start .. End + b /\ clock + a \in Int
    BY <1>1, <2>1 DEF Instants
  <2> QED
    BY <2>2 DEF a, b
<1> HIDE DEF t
<1>4. Right[t] = \A c \in Cadences : Around(c, LatestOccurrence(c, t), t, NextOccurrence(c, t))
  BY <1>3 DEF Right
<1> QED
  BY <1>3, <1>4, CalendarRight DEF t

-----------------------------------------------------------------------------
(* What a prune leaves.                                                    *)

\* The ways to put a set's members in order.
Order(n, S) == {f \in [1 .. n -> S] : \A j, k \in 1 .. n : j < k => f[j] < f[k]}

\* The places in a sequence are finitely many.
LEMMA Places ==
    ASSUME NEW n \in Nat, NEW S \in SUBSET (1 .. n)
    PROVE  IsFiniteSet(S) /\ Cardinality(S) \in 0 .. n
<1>1. IsFiniteSet(1 .. n) /\ Cardinality(1 .. n) = n
  BY FS_Interval
<1>2. IsFiniteSet(S) /\ Cardinality(S) <= n
  BY <1>1, FS_Subset
<1>3. Cardinality(S) \in Nat
  BY <1>2, FS_CardinalityType
<1> QED
  BY <1>2, <1>3

\* They can be put in order: Kept's choice exists.
LEMMA InOrder ==
    \A n \in Nat : \A S \in SUBSET (1 .. n) : Order(Cardinality(S), S) # {}
<1> DEFINE T == {n \in Nat : \E S \in SUBSET (1 .. n) : Order(Cardinality(S), S) = {}}
<1> SUFFICES ASSUME T # {} PROVE FALSE
  OBVIOUS
<1>1. PICK n \in T : \A k \in T : n <= k
  BY LeastNatural
<1>2. PICK S \in SUBSET (1 .. n) : Order(Cardinality(S), S) = {}
  BY <1>1
<1>3. n \in Nat /\ n - 1 \notin T
  BY <1>1
<1> HIDE DEF T
<1>4. IsFiniteSet(S) /\ Cardinality(S) \in Nat
  BY <1>3, Places
<1>5. CASE n = 0
  <2>1. S = {} /\ Cardinality(S) = 0
    <3>1. S = {}
      BY <1>5
    <3> QED
      BY <3>1, FS_EmptySet
  <2>2. [k \in 1 .. 0 |-> 0] \in Order(0, {})
    BY DEF Order
  <2> QED
    BY <1>2, <2>1, <2>2
<1>6. CASE n # 0
  <2> DEFINE R == S \ {n}
             c == Cardinality(R)
  <2>1. n - 1 \in Nat /\ R \in SUBSET (1 .. (n - 1))
    BY <1>3, <1>6
  <2>2. Order(c, R) # {}
    BY <1>3, <2>1 DEF T
  <2>3. n \in S
    <3>1. ASSUME n \notin S PROVE FALSE
      <4>1. R = S
        BY <3>1
      <4> QED
        BY <1>2, <2>2, <4>1
    <3> QED
      BY <3>1
  <2>4. c \in Nat /\ Cardinality(S) = c + 1
    BY <1>4, <2>1, <2>3, Places, FS_RemoveElement
  <2>5. PICK f \in [1 .. c -> R] : \A j, k \in 1 .. c : j < k => f[j] < f[k]
    BY <2>2 DEF Order
  <2> HIDE DEF c
  <2> DEFINE g == [k \in 1 .. (c + 1) |-> IF k = c + 1 THEN n ELSE f[k]]
  <2>6. g \in [1 .. (c + 1) -> S]
    BY <2>3, <2>4, <2>5
  <2>7. ASSUME NEW j \in 1 .. (c + 1), NEW k \in 1 .. (c + 1), j < k PROVE g[j] < g[k]
    <3>1. j \in 1 .. c /\ g[j] = f[j] /\ f[j] \in 1 .. (n - 1)
      BY <2>1, <2>4, <2>5, <2>7
    <3>2. CASE k = c + 1
      BY <1>3, <3>1, <3>2
    <3>3. CASE k # c + 1
      BY <2>4, <2>5, <2>7, <3>1, <3>3
    <3> QED
      BY <3>2, <3>3
  <2> HIDE DEF g
  <2>8. g \in Order(c + 1, S)
    BY <2>6, <2>7 DEF Order
  <2> QED
    BY <1>2, <2>4, <2>8
<1> QED
  BY <1>5, <1>6

\* A run that holds one of the places Create counts.
Held(run) == run.status \in {"queued", "running"} \/ run.job # "none"

\* A prune keeps the runs at its places, and of those that count no more than
\* there were.
LEMMA KeptRuns ==
    ASSUME runs \in Seq(Run), NEW places \in SUBSET DOMAIN runs
    PROVE  /\ Kept(places) \in Seq(Run)
           /\ Len(Kept(places)) = Cardinality(places)
           /\ Cardinality({k \in DOMAIN Kept(places) : Held(Kept(places)[k])})
                <= Cardinality({i \in DOMAIN runs : Held(runs[i])})
<1> DEFINE n == Cardinality(places)
           order == CHOOSE f \in [1 .. n -> places] : \A j, k \in DOMAIN f : j < k => f[j] < f[k]
           kept == [k \in DOMAIN order |-> runs[order[k]]]
           H == {i \in DOMAIN runs : Held(runs[i])}
           HK == {k \in 1 .. n : Held(kept[k])}
<1>1. DOMAIN runs = 1 .. Len(runs) /\ Len(runs) \in Nat /\ runs \in [1 .. Len(runs) -> Run]
  OBVIOUS
<1>2. n \in Nat
  BY <1>1, Places
<1>3. Order(n, places) # {}
  BY <1>1, InOrder
<1>4. PICK g : g \in Order(n, places)
  BY <1>3
<1>5. order \in [1 .. n -> places] /\ \A j, k \in 1 .. n : j < k => order[j] < order[k]
  <2>1. g \in [1 .. n -> places] /\ \A j, k \in DOMAIN g : j < k => g[j] < g[k]
    BY <1>4 DEF Order
  <2>2. order \in [1 .. n -> places] /\ \A j, k \in DOMAIN order : j < k => order[j] < order[k]
    BY <2>1
  <2> QED
    BY <2>2
<1>6. Kept(places) = kept
  BY DEF Kept
<1> HIDE DEF n, order
<1>7. kept \in Seq(Run) /\ Len(kept) = n /\ DOMAIN kept = 1 .. n
      /\ \A k \in 1 .. n : kept[k] = runs[order[k]]
  <2>1. kept \in [1 .. n -> Run]
    BY <1>1, <1>5
  <2>2. kept \in Seq(Run) /\ Len(kept) = n
    <3> HIDE DEF kept
    <3> QED
      BY <1>2, <2>1, IsASeq, LenProperties
  <2> QED
    BY <1>5, <2>2
<1> HIDE DEF kept
<1>8. Cardinality(HK) <= Cardinality(H)
  <2> DEFINE m == [k \in HK |-> order[k]]
  <2>1. m \in [HK -> H]
    BY <1>1, <1>5, <1>7
  <2>2. ASSUME NEW j \in HK, NEW k \in HK, m[j] = m[k] PROVE j = k
    <3>1. j \in 1 .. n /\ k \in 1 .. n /\ order[j] = order[k]
      BY <2>2
    <3>2. order[j] \in Nat /\ order[k] \in Nat
      BY <1>1, <1>5, <3>1
    <3> QED
      BY <1>2, <1>5, <3>1, <3>2
  <2>3. m \in Injection(HK, H)
    <3> HIDE DEF m, HK, H
    <3> QED
      BY <2>1, <2>2, Fun_IsInj
  <2>4. IsFiniteSet(H)
    BY <1>1, Places
  <2> HIDE DEF m, HK, H
  <2> QED
    BY <2>3, <2>4, FS_Injection
<1> QED
  BY <1>6, <1>7, <1>8 DEF n

\* What a prune keeps of the ended runs.
LEMMA KeepNoMore ==
    ASSUME runs \in Seq(Run),
           NEW S \in SUBSET {i \in DOMAIN runs : ~Active(i) /\ ~PastCount(i)}
    PROVE  Cardinality(S) <= Keep
<1>1. DOMAIN runs = 1 .. Len(runs) /\ Len(runs) \in Nat /\ Keep \in Nat
  BY BoundsAssumption
<1>2. CASE S = {}
  BY <1>1, <1>2, FS_EmptySet
<1>3. CASE S # {}
  <2>1. S \in SUBSET (1 .. Len(runs)) /\ S \in SUBSET Nat
    BY <1>1
  <2>2. PICK i \in S : \A k \in S : i <= k
    BY <1>3, <2>1, LeastNatural
  <2> DEFINE newer == {j \in (i + 1) .. Len(runs) : ~Active(j)}
  <2>3. newer \in SUBSET (1 .. Len(runs)) /\ S \ {i} \in SUBSET newer
    BY <1>1, <2>1, <2>2
  <2>4. ~ (Keep <= Cardinality(newer))
    BY <2>2 DEF PastCount
  <2> HIDE DEF newer
  <2>5. /\ IsFiniteSet(S) /\ IsFiniteSet(newer) /\ Cardinality(newer) \in Nat
        /\ Cardinality(S) \in Nat
    BY <1>1, <2>1, <2>3, Places
  <2>6. Cardinality(S \ {i}) = Cardinality(S) - 1
    BY <2>2, <2>5, FS_RemoveElement
  <2>7. Cardinality(S \ {i}) <= Cardinality(newer)
    BY <2>3, <2>5, FS_Subset
  <2> QED
    BY <1>1, <2>4, <2>5, <2>6, <2>7
<1> QED
  BY <1>2, <1>3

\* Two sets of places are no more than their sizes together.
LEMMA Pieces ==
    ASSUME NEW n \in Nat, NEW S \in SUBSET (1 .. n), NEW T \in SUBSET (1 .. n)
    PROVE  Cardinality(S \cup T) <= Cardinality(S) + Cardinality(T)
<1>1. IsFiniteSet(S) /\ IsFiniteSet(T) /\ Cardinality(S) \in Nat /\ Cardinality(T) \in Nat
  BY Places
<1>2. S \cap T \in SUBSET (1 .. n)
  OBVIOUS
<1>3. Cardinality(S \cap T) \in Nat
  BY <1>2, Places
<1>4. Cardinality(S \cup T) = Cardinality(S) + Cardinality(T) - Cardinality(S \cap T)
  BY <1>1, FS_Union
<1> QED
  BY <1>1, <1>3, <1>4

-----------------------------------------------------------------------------
(* The inductive invariant.                                                *)

\* A run that holds a place, or the one the tick is about to queue: it may have
\* been canceled before that, and counts again.
Counted(i) ==
    \/ Held(runs[i])
    \/ kind = "script" /\ tick.step \in {"stamp", "enqueue"} /\ i = Len(runs)

\* The places that are taken.
Taken == {i \in DOMAIN runs : Counted(i)}

\* What bounds a script's runs: only Create adds one, when a place is free and
\* the runs are within the retention but for one left by each tick that died.
RunsInv ==
    /\ kind = "backup" => runs = <<>> /\ tick.step \notin {"inline", "prune"}
    /\ tick.step = "create" => Len(runs) <= Keep + MaxActive + crashes
    /\ Cardinality(Taken) <= MaxActive

\* What keeps an occurrence from being queued again: what is queued is no later
\* than the stamp, and what is due is after it; a backup is queued before it is
\* stamped.
DueInv ==
    /\ tick.step = "create" => lastRun < Occurrence
    /\ kind = "script" =>
          /\ fired <= lastRun
          /\ tick.step = "stamp" => lastRun < Occurrence
          /\ tick.step = "enqueue" => fired < Occurrence /\ lastRun = tick.at
    /\ kind = "backup" =>
          /\ crashes = 0 /\ tick.step # "stamp" => fired <= lastRun
          /\ tick.step = "enqueue" => lastRun < Occurrence
          /\ tick.step = "stamp" => fired = Occurrence

\* The inductive invariant.
IInv == TypeOK /\ RunsInv /\ DueInv

\* The bounds.
LEMMA Bounds ==
    {Start, End, Keep, MaxActive, MaxCrashes, MaxOutages} \subseteq Nat /\ Start <= End
BY BoundsAssumption

\* An occurrence the tick sees is not in the future.
LEMMA LatestBefore ==
    ASSUME NEW c \in Offered, NEW t \in Instants
    PROVE  Latest[c][t] \in Int /\ Latest[c][t] <= t
<1>1. t \in Int /\ c \in Cadences
  BY Bounds, OfferedAssumption DEF Instants
<1>2. Latest[c][t] = LatestOccurrence(c, t)
  BY DEF Latest
<1>3. LatestOccurrence(c, t) \in Int /\ Around(c, LatestOccurrence(c, t), t, NextOccurrence(c, t))
  BY <1>1, CalendarRight
<1> QED
  BY <1>2, <1>3 DEF Around

\* The same, of the occurrence a tick is at work on.
LEMMA OccurrenceBefore ==
    ASSUME TypeOK
    PROVE  /\ Occurrence \in Int /\ Occurrence <= tick.at /\ tick.at \in Int /\ tick.at <= clock
           /\ clock \in Int /\ lastRun \in Int /\ fired \in Int /\ Start \in Nat
<1>1. tick.at \in Instants /\ cadence \in Offered /\ tick.at <= clock /\ tick.at \in Int
  BY Bounds DEF TypeOK, Instants
<1>2. Occurrence \in Int /\ Occurrence <= tick.at
  BY <1>1, LatestBefore DEF Occurrence
<1> QED
  BY <1>1, <1>2, Bounds DEF TypeOK, Instants

\* A smaller set of places.
LEMMA Fewer ==
    ASSUME NEW n \in Nat, NEW S \in SUBSET (1 .. n), NEW T \in SUBSET S
    PROVE  Cardinality(T) <= Cardinality(S)
BY Places, FS_Subset

\* A step that changes runs one by one, and none to one that counts.
LEMMA TakenFewer ==
    ASSUME runs \in Seq(Run), runs' \in Seq(Run), Len(runs') = Len(runs),
           \A i \in DOMAIN runs : Counted(i)' => Counted(i),
           Cardinality(Taken) <= MaxActive
    PROVE  Cardinality(Taken') <= MaxActive
<1>1. DOMAIN runs = 1 .. Len(runs) /\ DOMAIN runs' = 1 .. Len(runs) /\ Len(runs) \in Nat
  OBVIOUS
<1>2. Taken \in SUBSET (1 .. Len(runs)) /\ Taken' \in SUBSET (1 .. Len(runs))
      /\ Taken' \in SUBSET Taken
  BY <1>1 DEF Taken
<1>3. Cardinality(Taken') <= Cardinality(Taken)
  BY <1>1, <1>2, Fewer
<1>4. Cardinality(Taken) \in Nat /\ Cardinality(Taken') \in Nat /\ MaxActive \in Nat
  BY <1>1, <1>2, Places, Bounds
<1> QED
  BY <1>3, <1>4

\* Giving the last run its job changes no other.
LEMMA Jobs ==
    ASSUME runs \in Seq(Run), NEW job \in {"none", "queued", "running"}, Job(job)
    PROVE  /\ runs' \in Seq(Run) /\ Len(runs') = Len(runs)
           /\ kind # "script" => runs' = runs
           /\ \A i \in DOMAIN runs : i # Len(runs) => runs'[i] = runs[i]
<1>1. CASE kind # "script"
  BY <1>1 DEF Job
<1>2. CASE kind = "script"
  <2>1. runs' = [runs EXCEPT ![Len(runs)].job = job]
    BY <1>2 DEF Job
  <2>2. runs \in [1 .. Len(runs) -> Run] /\ Len(runs) \in Nat
    OBVIOUS
  <2>3. runs' \in [1 .. Len(runs) -> Run]
    BY <2>1, <2>2 DEF Run
  <2>4. runs' \in Seq(Run) /\ Len(runs') = Len(runs)
    BY <2>2, <2>3, IsASeq, LenProperties
  <2>5. \A i \in DOMAIN runs : i # Len(runs) => runs'[i] = runs[i]
    BY <2>1, <2>2
  <2> QED
    BY <1>2, <2>4, <2>5
<1> QED
  BY <1>1, <1>2

\* A step of one run changes no other.
LEMMA Changed ==
    ASSUME runs \in Seq(Run), NEW i \in DOMAIN runs, NEW run \in Run,
           runs' = [runs EXCEPT ![i] = run]
    PROVE  /\ runs' \in Seq(Run) /\ Len(runs') = Len(runs)
           /\ runs'[i] = run /\ \A j \in DOMAIN runs : j # i => runs'[j] = runs[j]
<1>1. runs \in [1 .. Len(runs) -> Run] /\ Len(runs) \in Nat /\ DOMAIN runs = 1 .. Len(runs)
  OBVIOUS
<1>2. runs' \in [1 .. Len(runs) -> Run]
  BY <1>1
<1>3. runs' \in Seq(Run) /\ Len(runs') = Len(runs)
  BY <1>1, <1>2, IsASeq, LenProperties
<1> QED
  BY <1>1, <1>3

\* Where the tick goes.
LEMMA TickMoves ==
    ASSUME tick \in [step : Steps, at : Start .. clock], clock \in Instants,
           NEW step \in Steps
    PROVE  /\ To(step) => /\ tick' \in [step : Steps, at : Start .. clock]
                          /\ tick'.step = step /\ tick'.at = tick.at
           /\ tick' = [Idle EXCEPT !.step = step] =>
                 /\ tick' \in [step : Steps, at : Start .. clock]
                 /\ tick'.step = step
           /\ tick' = Idle => /\ tick' \in [step : Steps, at : Start .. clock]
                              /\ tick'.step = "idle"
<1>1. Start \in Start .. clock
  BY Bounds DEF Instants
<1> QED
  BY <1>1 DEF To, Idle, Steps

\* The invariant holds at the start ...
LEMMA InitIInv == Init => IInv
<1> SUFFICES ASSUME Init PROVE IInv
  OBVIOUS
<1>1. clock = Start /\ clock \in Instants /\ cadence \in Offered /\ lastRun = clock
  BY Bounds DEF Init, Instants
<1>2. fired \in Int /\ fired <= clock
  <2>1. fired = LatestOccurrence(cadence, clock) /\ cadence \in Cadences /\ clock \in Int
    BY <1>1, OfferedAssumption, Bounds DEF Init, Instants
  <2>2. /\ LatestOccurrence(cadence, clock) \in Int
        /\ Around(cadence, LatestOccurrence(cadence, clock), clock,
                  NextOccurrence(cadence, clock))
    BY <2>1, CalendarRight
  <2> QED
    BY <2>1, <2>2 DEF Around
<1>3. tick = Idle /\ tick \in [step : Steps, at : Start .. clock] /\ tick.step = "idle"
  BY <1>1, Bounds DEF Init, Idle, Steps
<1>4. runs = <<>> /\ runs \in Seq(Run) /\ Len(runs) = 0
  BY DEF Init
<1>5. TypeOK
  BY <1>1, <1>2, <1>3, <1>4, Bounds DEF Init, TypeOK
<1>6. Taken = {} /\ Cardinality({}) = 0
  BY <1>4, FS_EmptySet DEF Taken
<1>7. RunsInv
  BY <1>3, <1>4, <1>6, Bounds DEF RunsInv
<1>8. DueInv
  BY <1>1, <1>2, <1>3 DEF DueInv
<1> QED
  BY <1>5, <1>7, <1>8 DEF IInv

\* The steps of the tick, but for Prune.
LEMMA TickBeginsKeeps == ASSUME IInv, TickBegins PROVE IInv'
<1>1. TypeOK /\ RunsInv /\ DueInv
  BY DEF IInv
<1>2. /\ tick = Idle /\ tick.step = "idle" /\ runs' = runs /\ clock' = clock /\ kind' = kind
      /\ cadence' = cadence /\ lastRun' = lastRun /\ fired' = fired /\ crashes' = crashes
  BY DEF TickBegins, Idle, schedule
<1>3. \/ Due /\ tick' = [step |-> "create", at |-> clock]
      \/ kind = "script" /\ Pruning
  BY DEF TickBegins
<1>4. /\ tick' \in [step : Steps, at : Start .. clock] /\ tick'.step \in {"create", "prune"}
      /\ (tick'.step = "create" => Due /\ tick'.at = clock)
      /\ (tick'.step = "prune" => kind = "script")
  <2>1. clock \in Start .. clock
    BY <1>1, Bounds DEF TypeOK, Instants
  <2> QED
    BY <1>1, <1>3, <2>1, TickMoves DEF TypeOK, Pruning, Steps
<1>5. TypeOK'
  BY <1>1, <1>2, <1>4, Bounds DEF TypeOK, TickBegins, schedule
<1>6. RunsInv'
  <2>1. Cardinality(Taken') <= MaxActive
    BY <1>1, <1>2, <1>4, TakenFewer DEF TypeOK, RunsInv, Counted
  <2> QED
    BY <1>1, <1>2, <1>4, <2>1, Bounds DEF RunsInv, TypeOK
<1>7. DueInv'
  BY <1>1, <1>2, <1>4 DEF DueInv, Due, Occurrence, Latest
<1> QED
  BY <1>5, <1>6, <1>7 DEF IInv

\* create_run, create_backup.
LEMMA CreateKeeps == ASSUME IInv, Create PROVE IInv'
<1>1. TypeOK /\ RunsInv /\ DueInv
  BY DEF IInv
<1>2. /\ tick.step = "create" /\ clock' = clock /\ kind' = kind
      /\ cadence' = cadence /\ lastRun' = lastRun /\ fired' = fired /\ crashes' = crashes
  BY DEF Create, schedule
<1>3. CASE kind = "script"
  <2> DEFINE run == [status |-> "queued", job |-> "none"]
  <2>1. /\ Cardinality({i \in DOMAIN runs : Held(runs[i])}) < MaxActive
        /\ runs' = Append(runs, run) /\ To("stamp")
    BY <1>3 DEF Create, Active, Held
  <2>2. run \in Run /\ Held(run)
    BY DEF Run, Held
  <2>3. /\ runs' \in Seq(Run) /\ Len(runs') = Len(runs) + 1 /\ Len(runs) \in Nat
        /\ \A i \in 1 .. Len(runs) : runs'[i] = runs[i]
        /\ DOMAIN runs = 1 .. Len(runs) /\ DOMAIN runs' = 1 .. (Len(runs) + 1)
    <3> HIDE DEF run
    <3> QED
      BY <1>1, <2>1, <2>2, AppendProperties DEF TypeOK
  <2>4. /\ tick' \in [step : Steps, at : Start .. clock]
        /\ tick'.step = "stamp" /\ tick'.at = tick.at
    BY <1>1, <2>1, TickMoves DEF TypeOK, Steps
  <2>5. TypeOK'
    BY <1>1, <1>2, <2>3, <2>4, Bounds DEF TypeOK, RunsInv, Create, schedule, Idle
  <2>6. Cardinality(Taken') <= MaxActive
    <3> DEFINE S == {i \in DOMAIN runs : Held(runs[i])}
    <3>1. S \in SUBSET (1 .. Len(runs)) /\ Taken' \in SUBSET (1 .. (Len(runs) + 1))
          /\ Taken' \in SUBSET (S \cup {Len(runs) + 1})
      BY <2>3, <2>4 DEF Taken, Counted
    <3>2. IsFiniteSet(S) /\ Cardinality(S) \in Nat /\ Cardinality(Taken') \in Nat
      BY <2>3, <3>1, Places
    <3> HIDE DEF S
    <3>3. Cardinality(S \cup {Len(runs) + 1}) <= Cardinality(S) + 1
          /\ IsFiniteSet(S \cup {Len(runs) + 1})
      <4>1. /\ IsFiniteSet(S \cup {Len(runs) + 1})
            /\ Cardinality(S \cup {Len(runs) + 1})
                 = IF Len(runs) + 1 \in S THEN Cardinality(S) ELSE Cardinality(S) + 1
        BY <3>2, FS_AddElement
      <4> QED
        BY <3>2, <4>1
    <3>4. Cardinality(Taken') <= Cardinality(S \cup {Len(runs) + 1})
      BY <3>1, <3>3, FS_Subset
    <3>5. Cardinality(S \cup {Len(runs) + 1}) \in Nat
      BY <3>3, FS_CardinalityType
    <3> QED
      BY <2>1, <3>2, <3>3, <3>4, <3>5, Bounds DEF S
  <2>7. RunsInv'
    BY <1>2, <1>3, <2>4, <2>6 DEF RunsInv
  <2>8. DueInv'
    BY <1>1, <1>2, <1>3, <2>4 DEF DueInv, Occurrence, Latest
  <2> QED
    BY <2>5, <2>7, <2>8 DEF IInv
<1>4. CASE kind # "script"
  <2>1. kind = "backup" /\ To("enqueue") /\ runs' = runs
    BY <1>1, <1>4 DEF Create, TypeOK
  <2>4. /\ tick' \in [step : Steps, at : Start .. clock]
        /\ tick'.step = "enqueue" /\ tick'.at = tick.at
    BY <1>1, <2>1, TickMoves DEF TypeOK, Steps
  <2>5. TypeOK'
    BY <1>1, <1>2, <2>1, <2>4, Bounds DEF TypeOK, Create, schedule, Idle
  <2>6. Cardinality(Taken') <= MaxActive
    BY <1>1, <1>2, <2>1, TakenFewer DEF TypeOK, RunsInv, Counted
  <2>7. RunsInv'
    BY <1>1, <1>2, <2>1, <2>4, <2>6 DEF RunsInv
  <2>8. DueInv'
    BY <1>1, <1>2, <2>1, <2>4 DEF DueInv, Occurrence, Latest
  <2> QED
    BY <2>5, <2>7, <2>8 DEF IInv
<1> QED
  BY <1>3, <1>4

\* last_run_at is stamped: with a time before which the occurrence fell.
LEMMA StampKeeps == ASSUME IInv, Stamp PROVE IInv'
<1>1. TypeOK /\ RunsInv /\ DueInv
  BY DEF IInv
<1>2. /\ tick.step = "stamp" /\ lastRun' = tick.at /\ clock' = clock /\ kind' = kind
      /\ runs' = runs /\ cadence' = cadence /\ fired' = fired /\ crashes' = crashes
  BY DEF Stamp, StampTime, schedule
<1>3. /\ tick' \in [step : Steps, at : Start .. clock]
      /\ kind = "script" => tick'.step = "enqueue" /\ tick'.at = tick.at
      /\ kind # "script" => tick' = Idle /\ tick'.step = "idle"
  BY <1>1, TickMoves DEF TypeOK, Steps, Stamp
<1>4. TypeOK'
  BY <1>1, <1>2, <1>3, Bounds DEF TypeOK, RunsInv, Stamp, schedule, Idle
<1>5. RunsInv'
  <2>1. Cardinality(Taken') <= MaxActive
    BY <1>1, <1>2, <1>3, TakenFewer DEF TypeOK, RunsInv, Counted
  <2> QED
    BY <1>1, <1>2, <1>3, <2>1 DEF RunsInv, TypeOK
<1>6. DueInv'
  <2>1. /\ Occurrence \in Int /\ Occurrence <= tick.at /\ tick.at \in Int
        /\ lastRun \in Int /\ fired \in Int
    BY <1>1, OccurrenceBefore
  <2>2. kind = "script" => Occurrence' = Occurrence
    BY <1>2, <1>3 DEF Occurrence, Latest
  <2> QED
    BY <1>1, <1>2, <1>3, <2>1, <2>2 DEF DueInv, TypeOK
<1> QED
  BY <1>4, <1>5, <1>6 DEF IInv

\* What the tick made is queued, or run by the tick itself.
LEMMA QueuedKeeps ==
    ASSUME IInv, tick.step = "enqueue", Job("queued"), fired' = Occurrence,
           UNCHANGED <<clock, schedule, lastRun, crashes>>, outages' \in 0 .. MaxOutages,
           IF kind = "script" THEN Pruning \/ To("inline") ELSE To("stamp")
    PROVE  IInv'
<1>1. TypeOK /\ RunsInv /\ DueInv
  BY DEF IInv
<1>2. /\ clock' = clock /\ kind' = kind /\ enabled' = enabled
      /\ lastRun' = lastRun /\ cadence' = cadence /\ crashes' = crashes
  BY DEF schedule
<1>3. /\ tick' \in [step : Steps, at : Start .. clock]
      /\ kind = "script" => tick'.step \in {"prune", "inline"}
      /\ kind # "script" => tick'.step = "stamp" /\ tick'.at = tick.at
  BY <1>1, TickMoves DEF TypeOK, Steps, Pruning
<1>4. /\ runs' \in Seq(Run) /\ Len(runs') = Len(runs)
      /\ kind # "script" => runs' = runs
      /\ \A i \in DOMAIN runs : i # Len(runs) => runs'[i] = runs[i]
  BY <1>1, Jobs DEF TypeOK
<1>5. /\ Occurrence \in Int /\ Occurrence <= tick.at /\ tick.at \in Int /\ tick.at <= clock
      /\ clock \in Int
  BY <1>1, OccurrenceBefore
<1>6. TypeOK'
  <2>1. tick # Idle /\ tick' # Idle
    BY <1>3 DEF Idle
  <2>2. Len(runs') <= Keep + MaxActive + crashes' + (IF tick' = Idle THEN 0 ELSE 1)
    BY <1>1, <1>2, <1>4, <2>1 DEF TypeOK
  <2>3. fired' \in Int /\ fired' <= clock'
    BY <1>2, <1>5
  <2> QED
    BY <1>1, <1>2, <1>3, <1>4, <2>2, <2>3 DEF TypeOK
<1>7. RunsInv'
  <2>1. \A i \in DOMAIN runs : Counted(i)' => Counted(i)
    BY <1>1, <1>2, <1>3, <1>4 DEF Counted, TypeOK
  <2>2. Cardinality(Taken') <= MaxActive
    BY <1>1, <1>4, <2>1, TakenFewer DEF TypeOK, RunsInv
  <2> QED
    BY <1>1, <1>2, <1>3, <1>4, <2>2 DEF RunsInv, TypeOK
<1>8. DueInv'
  <2>1. kind # "script" => Occurrence' = Occurrence
    BY <1>2, <1>3 DEF Occurrence, Latest
  <2> QED
    BY <1>1, <1>2, <1>3, <1>5, <2>1 DEF DueInv, TypeOK
<1> QED
  BY <1>6, <1>7, <1>8 DEF IInv

\* The queue takes it.
LEMMA EnqueueKeeps == ASSUME IInv, Enqueue PROVE IInv'
<1>1. outages' \in 0 .. MaxOutages
  BY DEF Enqueue, IInv, TypeOK
<1> QED
  BY <1>1, QueuedKeeps DEF Enqueue

\* The tick ends, or is taken to the end, with what it had made.
LEMMA TickEndsKeeps ==
    ASSUME IInv, UNCHANGED <<clock, schedule, lastRun, runs, fired>>,
           \/ tick' = Idle
           \/ kind = "script" /\ Pruning /\ tick # Idle,
           \/ crashes' = crashes /\ tick.step # "stamp"
              /\ (kind = "script" => Pruning)
           \/ crashes' = crashes + 1 /\ tick # Idle,
           crashes' <= MaxCrashes, outages' \in 0 .. MaxOutages
    PROVE  IInv'
<1>1. TypeOK /\ RunsInv /\ DueInv
  BY DEF IInv
<1>2. /\ clock' = clock /\ kind' = kind /\ enabled' = enabled /\ fired' = fired
      /\ lastRun' = lastRun /\ cadence' = cadence /\ runs' = runs
  BY DEF schedule
<1>3. /\ tick' \in [step : Steps, at : Start .. clock]
      /\ tick'.step \in {"idle", "prune"}
      /\ (kind # "script" => tick' = Idle /\ tick'.step = "idle")
      /\ tick' # Idle => tick # Idle
  BY <1>1, TickMoves DEF TypeOK, Steps, Pruning
<1>4. crashes' \in 0 .. MaxCrashes /\ crashes \in Nat /\ crashes' >= crashes
  BY <1>1, Bounds DEF TypeOK
<1>5. TypeOK'
  <2>1. Len(runs) <= Keep + MaxActive + crashes' + (IF tick' = Idle THEN 0 ELSE 1)
    <3>1. CASE kind = "script" /\ crashes' = crashes
      <4>1. tick' # Idle
        BY <3>1, <1>4 DEF Pruning, Idle
      <4> QED
        BY <1>1, <1>4, <3>1, <4>1, Bounds DEF TypeOK
    <3>2. CASE crashes' = crashes + 1
      BY <1>1, <1>4, <3>2, Bounds DEF TypeOK
    <3>3. CASE kind # "script"
      BY <1>1, <1>4, <3>3, Bounds DEF RunsInv, TypeOK
    <3> QED
      BY <3>1, <3>2, <3>3
  <2> QED
    BY <1>1, <1>2, <1>3, <1>4, <2>1, Bounds DEF TypeOK
<1>6. RunsInv'
  <2>1. \A i \in DOMAIN runs : Counted(i)' => Counted(i)
    BY <1>2, <1>3 DEF Counted
  <2>2. Cardinality(Taken') <= MaxActive
    BY <1>1, <1>2, <2>1, TakenFewer DEF TypeOK, RunsInv
  <2> QED
    BY <1>1, <1>2, <1>3, <2>2 DEF RunsInv, TypeOK
<1>7. DueInv'
  BY <1>1, <1>2, <1>3, <1>4 DEF DueInv, TypeOK
<1> QED
  BY <1>5, <1>6, <1>7 DEF IInv

\* The queue is down.
LEMMA EnqueueFailsKeeps == ASSUME IInv, EnqueueFails PROVE IInv'
<1>1. outages' \in 0 .. MaxOutages /\ crashes <= MaxCrashes
  BY Bounds DEF EnqueueFails, IInv, TypeOK
<1>2. CASE kind = "script"
  BY <1>1, <1>2, QueuedKeeps DEF EnqueueFails
<1>3. CASE kind # "script"
  BY <1>1, <1>3, TickEndsKeeps DEF EnqueueFails
<1> QED
  BY <1>2, <1>3

\* What the tick ran itself has ended.
LEMMA InlineEndsKeeps == ASSUME IInv, InlineEnds PROVE IInv'
<1>1. kind = "script" /\ tick # Idle
  BY DEF InlineEnds, IInv, RunsInv, TypeOK, Idle
<1>2. outages' \in 0 .. MaxOutages /\ crashes' <= MaxCrashes
  BY Bounds DEF InlineEnds, IInv, TypeOK
<1> QED
  BY <1>1, <1>2, TickEndsKeeps DEF InlineEnds

\* The tick dies.
LEMMA TickDiesKeeps == ASSUME IInv, TickDies PROVE IInv'
<1>1. outages' \in 0 .. MaxOutages /\ crashes' <= MaxCrashes
  BY Bounds DEF TickDies, IInv, TypeOK
<1> QED
  BY <1>1, TickEndsKeeps DEF TickDies

\* A prune brings the runs back within the retention.
LEMMA PruneKeeps == ASSUME IInv, Prune PROVE IInv'
<1>1. TypeOK /\ RunsInv /\ DueInv
  BY DEF IInv
<1>2. /\ tick.step = "prune" /\ tick' = Idle /\ clock' = clock /\ kind' = kind
      /\ enabled' = enabled /\ fired' = fired /\ lastRun' = lastRun /\ cadence' = cadence
      /\ crashes' = crashes /\ outages' = outages /\ kind = "script"
  BY <1>1 DEF Prune, schedule, RunsInv, TypeOK
<1>3. tick' \in [step : Steps, at : Start .. clock] /\ tick'.step = "idle"
  BY <1>1, <1>2, TickMoves DEF TypeOK, Steps
<1>4. PICK aged \in 0 .. Len(runs) :
         runs' = Kept({i \in DOMAIN runs : Active(i) \/ (aged < i /\ ~PastCount(i))})
  BY DEF Prune
<1> DEFINE active == {i \in DOMAIN runs : Active(i)}
           ended == {i \in DOMAIN runs : ~Active(i) /\ aged < i /\ ~PastCount(i)}
           places == {i \in DOMAIN runs : Active(i) \/ (aged < i /\ ~PastCount(i))}
           held == {i \in DOMAIN runs : Held(runs[i])}
<1>5. /\ runs \in Seq(Run) /\ DOMAIN runs = 1 .. Len(runs) /\ Len(runs) \in Nat
  BY <1>1 DEF TypeOK
<1>6. /\ runs' \in Seq(Run) /\ Len(runs') = Cardinality(places)
      /\ Cardinality({k \in DOMAIN runs' : Held(runs'[k])}) <= Cardinality(held)
  <2>1. places \in SUBSET DOMAIN runs /\ runs' = Kept(places)
    BY <1>4
  <2> HIDE DEF places
  <2> QED
    BY <1>5, <2>1, KeptRuns
<1>7. /\ active \in SUBSET (1 .. Len(runs)) /\ ended \in SUBSET (1 .. Len(runs))
      /\ held \in SUBSET (1 .. Len(runs)) /\ Taken \in SUBSET (1 .. Len(runs))
      /\ places = active \cup ended /\ active \in SUBSET held /\ held \in SUBSET Taken
      /\ ended \in SUBSET {i \in DOMAIN runs : ~Active(i) /\ ~PastCount(i)}
  BY <1>5 DEF Taken, Counted, Held, Active
<1>8. {k \in DOMAIN runs' : Held(runs'[k])} = Taken'
  BY <1>3 DEF Taken, Counted
<1> HIDE DEF active, ended, places, held
<1>9. /\ Cardinality(active) \in Nat /\ Cardinality(ended) \in Nat /\ Cardinality(held) \in Nat
      /\ Cardinality(Taken) \in Nat /\ Cardinality(places) \in Nat
  <2>1. places \in SUBSET (1 .. Len(runs))
    BY <1>7
  <2>2. \A S \in SUBSET (1 .. Len(runs)) : Cardinality(S) \in Nat
    BY <1>5, Places
  <2> QED
    BY <1>7, <2>1, <2>2
<1>10. Cardinality(active) <= Cardinality(held) /\ Cardinality(held) <= Cardinality(Taken)
  BY <1>5, <1>7, Fewer
<1>11. Cardinality(ended) <= Keep
  BY <1>5, <1>7, KeepNoMore
<1>12. Cardinality(places) <= Cardinality(active) + Cardinality(ended)
  BY <1>5, <1>7, Pieces
<1>13. Len(runs') <= Keep + MaxActive
  BY <1>1, <1>6, <1>9, <1>10, <1>11, <1>12, Bounds DEF RunsInv
<1>14. TypeOK'
  <2>1. Len(runs') <= Keep + MaxActive + crashes' + (IF tick' = Idle THEN 0 ELSE 1)
    <3>1. Len(runs') \in Nat /\ crashes' \in Nat /\ Keep \in Nat /\ MaxActive \in Nat
      BY <1>1, <1>2, <1>6, <1>9, Bounds DEF TypeOK
    <3> QED
      BY <1>2, <1>13, <3>1
  <2>2. runs' \in Seq(Run)
    BY <1>6
  <2> QED
    BY <1>1, <1>2, <1>3, <2>1, <2>2 DEF TypeOK
<1>15. Cardinality(Taken') <= MaxActive
  <2>1. Cardinality(Taken') <= Cardinality(held) /\ Cardinality(Taken) <= MaxActive
    BY <1>1, <1>6, <1>8 DEF RunsInv
  <2>2. /\ DOMAIN runs' = 1 .. Len(runs') /\ Len(runs') \in Nat
        /\ Taken' \in SUBSET (1 .. Len(runs'))
    BY <1>6 DEF Taken
  <2>3. Cardinality(Taken') \in Nat
    BY <2>2, Places
  <2> QED
    BY <1>9, <1>10, <2>1, <2>3, Bounds
<1>16. RunsInv'
  BY <1>2, <1>3, <1>15 DEF RunsInv
<1>17. DueInv'
  BY <1>1, <1>2, <1>3 DEF DueInv
<1> QED
  BY <1>14, <1>16, <1>17 DEF IInv

\* A step of a run that counts.
LEMMA RunChangesKeeps ==
    ASSUME IInv, NEW i \in DOMAIN runs, NEW run \in Run, Held(runs[i]),
           runs' = [runs EXCEPT ![i] = run],
           UNCHANGED <<clock, schedule, lastRun, tick, fired, outages>>,
           crashes' \in {crashes, crashes + 1}, crashes' <= MaxCrashes
    PROVE  IInv'
<1>1. TypeOK /\ RunsInv /\ DueInv
  BY DEF IInv
<1>2. /\ clock' = clock /\ kind' = kind /\ enabled' = enabled /\ fired' = fired
      /\ lastRun' = lastRun /\ cadence' = cadence /\ tick' = tick /\ outages' = outages
  BY DEF schedule
<1>3. /\ runs' \in Seq(Run) /\ Len(runs') = Len(runs) /\ Len(runs) \in Nat
      /\ \A j \in DOMAIN runs : j # i => runs'[j] = runs[j]
  BY <1>1, Changed DEF TypeOK
<1>4. crashes' \in 0 .. MaxCrashes /\ crashes \in Nat /\ crashes' >= crashes
  BY <1>1, Bounds DEF TypeOK
<1>5. TypeOK'
  BY <1>1, <1>2, <1>3, <1>4, Bounds DEF TypeOK
<1>6. RunsInv'
  <2>1. \A j \in DOMAIN runs : Counted(j)' => Counted(j)
    BY <1>2, <1>3 DEF Counted
  <2>2. Cardinality(Taken') <= MaxActive
    BY <1>1, <1>3, <2>1, TakenFewer DEF TypeOK, RunsInv
  <2>3. runs # <<>>
    OBVIOUS
  <2> QED
    BY <1>1, <1>2, <1>3, <1>4, <2>2, <2>3, Bounds DEF RunsInv, TypeOK
<1>7. DueInv'
  <2>1. Occurrence' = Occurrence
    BY <1>2 DEF Occurrence, Latest
  <2> QED
    BY <1>1, <1>2, <1>4, <2>1 DEF DueInv
<1> QED
  BY <1>5, <1>6, <1>7 DEF IInv

\* The steps of a run.
LEMMA RunsKeep ==
    ASSUME IInv, NEW i \in DOMAIN runs,
           RunStarts(i) \/ RunEnds(i) \/ WorkerDies(i) \/ Cancel(i)
    PROVE  IInv'
<1>1. /\ runs \in Seq(Run) /\ runs[i] \in Run
      /\ crashes \in Nat /\ crashes <= MaxCrashes
  BY Bounds DEF IInv, TypeOK
<1>2. CASE RunStarts(i)
  <2>1. [status |-> "running", job |-> "running"] \in Run /\ Held(runs[i])
    BY <1>2 DEF RunStarts, Run, Held
  <2> QED
    BY <1>1, <1>2, <2>1, RunChangesKeeps DEF RunStarts
<1>3. CASE RunEnds(i)
  <2>1. [status |-> "ended", job |-> "none"] \in Run /\ Held(runs[i])
    BY <1>3 DEF RunEnds, Run, Held
  <2> QED
    BY <1>1, <1>3, <2>1, RunChangesKeeps DEF RunEnds
<1>4. CASE WorkerDies(i)
  <2> DEFINE run == [runs[i] EXCEPT !.job = "none"]
  <2>1. run \in Run /\ Held(runs[i]) /\ runs' = [runs EXCEPT ![i] = run]
    BY <1>1, <1>4 DEF WorkerDies, Run, Held
  <2>2. crashes' = crashes + 1 /\ crashes' <= MaxCrashes
    BY <1>1, <1>4, Bounds DEF WorkerDies
  <2> HIDE DEF run
  <2> QED
    BY <1>4, <2>1, <2>2, RunChangesKeeps DEF WorkerDies
<1>5. CASE Cancel(i)
  <2>1. PICK job \in IF runs[i].job = "running" THEN {"running", "none"} ELSE {runs[i].job} :
           runs' = [runs EXCEPT ![i] = [status |-> "canceled", job |-> job]]
    BY <1>5 DEF Cancel
  <2>2. [status |-> "canceled", job |-> job] \in Run /\ Held(runs[i])
    BY <1>1, <1>5 DEF Cancel, Active, Run, Held
  <2> QED
    BY <1>1, <1>5, <2>1, <2>2, RunChangesKeeps DEF Cancel
<1> QED
  BY <1>2, <1>3, <1>4, <1>5

\* The switch, and the time.
LEMMA RestKeeps ==
    ASSUME IInv, ToggleEnabled \/ TimePasses \/ UNCHANGED vars PROVE IInv'
<1>1. TypeOK /\ RunsInv /\ DueInv
  BY DEF IInv
<1>2. /\ kind' = kind /\ fired' = fired /\ runs' = runs /\ crashes' = crashes
      /\ lastRun' = lastRun /\ cadence' = cadence /\ tick' = tick /\ outages' = outages
      /\ enabled' \in BOOLEAN
  BY <1>1 DEF ToggleEnabled, TimePasses, vars, schedule, TypeOK
<1>3. clock' \in Instants /\ clock \in Instants /\ clock <= clock'
  BY <1>1, Bounds DEF ToggleEnabled, TimePasses, vars, TypeOK, Instants
<1>4. TypeOK'
  BY <1>1, <1>2, <1>3, Bounds DEF TypeOK, Instants
<1>5. RunsInv'
  <2>1. Taken' = Taken
    BY <1>2 DEF Taken, Counted
  <2> QED
    BY <1>1, <1>2, <2>1 DEF RunsInv
<1>6. DueInv'
  <2>1. Occurrence' = Occurrence
    BY <1>2 DEF Occurrence, Latest
  <2> QED
    BY <1>1, <1>2, <2>1 DEF DueInv
<1> QED
  BY <1>4, <1>5, <1>6 DEF IInv

\* ... and every step keeps it.
LEMMA StepIInv == IInv /\ [Next]_vars => IInv'
<1> SUFFICES ASSUME IInv, [Next]_vars PROVE IInv'
  OBVIOUS
<1>1. CASE TickBegins
  BY <1>1, TickBeginsKeeps
<1>2. CASE TickStep
  BY <1>2, CreateKeeps, StampKeeps, EnqueueKeeps, EnqueueFailsKeeps, InlineEndsKeeps, PruneKeeps
     DEF TickStep
<1>3. CASE TickDies
  BY <1>3, TickDiesKeeps
<1>4. CASE \E i \in DOMAIN runs : RunStep(i) \/ WorkerDies(i) \/ Cancel(i)
  BY <1>4, RunsKeep DEF RunStep
<1>5. CASE ToggleEnabled \/ TimePasses \/ UNCHANGED vars
  BY <1>5, RestKeeps
<1> QED
  BY <1>1, <1>2, <1>3, <1>4, <1>5 DEF Next

\* Every reachable state satisfies the inductive invariant.
THEOREM Inductive == Spec => []IInv
<1> QED
  BY InitIInv, StepIInv, PTL DEF Spec

\* Types; and a script's runs do not pile up, whatever dies (schedules.py:62).
THEOREM TypeCorrect == Spec => []TypeOK
BY Inductive, PTL DEF IInv

\* At every time the schedule lives to, and each day of a cycle after, the
\* occurrences are right.
THEOREM OccurrencesRightThm == Spec => []OccurrencesRight
<1>1. IInv => OccurrencesRight
  BY OccurrencesAlwaysRight DEF IInv, TypeOK
<1> QED
  BY <1>1, Inductive, PTL

\* No occurrence is queued twice (cadence.py:10): a script's whatever dies, as it
\* is stamped before it is queued, a backup's unless its tick dies.
THEOREM QueuedOnce == Spec => NeverTwice
<1>1. ASSUME IInv, tick.step = "enqueue", crashes = 0 \/ kind = "script"
      PROVE  fired < Occurrence
  <2>1. Occurrence \in Int /\ fired \in Int /\ lastRun \in Int
    BY <1>1, OccurrenceBefore DEF IInv
  <2> QED
    BY <1>1, <2>1 DEF IInv, DueInv, TypeOK
<1>2. IInv => [/\ tick.step = "enqueue" /\ tick'.step \in {"stamp", "prune", "inline"}
               /\ crashes = 0 \/ kind = "script"
               => fired < Occurrence]_vars
  BY <1>1
<1> QED
  BY <1>2, Inductive, PTL DEF NeverTwice
=============================================================================
