------------------------------ MODULE FormProofs ------------------------------
(***************************************************************************)
(* Theorems about the fields of the forms and the messages of the          *)
(* application, and their proofs: the coded dates, the bundle, and the     *)
(* two lists of the item selector.                                         *)
(***************************************************************************)
EXTENDS DateUtils, Bundle, ItemSelector, WidgetLemmas

-----------------------------------------------------------------------------
\* The calendar.

\* The days of a year before its months.
DaysBefore(r) ==
    CASE r = 0 -> 0 [] r = 1 -> 31 [] r = 2 -> 59 [] r = 3 -> 90 [] r = 4 -> 120
      [] r = 5 -> 151 [] r = 6 -> 181 [] r = 7 -> 212 [] r = 8 -> 243
      [] r = 9 -> 273 [] r = 10 -> 304 [] r = 11 -> 334

\* The first day of a month, from its year and its place in the year.
LEMMA FirstDayIs ==
    ASSUME NEW m \in Nat
    PROVE  FirstDay(m) = 365 * (m \div 12) + ((m \div 12 + 3) \div 4
                           + (IF (m \div 12) % 4 = 0 /\ m % 12 > 1 THEN 1 ELSE 0))
                           + DaysBefore(m % 12)
  <1>. DEFINE before == <<0, 31, 59, 90, 120, 151, 181, 212, 243, 273, 304, 334>>
  <1>1. ASSUME NEW r \in 0..11 PROVE before[r + 1] = DaysBefore(r)
    BY DEF DaysBefore
  <1>2. m % 12 \in 0..11
    OBVIOUS
  <1>. QED
    BY <1>1, <1>2 DEF FirstDay

\* The months follow one another.
LEMMA NextMonth ==
    ASSUME NEW m \in Nat
    PROVE  /\ FirstDay(m) \in Nat
           /\ DaysInMonth(m) \in 28..31
           /\ FirstDay(m + 1) = FirstDay(m) + DaysInMonth(m)
           /\ 28 * m <= FirstDay(m) /\ FirstDay(m) <= 31 * m
  <1>. DEFINE y == m \div 12
              r == m % 12
              q == (y + 3) \div 4
              leap == IF y % 4 = 0 /\ r > 1 THEN 1 ELSE 0
  <1>1. y \in Nat /\ r \in 0..11 /\ m = 12 * y + r
    OBVIOUS
  <1>2. q \in Nat /\ 4 * q >= y /\ 4 * q <= y + 3 /\ y % 4 \in 0..3
    OBVIOUS
  <1>3. DaysBefore(r) \in Nat
    BY <1>1 DEF DaysBefore
  <1>4. FirstDay(m) = 365 * y + (q + leap) + DaysBefore(r)
    BY FirstDayIs
  <1>. HIDE DEF y, r, q
  <1>5. DaysInMonth(m) = CASE r \in {3, 5, 8, 10} -> 30
                           [] r = 1 -> IF y % 4 = 0 THEN 29 ELSE 28
                           [] OTHER -> 31
    BY DEF DaysInMonth, y, r
  <1>6. DaysInMonth(m) \in 28..31
    BY <1>5
  <1>7. 28 * r <= DaysBefore(r) + (IF r > 1 THEN 0 ELSE 0) /\ DaysBefore(r) <= 31 * r
        /\ (r > 1 => DaysBefore(r) + 1 <= 31 * r)
    BY <1>1 DEF DaysBefore
  <1>8. 28 * m <= FirstDay(m) /\ FirstDay(m) <= 31 * m /\ FirstDay(m) \in Nat
    <2>1. 28 * m = 336 * y + 28 * r /\ 31 * m = 372 * y + 31 * r
      BY <1>1
    <2>2. leap \in 0..1 /\ (leap = 1 => r > 1)
      BY <1>1, <1>2
    <2>3. q <= y
      BY <1>1, <1>2
    <2>. HIDE DEF leap
    <2>. QED
      BY <1>1, <1>2, <1>3, <1>4, <1>7, <2>1, <2>2, <2>3
  <1>9. FirstDay(m + 1) = FirstDay(m) + DaysInMonth(m)
    <2>. DEFINE z == (m + 1) \div 12
                s == (m + 1) % 12
    <2>1. FirstDay(m + 1) = 365 * z + ((z + 3) \div 4 + (IF z % 4 = 0 /\ s > 1 THEN 1 ELSE 0))
                              + DaysBefore(s)
      BY FirstDayIs
    <2>2. CASE r = 11
      <3>1. z = y + 1 /\ s = 0
        BY <2>2 DEF y, r
      <3>2. (y + 4) \div 4 = q + IF y % 4 = 0 THEN 1 ELSE 0
        BY <1>1 DEF q
      <3>3. DaysBefore(s) = 0 /\ DaysBefore(r) = 334 /\ DaysInMonth(m) = 31
        BY <2>2, <3>1, <1>5 DEF DaysBefore
      <3>4. (z + 3) \div 4 = (y + 4) \div 4
        BY <1>1, <3>1
      <3>. HIDE DEF z, s
      <3>. QED
        BY <1>1, <1>2, <1>4, <2>1, <2>2, <3>1, <3>2, <3>3, <3>4
    <2>3. CASE r # 11
      <3>1. z = y /\ s = r + 1
        BY <2>3 DEF y, r
      <3>2. DaysBefore(r + 1) = DaysBefore(r) + IF r = 1 THEN 28 ELSE DaysInMonth(m)
        BY <1>1, <1>5, <2>3 DEF DaysBefore
      <3>3. (z + 3) \div 4 = q
        BY <3>1 DEF q
      <3>. HIDE DEF z, s
      <3>4. FirstDay(m + 1) = 365 * y + (q + (IF y % 4 = 0 /\ r + 1 > 1 THEN 1 ELSE 0))
                                + DaysBefore(r + 1)
        BY <2>1, <3>1, <3>3
      <3>5. r = 1 => DaysInMonth(m) = IF y % 4 = 0 THEN 29 ELSE 28
        BY <1>5
      <3>6. CASE r = 1
        BY <1>1, <1>2, <1>3, <1>4, <3>2, <3>4, <3>5, <3>6
      <3>7. CASE r # 1
        <4>1. DaysBefore(r + 1) = DaysBefore(r) + DaysInMonth(m)
          BY <3>2, <3>7
        <4>2. leap = IF y % 4 = 0 /\ r + 1 > 1 THEN 1 ELSE 0
          BY <1>1, <3>7
        <4>. HIDE DEF leap
        <4>3. leap \in 0..1
          BY <4>2
        <4>. QED
          BY <1>1, <1>2, <1>3, <1>4, <1>6, <3>4, <4>1, <4>2, <4>3
      <3>. QED
        BY <3>6, <3>7
    <2>. QED
      BY <2>2, <2>3
  <1>. QED
    BY <1>6, <1>8, <1>9

\* A later month begins later.
LEMMA MonthsGrow ==
    ASSUME NEW m \in Nat, NEW k \in Nat, m <= k
    PROVE  FirstDay(m) <= FirstDay(k)
  <1>. DEFINE Later == {j \in Nat : FirstDay(m) <= FirstDay(m + j)}
  <1>1. 0 \in Later
    BY NextMonth
  <1>2. ASSUME NEW j \in Later PROVE j + 1 \in Later
    <2>1. m + j \in Nat /\ m + (j + 1) = (m + j) + 1 /\ FirstDay(m) \in Nat
      BY NextMonth
    <2>2. FirstDay((m + j) + 1) = FirstDay(m + j) + DaysInMonth(m + j)
          /\ FirstDay(m + j) \in Nat /\ DaysInMonth(m + j) \in 28..31
      BY <2>1, NextMonth
    <2>. QED
      BY <2>1, <2>2
  <1>3. Later = Nat
    <2>1. Later \in SUBSET Nat
      OBVIOUS
    <2>. HIDE DEF Later
    <2>. QED
      BY <1>1, <1>2, <2>1, InSet
  <1>4. k - m \in Nat /\ m + (k - m) = k
    OBVIOUS
  <1>5. FirstDay(m) <= FirstDay(m + (k - m))
    BY <1>3, <1>4
  <1>. QED
    BY <1>4, <1>5

\* The month of a date is the one it is in.
LEMMA MonthIs ==
    ASSUME NEW d \in Nat
    PROVE  /\ MonthOf(d) \in Nat
           /\ FirstDay(MonthOf(d)) <= d /\ d < FirstDay(MonthOf(d) + 1)
           /\ d \div 31 <= MonthOf(d)
  <1>. DEFINE low == d \div 31
              high == d \div 28
              S == {m \in low..high : FirstDay(m) <= d}
              M == Max(S)
  <1>1. low \in Nat /\ high \in Nat /\ low <= high /\ 31 * low <= d /\ d < 28 * high + 28
    OBVIOUS
  <1>2. low \in S
    <2>1. FirstDay(low) <= 31 * low /\ FirstDay(low) \in Nat
      BY <1>1, NextMonth
    <2>. QED
      BY <1>1, <2>1
  <1>3. S \in SUBSET Nat /\ (\A m \in S : m <= high)
    BY <1>1
  <1>4. M \in S /\ \A m \in S : m <= M
    <2>. HIDE DEF S, high, low
    <2>. QED
      BY <1>1, <1>2, <1>3, MaxOf
  <1>5. M \in Nat /\ low <= M /\ FirstDay(M) <= d
    BY <1>2, <1>3, <1>4
  <1>. HIDE DEF M, low, high
  <1>6. d < FirstDay(M + 1)
    <2>. SUFFICES ASSUME ~(d < FirstDay(M + 1)) PROVE FALSE
      OBVIOUS
    <2>1. FirstDay(M + 1) <= d /\ 28 * (M + 1) <= FirstDay(M + 1) /\ FirstDay(M + 1) \in Nat
      BY <1>5, NextMonth
    <2>2. M + 1 <= high
      BY <1>1, <1>5, <2>1
    <2>3. M + 1 \in S
      BY <1>1, <1>5, <2>1, <2>2
    <2>. QED
      BY <1>4, <1>5, <2>3
  <1>7. MonthOf(d) = M
    BY DEF MonthOf, M, low, high
  <1>. QED
    BY <1>5, <1>6, <1>7 DEF low

\* A date is in one month.
LEMMA OneMonth ==
    ASSUME NEW d \in Nat, NEW m \in Nat, FirstDay(m) <= d, d < FirstDay(m + 1)
    PROVE  MonthOf(d) = m
  <1>. DEFINE M == MonthOf(d)
  <1>1. M \in Nat /\ FirstDay(M) <= d /\ d < FirstDay(M + 1)
    BY MonthIs
  <1>. HIDE DEF M
  <1>2. \A k \in Nat : FirstDay(k) \in Nat
    BY NextMonth
  <1>3. ~(M < m)
    <2>1. M + 1 <= m => FirstDay(M + 1) <= FirstDay(m)
      BY <1>1, MonthsGrow
    <2>. QED
      BY <1>1, <1>2, <2>1
  <1>4. ~(m < M)
    <2>1. m + 1 <= M => FirstDay(m + 1) <= FirstDay(M)
      BY <1>1, MonthsGrow
    <2>. QED
      BY <1>1, <1>2, <2>1
  <1>5. M = m
    BY <1>1, <1>3, <1>4
  <1>. QED
    BY <1>5 DEF M

\* A month n months away, and the date there.
LEMMA MonthAway ==
    ASSUME NEW d \in Nat, NEW n \in Int, MonthOf(d) + n \in Nat
    PROVE  LET m == MonthOf(d) + n
               last == DaysInMonth(m) - 1
           IN /\ DayOf(d) \in Nat
              /\ AddMonths(d, n) = FirstDay(m) + IF DayOf(d) <= last THEN DayOf(d) ELSE last
              /\ AddMonths(d, n) \in Nat
              /\ MonthOf(AddMonths(d, n)) = m
  <1>. DEFINE m == MonthOf(d) + n
              last == DaysInMonth(m) - 1
              day == DayOf(d)
              until == AddMonths(d, n)
  <1>1. day \in Nat
    <2>1. MonthOf(d) \in Nat /\ FirstDay(MonthOf(d)) <= d
      BY MonthIs
    <2>2. FirstDay(MonthOf(d)) \in Nat
      BY <2>1, NextMonth
    <2>. QED
      BY <2>1, <2>2 DEF DayOf
  <1>2. /\ FirstDay(m) \in Nat /\ DaysInMonth(m) \in 28..31
        /\ FirstDay(m + 1) = FirstDay(m) + DaysInMonth(m)
    BY NextMonth
  <1>3. until = FirstDay(m) + Min({day, last})
    BY DEF AddMonths
  <1>. HIDE DEF m, day, until
  <1>4. Min({day, last}) = IF day <= last THEN day ELSE last
    BY <1>1, <1>2, MinOfTwo
  <1>5. until = FirstDay(m) + IF day <= last THEN day ELSE last
    BY <1>3, <1>4
  <1>6. until \in Nat /\ FirstDay(m) <= until /\ until < FirstDay(m + 1)
    BY <1>1, <1>2, <1>5
  <1>7. MonthOf(until) = m
    BY <1>6, OneMonth DEF m
  <1>. QED
    BY <1>1, <1>5, <1>6, <1>7 DEF m, day, until

\* Least and greatest elements that are known.
LEMMA MinIs ==
    ASSUME NEW S \in SUBSET Int, NEW x \in S, \A k \in S : x <= k
    PROVE  Min(S) = x
  <1>1. Min(S) \in S /\ \A k \in S : Min(S) <= k
    BY DEF Min
  <1>2. Min(S) \in Int /\ x \in Int /\ Min(S) <= x /\ x <= Min(S)
    BY <1>1
  <1>. QED
    BY <1>2

\* The greatest number of a bounded set that has one.
LEMMA MaxIs ==
    ASSUME NEW S \in SUBSET Int, NEW x \in S, \A k \in S : k <= x
    PROVE  Max(S) = x
  <1>1. Max(S) \in S /\ \A k \in S : Max(S) >= k
    BY DEF Max
  <1>2. Max(S) \in Int /\ x \in Int /\ Max(S) >= x /\ Max(S) <= x
    BY <1>1
  <1>. QED
    BY <1>2

\* A month has a working day among its first three days and its last three.
LEMMA WorkingEnds ==
    ASSUME NEW first \in Nat, NEW last \in Nat, last >= first + 27
    PROVE  /\ FirstWorkingDate(first) = Min(WorkingIn(first..last))
           /\ LastWorkingDate(last) = Max(WorkingIn(first..last))
           /\ FirstWorkingDate(first) \in Nat /\ LastWorkingDate(last) \in Nat
  <1>. DEFINE days == WorkingIn(first..last)
              a == FirstWorkingDate(first)
              z == LastWorkingDate(last)
  <1>1. days \in SUBSET Int
    BY DEF WorkingIn
  <1>2. a \in days /\ \A k \in days : a <= k
    <2>1. /\ a \in first..(first + 2)
          /\ a % 7 \notin {0, 6}
          /\ \A k \in first..(a - 1) : k % 7 \in {0, 6}
      <3>1. first % 7 \in 0..6
        OBVIOUS
      <3>2. a = first + IF first % 7 = 0 THEN 1 ELSE IF first % 7 = 6 THEN 2 ELSE 0
        BY DEF FirstWorkingDate, GetDay
      <3>3. (first + 1) % 7 = IF first % 7 = 6 THEN 0 ELSE (first % 7) + 1
        OBVIOUS
      <3>4. (first + 2) % 7 = IF first % 7 = 6 THEN 1 ELSE IF first % 7 = 5 THEN 0 ELSE (first % 7) + 2
        OBVIOUS
      <3>5. CASE first % 7 = 0
        BY <3>2, <3>3, <3>5
      <3>6. CASE first % 7 = 6
        <4>1. a = first + 2 /\ a % 7 = 1
          BY <3>2, <3>4, <3>6
        <4>2. \A k \in first..(a - 1) : k = first \/ k = first + 1
          BY <4>1
        <4>. QED
          BY <3>3, <3>6, <4>1, <4>2
      <3>7. CASE first % 7 \notin {0, 6}
        BY <3>2, <3>7
      <3>. QED
        BY <3>5, <3>6, <3>7
    <2>. HIDE DEF a
    <2>2. a \in first..last /\ ~Weekend(a)
      BY <2>1 DEF Weekend, GetDay
    <2>3. ASSUME NEW k \in days PROVE a <= k
      <3>1. k \in first..last /\ k % 7 \notin {0, 6}
        BY <2>3 DEF WorkingIn, Weekend, GetDay
      <3>. QED
        BY <2>1, <3>1
    <2>. QED
      BY <2>2, <2>3 DEF WorkingIn
  <1>3. z \in days /\ \A k \in days : k <= z
    <2>1. /\ z \in (last - 2)..last
          /\ z % 7 \notin {0, 6}
          /\ \A k \in (z + 1)..last : k % 7 \in {0, 6}
      <3>1. last % 7 \in 0..6
        OBVIOUS
      <3>2. z = last - IF last % 7 = 0 THEN 2 ELSE IF last % 7 = 6 THEN 1 ELSE 0
        BY DEF LastWorkingDate, GetDay
      <3>3. (last - 1) % 7 = IF last % 7 = 0 THEN 6 ELSE (last % 7) - 1
        OBVIOUS
      <3>4. (last - 2) % 7 = IF last % 7 = 0 THEN 5 ELSE IF last % 7 = 1 THEN 6 ELSE (last % 7) - 2
        OBVIOUS
      <3>5. CASE last % 7 = 6
        BY <3>2, <3>3, <3>5
      <3>6. CASE last % 7 = 0
        <4>1. z = last - 2 /\ z % 7 = 5
          BY <3>2, <3>4, <3>6
        <4>2. \A k \in (z + 1)..last : k = last \/ k = last - 1
          BY <4>1
        <4>. QED
          BY <3>3, <3>6, <4>1, <4>2
      <3>7. CASE last % 7 \notin {0, 6}
        BY <3>2, <3>7
      <3>. QED
        BY <3>5, <3>6, <3>7
    <2>. HIDE DEF z
    <2>2. z \in first..last /\ ~Weekend(z)
      BY <2>1 DEF Weekend, GetDay
    <2>3. ASSUME NEW k \in days PROVE k <= z
      <3>1. k \in first..last /\ k % 7 \notin {0, 6}
        BY <2>3 DEF WorkingIn, Weekend, GetDay
      <3>. QED
        BY <2>1, <3>1
    <2>. QED
      BY <2>2, <2>3 DEF WorkingIn
  <1>4. a \in Nat /\ z \in Nat
    BY <1>2, <1>3 DEF WorkingIn
  <1>. HIDE DEF days, a, z
  <1>5. Min(days) = a /\ Max(days) = z
    BY <1>1, <1>2, <1>3, MinIs, MaxIs
  <1>. QED
    BY <1>4, <1>5 DEF days, a, z

-----------------------------------------------------------------------------
\* Working days.

\* How many days more than two for each working day there may still be.
Slack(step, date) ==
    IF step = 1
      THEN IF date % 7 = 0 THEN 0 ELSE IF date % 7 \in {1, 6} THEN 1 ELSE 2
      ELSE IF date % 7 = 6 THEN 0 ELSE IF date % 7 \in {0, 5} THEN 1 ELSE 2

\* A walk from a date for n working days, after k steps.
Walked(d, n, step, date, left, k) ==
    /\ date \in Int /\ left \in 0..n
    /\ IF step = 1 THEN d <= date /\ date <= d + k ELSE date <= d /\ d - k <= date
    /\ left < n => date # d
    /\ n = 0 => date = d
    /\ Cardinality(WorkingIn(Between(d, date))) = n - left
    /\ left = 0 /\ n > 0 => ~Weekend(date)
    /\ left > 0 => 2 * left + Slack(step, date) + k <= 2 * n + 2

\* A day of a weekend takes from the slack, a working day adds one at most.
LEMMA SlackShrinks ==
    ASSUME NEW step \in {-1, 1}, NEW date \in Int
    PROVE  /\ Slack(step, date) \in 0..2
           /\ Weekend(date + step) => Slack(step, date + step) + 1 <= Slack(step, date)
           /\ Slack(step, date + step) <= Slack(step, date) + 1
  <1>1. date % 7 \in 0..6
    OBVIOUS
  <1>2. (date + 1) % 7 = IF date % 7 = 6 THEN 0 ELSE (date % 7) + 1
    OBVIOUS
  <1>3. (date + (-1)) % 7 = IF date % 7 = 0 THEN 6 ELSE (date % 7) - 1
    OBVIOUS
  <1>. DEFINE now == date % 7
              up == (date + 1) % 7
              down == (date + (-1)) % 7
  <1>4. CASE step = 1
    <2>1. /\ Slack(step, date) = IF now = 0 THEN 0 ELSE IF now \in {1, 6} THEN 1 ELSE 2
          /\ Slack(step, date + step) = IF up = 0 THEN 0 ELSE IF up \in {1, 6} THEN 1 ELSE 2
          /\ Weekend(date + step) <=> up \in {0, 6}
      BY <1>4 DEF Slack, Weekend, GetDay
    <2>. HIDE DEF now, up
    <2>2. now \in 0..6 /\ up = IF now = 6 THEN 0 ELSE now + 1
      BY <1>1, <1>2 DEF now, up
    <2>. QED
      BY <2>1, <2>2
  <1>5. CASE step = -1
    <2>1. /\ Slack(step, date) = IF now = 6 THEN 0 ELSE IF now \in {0, 5} THEN 1 ELSE 2
          /\ Slack(step, date + step) = IF down = 6 THEN 0 ELSE IF down \in {0, 5} THEN 1 ELSE 2
          /\ Weekend(date + step) <=> down \in {0, 6}
      BY <1>5 DEF Slack, Weekend, GetDay
    <2>. HIDE DEF now, down
    <2>2. now \in 0..6 /\ down = IF now = 0 THEN 6 ELSE now - 1
      BY <1>1, <1>3 DEF now, down
    <2>. QED
      BY <2>1, <2>2
  <1>. QED
    BY <1>4, <1>5

\* The days to a date and the next one.
LEMMA OneDayMore ==
    ASSUME NEW d \in Int, NEW step \in {-1, 1}, NEW date \in Int,
           IF step = 1 THEN d <= date ELSE date <= d
    PROVE  /\ IsFiniteSet(WorkingIn(Between(d, date)))
           /\ Cardinality(WorkingIn(Between(d, date + step))) =
                Cardinality(WorkingIn(Between(d, date)))
                  + IF Weekend(date + step) THEN 0 ELSE 1
  <1>. DEFINE old == Between(d, date)
              new == Between(d, date + step)
              next == date + step
  <1>1. next \notin old /\ new = old \cup {next}
    <2>1. CASE step = 1
      <3>1. old = (d + 1)..date /\ new = (d + 1)..(date + 1) /\ next = date + 1
        BY <2>1 DEF Between
      <3>. QED
        BY <2>1, <3>1
    <2>2. CASE step = -1
      <3>1. next = date - 1 /\ new = (date - 1)..(d - 1)
        BY <2>2 DEF Between
      <3>2. old = date..(d - 1)
        BY <2>2 DEF Between
      <3>. QED
        BY <2>2, <3>1, <3>2
    <2>. QED
      BY <2>1, <2>2
  <1>2. IsFiniteSet(old)
    BY FS_Interval DEF Between
  <1>. HIDE DEF old, new, next
  <1>3. IsFiniteSet(WorkingIn(old))
    BY <1>2, FS_Subset DEF WorkingIn
  <1>4. CASE Weekend(next)
    <2>1. WorkingIn(new) = WorkingIn(old)
      BY <1>1, <1>4 DEF WorkingIn
    <2>2. Cardinality(WorkingIn(old)) \in Nat
      BY <1>3, FS_CardinalityType
    <2>. QED
      BY <1>3, <1>4, <2>1, <2>2 DEF old, new, next
  <1>5. CASE ~Weekend(next)
    <2>1. WorkingIn(new) = WorkingIn(old) \cup {next} /\ next \notin WorkingIn(old)
      BY <1>1, <1>5 DEF WorkingIn
    <2>2. Cardinality(WorkingIn(new)) = Cardinality(WorkingIn(old)) + 1
      BY <1>3, <2>1, FS_AddElement
    <2>. QED
      BY <1>3, <1>5, <2>2 DEF old, new, next
  <1>. QED
    BY <1>4, <1>5

\* One step of the walk keeps what is claimed of it.
LEMMA WalkOn ==
    ASSUME NEW d \in Int, NEW n \in Nat, NEW step \in {-1, 1}, NEW date, NEW left,
           NEW k \in Nat, Walked(d, n, step, date, left, k), left # 0
    PROVE  Walked(d, n, step, date + step,
                  left - (IF Weekend(date + step) THEN 0 ELSE 1), k + 1)
  <1>. DEFINE next == date + step
              rest == left - (IF Weekend(next) THEN 0 ELSE 1)
  <1>0. /\ date \in Int /\ left \in 1..n
        /\ IF step = 1 THEN d <= date /\ date <= d + k ELSE date <= d /\ d - k <= date
        /\ Cardinality(WorkingIn(Between(d, date))) = n - left
        /\ 2 * left + Slack(step, date) + k <= 2 * n + 2
    BY DEF Walked
  <1>1. next \in Int /\ rest \in 0..n /\ n # 0
    BY <1>0
  <1>2. /\ IF step = 1 THEN d <= next /\ next <= d + (k + 1)
                       ELSE next <= d /\ d - (k + 1) <= next
        /\ next # d
    BY <1>0
  <1>3. Cardinality(WorkingIn(Between(d, next))) = n - rest
    <2>1. date \in Int /\ (IF step = 1 THEN d <= date ELSE date <= d)
      BY <1>0
    <2>2. Cardinality(WorkingIn(Between(d, date + step))) =
            Cardinality(WorkingIn(Between(d, date)))
              + IF Weekend(date + step) THEN 0 ELSE 1
      BY <2>1, OneDayMore
    <2>. QED
      BY <1>0, <2>2
  <1>4. rest = 0 => ~Weekend(next)
    BY <1>0
  <1>5. 2 * rest + Slack(step, next) + (k + 1) <= 2 * n + 2
    <2>1. /\ Slack(step, date) \in 0..2 /\ Slack(step, next) \in 0..2
          /\ Weekend(next) => Slack(step, next) + 1 <= Slack(step, date)
          /\ Slack(step, next) <= Slack(step, date) + 1
      BY <1>0, SlackShrinks
    <2>2. rest = IF Weekend(next) THEN left ELSE left - 1
      BY <1>0
    <2>. HIDE DEF rest, next
    <2>. QED
      BY <1>0, <1>1, <2>1, <2>2
  <1>. HIDE DEF rest, next
  <1>6. Walked(d, n, step, next, rest, k + 1)
    BY <1>1, <1>2, <1>3, <1>4, <1>5 DEF Walked
  <1>. QED
    BY <1>6 DEF rest, next

\* After twice as many days and two more, enough of them were working days.
LEMMA WorkingDaysAway ==
    ASSUME NEW d \in Int, NEW n \in Int
    PROVE  LET step == IF n < 0 THEN -1 ELSE 1
           IN Walked(d, Abs(n), step, AddWorkingDays(d, n), 0, 2 * Abs(n) + 2)
  <1>. DEFINE step == IF n < 0 THEN -1 ELSE 1
              N == Abs(n)
              days == 2 * N + 2
              X == [date : Int, left : 0..N]
              Walk(a) == [date |-> a.date + step,
                          left |-> a.left - (IF Weekend(a.date + step) THEN 0 ELSE 1)]
              On(a) == IF a.left = 0 THEN a ELSE Walk(a)
              first == [date |-> d, left |-> N]
              Map(g) == [k \in 0..days |->
                           IF k = 0 THEN [date |-> d, left |-> Abs(n)]
                           ELSE IF g[k - 1].left = 0 THEN g[k - 1] ELSE Walk(g[k - 1])]
              walk == CHOOSE g : g = Map(g)
              on == [p \in Nat \X X |-> On(p[2])]
  <1>1. N \in Nat /\ (N = IF n < 0 THEN -n ELSE n) /\ step \in {-1, 1}
    <2>1. Max({n, -n}) = IF n >= -n THEN n ELSE -n
      BY MaxOfTwo
    <2>. QED
      BY <2>1 DEF Abs
  <1>2. AddWorkingDays(d, n) = walk[days].date
    BY DEF AddWorkingDays
  <1>. HIDE DEF N, step
  <1>3. first \in X /\ days \in Nat
    BY <1>1
  <1>4. ASSUME NEW a \in X PROVE On(a) \in X
    BY <1>1
  <1>5. on \in [Nat \X X -> X] /\ \A p \in Nat \X X : on[p] = On(p[2])
    BY <1>4
  <1>. HIDE DEF X, first, on, days
  <1>6. PICK f \in [0..days -> X] :
          /\ f[0] = first
          /\ \A k \in 0..days : k # 0 => f[k] = on[<<k, f[k - 1]>>]
    <2>1. Iterable(X, first, on, days)
      BY <1>3, <1>5, RecursionExists
    <2>. QED
      BY <2>1 DEF Iterable
  <1>7. f = Map(f)
    <2>1. ASSUME NEW k \in 0..days, k # 0 PROVE f[k] = On(f[k - 1])
      <3>1. k \in Nat /\ k - 1 \in 0..days
        BY <1>3, <2>1
      <3>2. f[k - 1] \in X
        BY <3>1
      <3>3. <<k, f[k - 1]>> \in Nat \X X /\ <<k, f[k - 1]>>[2] = f[k - 1]
        BY <3>1, <3>2
      <3>4. on[<<k, f[k - 1]>>] = On(f[k - 1])
        <4>. HIDE DEF On
        <4>. QED
          BY <1>5, <3>3
      <3>. QED
        BY <1>6, <2>1, <3>4
    <2>2. f[0] = [date |-> d, left |-> Abs(n)]
      BY <1>6 DEF first, N
    <2>. HIDE DEF Walk
    <2>. QED
      BY <2>1, <2>2
  <1>8. walk = Map(walk)
    <2>. HIDE DEF Map
    <2>. QED
      BY <1>7
  <1>. HIDE DEF walk
  <1>9. /\ walk[0] = first
        /\ \A k \in 0..days : k # 0 => walk[k] = On(walk[k - 1])
    <2>1. ASSUME NEW k \in 0..days
          PROVE  walk[k] = IF k = 0 THEN first ELSE On(walk[k - 1])
      <3>1. walk[k] = Map(walk)[k]
        BY <1>8
      <3>. HIDE DEF Walk
      <3>2. Map(walk)[k] = IF k = 0 THEN first ELSE On(walk[k - 1])
        BY DEF first, N
      <3>. QED
        BY <3>1, <3>2
    <2>. HIDE DEF On
    <2>. QED
      BY <1>3, <2>1
  <1>. DEFINE Is(k) == /\ walk[k] \in X
                       /\ Walked(d, N, step, walk[k].date, walk[k].left, k)
              Done(k) == /\ walk[k] \in X /\ walk[k].left = 0
                         /\ Walked(d, N, step, walk[k].date, 0, days)
              Walks == {k \in Nat : k <= days => Is(k) \/ Done(k)}
  <1>10. \A k \in 0..days : Is(k) /\ walk[k].left = 0 => Done(k)
    BY <1>1, <1>3 DEF Walked
  <1>11. 0 \in Walks
    <2>1. Walked(d, N, step, d, N, 0)
      <3>1. Between(d, d) = {}
        BY DEF Between
      <3>2. Cardinality(WorkingIn(Between(d, d))) = 0
        BY <3>1, FS_EmptySet DEF WorkingIn
      <3>3. Slack(step, d) \in 0..2
        BY <1>1, SlackShrinks
      <3>. QED
        BY <1>1, <3>2, <3>3 DEF Walked
    <2>2. walk[0].date = d /\ walk[0].left = N /\ walk[0] \in X
      BY <1>3, <1>9 DEF first
    <2>. QED
      BY <2>1, <2>2
  <1>12. ASSUME NEW k \in Walks PROVE k + 1 \in Walks
    <2>. SUFFICES ASSUME k + 1 <= days PROVE Is(k + 1) \/ Done(k + 1)
      OBVIOUS
    <2>1. k \in 0..days /\ k + 1 \in 0..days /\ (k + 1) - 1 = k /\ k + 1 # 0
      BY <1>3
    <2>2. walk[k + 1] = On(walk[k])
      <3>. HIDE DEF On
      <3>. QED
        BY <1>9, <2>1
    <2>3. Is(k) \/ Done(k)
      BY <1>3, <2>1
    <2>4. CASE walk[k].left = 0
      <3>1. Done(k) /\ walk[k + 1] = walk[k]
        BY <1>10, <2>1, <2>2, <2>3, <2>4
      <3>. QED
        BY <3>1
    <2>5. CASE walk[k].left # 0
      <3>1. Is(k) /\ walk[k + 1] = Walk(walk[k])
        BY <2>2, <2>3, <2>5
      <3>2. walk[k + 1] \in X
        BY <1>4, <2>2, <3>1
      <3>3. Walked(d, N, step, walk[k].date + step,
                   walk[k].left - (IF Weekend(walk[k].date + step) THEN 0 ELSE 1), k + 1)
        BY <1>1, <2>1, <2>5, <3>1, WalkOn
      <3>. QED
        BY <3>1, <3>2, <3>3
    <2>. QED
      BY <2>4, <2>5
  <1>13. Walks = Nat
    <2>1. Walks \in SUBSET Nat
      OBVIOUS
    <2>. HIDE DEF Walks
    <2>. QED
      BY <1>11, <1>12, <2>1, InSet
  <1>14. Done(days)
    <2>1. Is(days) \/ Done(days)
      <3>1. days \in Walks
        BY <1>3, <1>13
      <3>. QED
        BY <1>3, <3>1
    <2>2. Is(days) => walk[days].left = 0
      <3>. SUFFICES ASSUME Is(days), walk[days].left # 0 PROVE FALSE
        OBVIOUS
      <3>1. /\ walk[days].left \in 0..N
            /\ walk[days].date \in Int
            /\ 2 * walk[days].left + Slack(step, walk[days].date) + days <= 2 * N + 2
        BY DEF Walked
      <3>2. Slack(step, walk[days].date) \in 0..2
        BY <1>1, <3>1, SlackShrinks
      <3>. QED
        BY <1>1, <3>1, <3>2 DEF days
    <2>. QED
      BY <1>3, <1>10, <2>1, <2>2
  <1>. QED
    BY <1>2, <1>14 DEF days, N, step

-----------------------------------------------------------------------------
\* What each letter stands for.

\* The dates a coded date of today can be about.
LEMMA MonthsThere ==
    ASSUME NEW d \in Todays, NEW k \in Int,
           k >= -(12 * MaxNumber)
    PROVE  /\ d \in Nat /\ d >= 12 * MaxNumber + 2 /\ d >= 2 * MaxNumber + 2
           /\ MonthOf(d) \in Nat /\ MonthOf(d) + k \in Nat
  <1>1. MaxNumber \in Nat /\ d \in Nat /\ d >= 31 * (12 * MaxNumber + 2)
    BY DatesAssumption
  <1>2. MonthOf(d) \in Nat /\ d \div 31 <= MonthOf(d)
    BY <1>1, MonthIs
  <1>3. d \div 31 >= 12 * MaxNumber + 2
    BY <1>1
  <1>4. d \div 31 \in Int
    BY <1>1
  <1>. QED
    BY <1>1, <1>2, <1>3, <1>4

\* M and Y, B and L, P and F: the month, its ends, its working ends.
LEMMA MonthMeant ==
    ASSUME NEW d \in Todays, NEW k \in Int, k >= -(12 * MaxNumber)
    PROVE  LET month == SameMonthAs(d, k)
               until == AddMonths(d, k)
           IN /\ until \in Nat
              /\ until = Max({e \in month : DayOf(e) <= DayOf(d)})
              /\ FirstDateOfMonth(until) = Min(month) /\ FirstDateOfMonth(until) \in Nat
              /\ LastDateOfMonth(until) = Max(month) /\ LastDateOfMonth(until) \in Nat
              /\ FirstWorkingDate(FirstDateOfMonth(until)) = Min(WorkingIn(month))
              /\ LastWorkingDate(LastDateOfMonth(until)) = Max(WorkingIn(month))
              /\ FirstWorkingDate(FirstDateOfMonth(until)) \in Nat
              /\ LastWorkingDate(LastDateOfMonth(until)) \in Nat
  <1>. DEFINE m == MonthOf(d) + k
              first == FirstDay(m)
              last == FirstDay(m + 1) - 1
              month == SameMonthAs(d, k)
              until == AddMonths(d, k)
              day == DayOf(d)
  <1>1. d \in Nat /\ m \in Nat /\ MonthOf(d) \in Nat
    BY MonthsThere
  <1>2. /\ first \in Nat /\ last \in Nat /\ last >= first + 27 /\ last <= first + 30
        /\ last = first + DaysInMonth(m) - 1 /\ DaysInMonth(m) \in 28..31
        /\ FirstDay(m + 1) = last + 1
    <2>. HIDE DEF m
    <2>1. /\ FirstDay(m) \in Nat /\ DaysInMonth(m) \in 28..31
          /\ FirstDay(m + 1) = FirstDay(m) + DaysInMonth(m)
      BY <1>1, NextMonth
    <2>. QED
      BY <2>1
  <1>3. month = first..last
    BY <1>1 DEF SameMonthAs
  <1>4. /\ day \in Nat /\ until \in Nat /\ MonthOf(until) = m
        /\ until = first + IF day <= DaysInMonth(m) - 1 THEN day ELSE DaysInMonth(m) - 1
    BY <1>1, MonthAway
  <1>5. FirstDateOfMonth(until) = first /\ LastDateOfMonth(until) = last
    BY <1>2, <1>4 DEF FirstDateOfMonth, LastDateOfMonth
  <1>6. ASSUME NEW e \in month PROVE DayOf(e) = e - first
    <2>1. e \in Nat /\ first <= e /\ e < FirstDay(m + 1)
      <3>. HIDE DEF last
      <3>. QED
        BY <1>2, <1>3
    <2>2. MonthOf(e) = m
      BY <1>1, <2>1, OneMonth
    <2>. QED
      BY <2>2 DEF DayOf
  <1>. HIDE DEF m, first, last, month, until, day
  <1>7. Min(month) = first /\ Max(month) = last
    <2>1. month \in SUBSET Int /\ first \in month /\ last \in month
          /\ \A e \in month : first <= e /\ e <= last
      BY <1>2, <1>3
    <2>. QED
      BY <2>1, MinIs, MaxIs
  <1>8. until = Max({e \in month : DayOf(e) <= day})
    <2>. DEFINE S == {e \in month : DayOf(e) <= day}
    <2>1. S \in SUBSET Int
      BY <1>2, <1>3
    <2>2. until \in month
      BY <1>2, <1>3, <1>4
    <2>3. until \in S
      BY <1>2, <1>4, <1>6, <2>2
    <2>4. ASSUME NEW e \in S PROVE e <= until
      <3>1. e \in first..last /\ e - first <= day
        BY <1>3, <1>6
      <3>. QED
        BY <1>2, <1>4, <3>1
    <2>. HIDE DEF S
    <2>5. Max(S) = until
      BY <2>1, <2>3, <2>4, MaxIs
    <2>. QED
      BY <2>5 DEF S
  <1>9. /\ FirstWorkingDate(first) = Min(WorkingIn(month))
        /\ LastWorkingDate(last) = Max(WorkingIn(month))
        /\ FirstWorkingDate(first) \in Nat /\ LastWorkingDate(last) \in Nat
    BY <1>2, <1>3, WorkingEnds
  <1>. QED
    BY <1>2, <1>4, <1>5, <1>7, <1>8, <1>9 DEF month, until, day

\* What was decoded is what the coded date is decoded to.
DatesInv ==
    /\ today \in Todays
    /\ coded \in [number : -(MaxNumber + 1)..(MaxNumber + 1),
                  letter : Letters \union {NoLetter}]
    /\ coded.letter # NoLetter => coded.number \in -MaxNumber..MaxNumber
    /\ decoded # NoDate => /\ coded.letter # NoLetter
                           /\ decoded = GetDateDecoded(coded, today)

\* Before the first code there is no date.
LEMMA InitDates == DatesInit => DatesInv
  <1>. SUFFICES ASSUME DatesInit PROVE DatesInv
    OBVIOUS
  <1>1. MaxNumber \in Nat
    BY DatesAssumption
  <1>2. coded.number \in -MaxNumber..MaxNumber /\ coded.letter \in Letters
    BY DEF DatesInit
  <1>. QED
    BY <1>1, <1>2 DEF DatesInit, DatesInv

\* Whatever is typed, the inputs stay what the screen can send.
LEMMA NextDates ==
    ASSUME DatesInv, [DatesNext]_dateVars
    PROVE  DatesInv'
  <1>. USE DEF DatesInv
  <1>1. MaxNumber \in Nat
    BY DatesAssumption
  <1>2. CASE Decode
    <2>1. coded.letter = NoLetter => GetDateDecoded(coded, today) = NoDate
      BY DEF GetDateDecoded, NoLetter
    <2>. QED
      BY <1>2, <2>1 DEF Decode
  <1>3. CASE AddDays
    <2>1. PICK days \in {-1, 1} : coded' = AddDaysCodedDate(coded, days)
      BY <1>3 DEF AddDays
    <2>2. coded' = [number |-> coded.number + days, letter |-> NoLetter]
      BY <2>1 DEF AddDaysCodedDate
    <2>3. coded.number \in -MaxNumber..MaxNumber
      BY <1>3 DEF AddDays
    <2>4. coded.number + days \in -(MaxNumber + 1)..(MaxNumber + 1)
      BY <1>1, <2>3
    <2>. QED
      BY <1>3, <2>2, <2>4 DEF AddDays
  <1>4. CASE UNCHANGED dateVars
    BY <1>4 DEF dateVars
  <1>. QED
    BY <1>2, <1>3, <1>4 DEF DatesNext

\* What is decoded is meant, and is in the calendar.
LEMMA DecodedFrom ==
    ASSUME DatesInv, decoded # NoDate
    PROVE  DecodedIsMeant /\ decoded \in Nat
  <1>. DEFINE n == coded.number
              letter == coded.letter
              d == today
  <1>1. /\ d \in Todays /\ letter \in Letters /\ n \in -MaxNumber..MaxNumber
        /\ MaxNumber \in Nat
        /\ decoded = GetDateDecoded(coded, today)
    BY DatesAssumption DEF DatesInv
  <1>2. n \in Int /\ n >= -(12 * MaxNumber) /\ 12 * n \in Int /\ 12 * n >= -(12 * MaxNumber)
    BY <1>1
  <1>3. d \in Nat /\ d >= 12 * MaxNumber + 2 /\ d >= 2 * MaxNumber + 2
    BY <1>1, <1>2, MonthsThere
  <1>4. Abs(n) = IF n < 0 THEN -n ELSE n
    <2>1. Max({n, -n}) = IF n >= -n THEN n ELSE -n
      BY <1>2, MaxOfTwo
    <2>. QED
      BY <1>2, <2>1 DEF Abs
  <1>. DEFINE month == SameMonthAs(today, IF letter = "Y" THEN 12 * n ELSE n)
  <1>. HIDE DEF n, d
  <1>5. CASE letter = "W"
    <2>1. decoded = AddWorkingDays(d, n)
      BY <1>1, <1>5 DEF GetDateDecoded, n, d
    <2>. DEFINE step == IF n < 0 THEN -1 ELSE 1
    <2>2. Walked(d, Abs(n), step, decoded, 0, 2 * Abs(n) + 2)
      BY <1>2, <1>3, <2>1, WorkingDaysAway
    <2>3. decoded \in Int
          /\ (IF step = 1 THEN d <= decoded /\ decoded <= d + (2 * Abs(n) + 2)
                          ELSE decoded <= d /\ d - (2 * Abs(n) + 2) <= decoded)
          /\ (0 < Abs(n) => decoded # d)
          /\ Cardinality(WorkingIn(Between(d, decoded))) = Abs(n) - 0
          /\ (Abs(n) > 0 => ~Weekend(decoded))
      BY <2>2 DEF Walked
    <2>4. decoded \in Nat
      BY <1>1, <1>2, <1>3, <1>4, <2>3
    <2>5. IF n = 0 THEN decoded = d
          ELSE /\ Cardinality(WorkingIn(Between(d, decoded))) = Abs(n)
               /\ ~Weekend(decoded) /\ (n > 0) = (decoded > d)
      <3>1. CASE n = 0
        <4>1. Abs(n) = 0
          BY <1>4, <3>1
        <4>. QED
          BY <2>2, <3>1, <4>1 DEF Walked
      <3>2. CASE n # 0
        BY <1>2, <1>3, <1>4, <2>3, <3>2
      <3>. QED
        BY <3>1, <3>2
    <2>. QED
      BY <1>5, <2>4, <2>5 DEF DecodedIsMeant, n, d
  <1>6. CASE letter \in {"P", "F", "B", "L", "M"}
    <2>1. month = SameMonthAs(d, n)
      BY <1>6 DEF d
    <2>2. /\ AddMonths(d, n) \in Nat
          /\ AddMonths(d, n) = Max({e \in month : DayOf(e) <= DayOf(d)})
          /\ FirstDateOfMonth(AddMonths(d, n)) = Min(month)
          /\ FirstDateOfMonth(AddMonths(d, n)) \in Nat
          /\ LastDateOfMonth(AddMonths(d, n)) = Max(month)
          /\ LastDateOfMonth(AddMonths(d, n)) \in Nat
          /\ FirstWorkingDate(FirstDateOfMonth(AddMonths(d, n))) = Min(WorkingIn(month))
          /\ LastWorkingDate(LastDateOfMonth(AddMonths(d, n))) = Max(WorkingIn(month))
          /\ FirstWorkingDate(FirstDateOfMonth(AddMonths(d, n))) \in Nat
          /\ LastWorkingDate(LastDateOfMonth(AddMonths(d, n))) \in Nat
      BY <1>1, <1>2, <2>1, MonthMeant
    <2>3. /\ letter = "P" => decoded = FirstWorkingDate(FirstDateOfMonth(AddMonths(d, n)))
          /\ letter = "F" => decoded = LastWorkingDate(LastDateOfMonth(AddMonths(d, n)))
          /\ letter = "B" => decoded = FirstDateOfMonth(AddMonths(d, n))
          /\ letter = "L" => decoded = LastDateOfMonth(AddMonths(d, n))
          /\ letter = "M" => decoded = AddMonths(d, n)
      BY <1>1 DEF GetDateDecoded, n, d
    <2>4. decoded \in Nat
      BY <1>6, <2>2, <2>3
    <2>5. /\ letter = "P" => decoded = Min(WorkingIn(month))
          /\ letter = "F" => decoded = Max(WorkingIn(month))
          /\ letter = "B" => decoded = Min(month)
          /\ letter = "L" => decoded = Max(month)
          /\ letter = "M" => decoded = Max({e \in month : DayOf(e) <= DayOf(d)})
      BY <2>2, <2>3
    <2>. QED
      BY <1>6, <2>4, <2>5 DEF DecodedIsMeant, n, d
  <1>7. CASE letter = "Y"
    <2>1. month = SameMonthAs(d, 12 * n)
      BY <1>7 DEF d
    <2>2. AddMonths(d, 12 * n) \in Nat
          /\ AddMonths(d, 12 * n) = Max({e \in month : DayOf(e) <= DayOf(d)})
      BY <1>1, <1>2, <2>1, MonthMeant
    <2>3. decoded = AddMonths(d, 12 * n)
      BY <1>1, <1>7 DEF GetDateDecoded, n, d
    <2>. QED
      BY <1>7, <2>2, <2>3 DEF DecodedIsMeant, n, d
  <1>8. CASE letter = "D"
    <2>1. decoded = d + n
      BY <1>1, <1>8 DEF GetDateDecoded, n, d
    <2>2. decoded \in Nat /\ decoded - d = n
      BY <1>1, <1>2, <1>3, <2>1
    <2>. QED
      BY <1>8, <2>2 DEF DecodedIsMeant, n, d
  <1>. QED
    BY <1>1, <1>5, <1>6, <1>7, <1>8 DEF Letters

\* The field never holds a date before the calendar.
THEOREM DatesTyped == DatesSpec => []DatesTypeOK
  <1>1. ASSUME DatesInv PROVE DatesTypeOK
    BY <1>1, DecodedFrom DEF DatesInv, DatesTypeOK
  <1>. QED
    BY <1>1, InitDates, NextDates, PTL DEF DatesSpec

\* DecodedIsMeant: a coded date stands for what its letter says, for every day,
\* every number and every fall of the months, the leap years and the weekends.
THEOREM CodedDatesAreMeant == DatesSpec => []DecodedIsMeant
  <1>1. ASSUME DatesInv PROVE DecodedIsMeant
    <2>1. decoded = NoDate => DecodedIsMeant
      BY DEF DecodedIsMeant
    <2>. QED
      BY <1>1, <2>1, DecodedFrom
  <1>. QED
    BY <1>1, InitDates, NextDates, PTL DEF DatesSpec

-----------------------------------------------------------------------------
\* The messages.

\* Nothing is asked for before the application is launched, which happens once,
\* when its own messages are there.
LaunchedFirst ==
    /\ launched = 0 => asked = {} /\ pagename = {}
    /\ loading => launched = 0
    /\ launched = 1 => Application \in messages

\* A page counts as loaded only when its messages are there, or cannot be read.
PagesRead == pagename \subseteq messages \union misread

BundleInv ==
    /\ BundleTypeOK
    /\ LaunchedFirst
    /\ PagesRead
    /\ CalledBackWithMessages

\* Nothing is loaded or asked for at first.
LEMMA InitBundle == BundleInit => BundleInv
  BY DEF BundleInit, BundleInv, BundleTypeOK, LaunchedFirst, PagesRead, CalledBackWithMessages

\* The launch: no page was asked for before, so the messages that the load
\* replaces are none.
LEMMA OnBundleLoadInv ==
  ASSUME BundleInv, OnBundleLoad
  PROVE  BundleInv'
<1>1. launched = 0 /\ asked = {} /\ pagename = {} /\ calledBack = {}
  BY DEF BundleInv, OnBundleLoad, LaunchedFirst, BundleTypeOK
<1>2. BundleTypeOK'
  <2>1. launched' = 1
    BY <1>1 DEF OnBundleLoad, Launch
  <2>2. /\ messages' = {Application} /\ loading' = FALSE
        /\ UNCHANGED <<format, url, pagename, requests, asked, calledBack, texts, misread>>
    BY DEF OnBundleLoad, pages
  <2>3. launched' \in 0..1
    BY <2>1
  <2>4. messages' \subseteq Sources /\ loading' \in BOOLEAN
    BY <2>2 DEF Sources
  <2> QED
    BY <2>2, <2>3, <2>4 DEF BundleInv, BundleTypeOK
<1>3. LaunchedFirst' /\ PagesRead' /\ CalledBackWithMessages'
  BY <1>1 DEF OnBundleLoad, Launch, LaunchedFirst, PagesRead, CalledBackWithMessages, pages
<1> QED
  BY <1>2, <1>3 DEF BundleInv

\* The text of a component that is called back, and those of the others.
LEMMA CallBackInv ==
  ASSUME BundleInv, NEW c \in Components, NEW held, CallBack(c, held),
         launched = 1, launched' = 1, Application \in messages',
         misread \subseteq misread', PageOf[c] \in held \union misread'
  PROVE  CalledBackWithMessages'
<1>1. texts' = [texts EXCEPT ![c] = GetMsg(PageOf[c], held)]
  BY DEF CallBack, InitConfig
<1>2. texts'[c] = "the message" \/ PageOf[c] \in misread'
  BY <1>1 DEF GetMsg, BundleInv, BundleTypeOK
<1>3. ASSUME NEW d \in calledBack, d # c
      PROVE  texts'[d] = "the message" \/ PageOf[d] \in misread'
  BY <1>1, <1>3 DEF BundleInv, BundleTypeOK, CalledBackWithMessages
<1> QED
  BY <1>2, <1>3 DEF CalledBackWithMessages, CallBack

\* The texts that are added are those of a page.
LEMMA TextsTyped ==
  ASSUME BundleInv, NEW c \in Components, NEW held, CallBack(c, held)
  PROVE  texts' \in [Components -> {NoText, "the message", "undefined"}]
  BY DEF BundleInv, BundleTypeOK, CallBack, InitConfig, GetMsg

\* A component asks for the messages of its page.
LEMMA LoadPageInv ==
  ASSUME BundleInv, NEW c \in Components, LoadPage(c)
  PROVE  BundleInv'
<1>1. launched = 1
  <2>1. launched > 0
    BY DEF LoadPage
  <2>2. launched \in 0..1
    BY DEF BundleInv, BundleTypeOK
  <2> QED
    BY <2>1, <2>2
<1>2. /\ UNCHANGED <<format, url, loading, launched, messages, pagename, misread>>
      /\ asked' = asked \union {c}
  BY DEF LoadPage
<1>3. LaunchedFirst' /\ PagesRead'
  BY <1>1, <1>2 DEF BundleInv, LaunchedFirst, PagesRead
<1>4. CASE PageOf[c] \in pagename
  <2>1. CallBack(c, messages) /\ UNCHANGED requests
    BY <1>4 DEF LoadPage
  <2>2. CalledBackWithMessages'
    BY <1>1, <1>2, <1>4, <2>1, CallBackInv DEF BundleInv, LaunchedFirst, PagesRead
  <2>3. BundleTypeOK'
    BY <1>2, <2>1, TextsTyped DEF BundleInv, BundleTypeOK, CallBack
  <2> QED
    BY <1>3, <2>2, <2>3 DEF BundleInv
<1>5. CASE PageOf[c] \notin pagename
  BY <1>2, <1>3, <1>5 DEF LoadPage, BundleInv, BundleTypeOK, CalledBackWithMessages
<1> QED
  BY <1>4, <1>5

\* An answer: its messages are added before the component is called back.
LEMMA PageLoadedInv ==
  ASSUME BundleInv, NEW c \in Components, NEW wellFormed \in BOOLEAN,
         PageLoaded(c, wellFormed)
  PROVE  BundleInv'
<1>1. /\ messages' = messages \union Adds(c, wellFormed)
      /\ misread' = misread \union ({PageOf[c]} \ Adds(c, wellFormed))
      /\ pagename' = pagename \union {PageOf[c]}
      /\ requests' = requests \ {c}
      /\ UNCHANGED <<format, url, loading, launched, asked>>
      /\ CallBack(c, messages')
  BY DEF PageLoaded
<1>2. launched = 1 /\ c \in asked /\ PageOf[c] \in Pages
  <2>1. c \in asked
    BY DEF PageLoaded, BundleInv, BundleTypeOK
  <2>2. launched # 0 /\ launched \in 0..1
    BY <2>1 DEF BundleInv, BundleTypeOK, LaunchedFirst
  <2>3. PageOf[c] \in Pages
    BY PagesOpened
  <2> QED
    BY <2>1, <2>2, <2>3
<1>3. Adds(c, wellFormed) \subseteq {PageOf[c]}
  BY DEF Adds
<1>4. LaunchedFirst' /\ PagesRead'
  BY <1>1, <1>2, <1>3 DEF BundleInv, LaunchedFirst, PagesRead
<1>5. CalledBackWithMessages'
  <2>1. Application \in messages' /\ PageOf[c] \in messages' \union misread'
    BY <1>1, <1>2 DEF BundleInv, LaunchedFirst
  <2> QED
    BY <1>1, <1>2, <2>1, CallBackInv
<1>6. BundleTypeOK'
  BY <1>1, <1>2, <1>3, TextsTyped DEF BundleInv, BundleTypeOK, Sources, CallBack
<1> QED
  BY <1>4, <1>5, <1>6 DEF BundleInv

\* So every step keeps the invariant.
LEMMA NextBundle ==
  ASSUME BundleInv, [BundleNext]_bundleVars
  PROVE  BundleInv'
<1>1. CASE OnBundleLoad
  BY <1>1, OnBundleLoadInv
<1>2. CASE LoadParent
  BY <1>2 DEF LoadParent, pages, BundleInv, BundleTypeOK, LaunchedFirst, PagesRead,
              CalledBackWithMessages
<1>3. ASSUME NEW c \in Components, LoadPage(c) PROVE BundleInv'
  BY <1>3, LoadPageInv
<1>4. ASSUME NEW c \in Components, NEW wellFormed \in BOOLEAN, PageLoaded(c, wellFormed)
      PROVE  BundleInv'
  BY <1>4, PageLoadedInv
<1>5. ASSUME NEW c \in Components, PageFails(c) PROVE BundleInv'
  BY <1>5 DEF PageFails, BundleInv, BundleTypeOK, LaunchedFirst, PagesRead,
              CalledBackWithMessages
<1>6. CASE UNCHANGED bundleVars
  BY <1>6 DEF bundleVars, BundleInv, BundleTypeOK, LaunchedFirst, PagesRead,
              CalledBackWithMessages
<1> QED
  BY <1>1, <1>2, <1>3, <1>4, <1>5, <1>6 DEF BundleNext

\* A component that is called back found the messages of its page, unless they
\* could not be read, in whatever order the answers come; and the application
\* was launched before, once, with its own messages.
THEOREM MessagesBeforeCallback == BundleSpec => []CalledBackWithMessages
<1>1. BundleInv => CalledBackWithMessages
  BY DEF BundleInv
<1> QED
  BY <1>1, InitBundle, NextBundle, PTL DEF BundleSpec

\* The state of the bundle has the values its code gives it.
THEOREM BundleTypeCorrect == BundleSpec => []BundleTypeOK
<1>1. BundleInv => BundleTypeOK
  BY DEF BundleInv
<1> QED
  BY <1>1, InitBundle, NextBundle, PTL DEF BundleSpec

-----------------------------------------------------------------------------
\* The item selector.
\* What is kept of a list.

\* f[n] is what is kept of the first n records.
Sifts(f, list, chosen) ==
    /\ f[0] = <<>>
    /\ \A n \in 1..Len(list) :
         f[n] = IF list[n] \in chosen THEN Append(f[n - 1], list[n]) ELSE f[n - 1]

\* What Among keeps is the last of such a row of lists.
LEMMA AmongSifts ==
    ASSUME NEW S, NEW list \in Seq(S), NEW chosen
    PROVE  \E f \in [0..Len(list) -> Seq(S)] :
             Sifts(f, list, chosen) /\ Among(list, chosen) = f[Len(list)]
  <1>. DEFINE n == Len(list)
              X == Seq(S)
              Next1(g, k) == IF list[k] \in chosen THEN Append(g[k - 1], list[k]) ELSE g[k - 1]
              Map(g) == [k \in 0..n |-> IF k = 0 THEN <<>> ELSE Next1(g, k)]
              kept == CHOOSE g : g = Map(g)
              step == [p \in Nat \X X |->
                         IF p[1] \in 1..n /\ list[p[1]] \in chosen
                           THEN Append(p[2], list[p[1]]) ELSE p[2]]
              first == <<>>
  <1>1. n \in Nat /\ \A k \in 1..n : list[k] \in S
    BY LenProperties, ElementOfSeq
  <1>2. first \in X
    BY EmptySeq
  <1>3. ASSUME NEW x \in X, NEW k \in 1..n PROVE Append(x, list[k]) \in X
    BY <1>1, <1>3, AppendProperties
  <1>. HIDE DEF X, first
  <1>4. step \in [Nat \X X -> X]
    BY <1>3
  <1>5. \A p \in Nat \X X : p[1] \in 1..n =>
          step[p] = IF list[p[1]] \in chosen THEN Append(p[2], list[p[1]]) ELSE p[2]
    OBVIOUS
  <1>. HIDE DEF step, n
  <1>6. PICK f \in [0..n -> X] :
          /\ f[0] = first
          /\ \A k \in 0..n : k # 0 => f[k] = step[<<k, f[k - 1]>>]
    <2>1. Iterable(X, first, step, n)
      BY <1>1, <1>2, <1>4, RecursionExists
    <2>. QED
      BY <2>1 DEF Iterable
  <1>7. ASSUME NEW k \in 1..n PROVE f[k] = Next1(f, k) /\ f[k - 1] \in X
    <2>1. k \in Nat /\ k - 1 \in 0..n /\ k \in 0..n /\ k # 0
      BY <1>1
    <2>. DEFINE x == f[k - 1]
    <2>2. x \in X
      BY <2>1
    <2>. HIDE DEF x
    <2>3. step[<<k, x>>] = IF list[k] \in chosen THEN Append(x, list[k]) ELSE x
      <3>1. <<k, x>> \in Nat \X X /\ <<k, x>>[1] = k /\ <<k, x>>[2] = x
        BY <2>1, <2>2
      <3>. QED
        BY <1>5, <3>1
    <2>. QED
      BY <1>6, <2>1, <2>2, <2>3 DEF x
  <1>8. f = Map(f)
    <2>. HIDE DEF Next1
    <2>1. ASSUME NEW k \in 0..n, k # 0 PROVE f[k] = Next1(f, k)
      <3>1. k \in 1..n
        BY <1>1, <2>1
      <3>. QED
        BY <1>7, <3>1
    <2>. QED
      BY <1>6, <2>1 DEF first
  <1>9. kept = Map(kept)
    <2>. HIDE DEF Map
    <2>. QED
      BY <1>8
  <1>10. Among(list, chosen) = kept[n]
    BY DEF Among, kept, n
  <1>. HIDE DEF kept
  <1>11. ASSUME NEW k \in 0..n
         PROVE  kept[k] = IF k = 0 THEN <<>> ELSE Next1(kept, k)
    <2>1. kept[k] = Map(kept)[k]
      BY <1>9
    <2>. HIDE DEF Next1
    <2>2. Map(kept)[k] = IF k = 0 THEN <<>> ELSE Next1(kept, k)
      OBVIOUS
    <2>. QED
      BY <2>1, <2>2
  <1>12. kept[n] = f[n]
    <2>. DEFINE Same == {m \in Nat : m <= n => kept[m] = f[m]}
    <2>1. 0 \in Same
      <3>1. 0 \in 0..n
        BY <1>1
      <3>2. kept[0] = <<>>
        BY <1>11, <3>1
      <3>. QED
        BY <1>6, <3>2 DEF first
    <2>2. ASSUME NEW m \in Same PROVE m + 1 \in Same
      <3>. SUFFICES ASSUME m + 1 <= n PROVE kept[m + 1] = f[m + 1]
        OBVIOUS
      <3>1. m + 1 \in 1..n /\ m + 1 \in 0..n /\ (m + 1) - 1 = m /\ kept[m] = f[m] /\ m + 1 # 0
        BY <1>1
      <3>2. kept[m + 1] = Next1(kept, m + 1)
        BY <1>11, <3>1
      <3>. QED
        BY <1>7, <3>1, <3>2
    <2>3. Same \in SUBSET Nat
      OBVIOUS
    <2>. HIDE DEF Same
    <2>4. n \in Same
      BY <1>1, <2>1, <2>2, <2>3, InSet
    <2>. QED
      BY <1>1, <2>4 DEF Same
  <1>13. Sifts(f, list, chosen)
    BY <1>6, <1>7 DEF Sifts, first, n
  <1>. QED
    BY <1>10, <1>12, <1>13 DEF X, n

\* s is what is chosen of the first n records: h[j] is the place of its record j.
Picks(s, list, chosen, n) ==
    \E h \in [1..Len(s) -> 1..n] :
      /\ \A j \in 1..Len(s) : s[j] = list[h[j]] /\ list[h[j]] \in chosen
      /\ \A j, k \in 1..Len(s) : j < k => h[j] < h[k]
      /\ \A i \in 1..n : list[i] \in chosen => \E j \in 1..Len(s) : h[j] = i

\* One record more.
LEMMA PicksOn ==
    ASSUME NEW S, NEW list \in Seq(S), NEW chosen, NEW s \in Seq(S), NEW m \in Nat,
           m + 1 <= Len(list), Picks(s, list, chosen, m)
    PROVE  Picks(IF list[m + 1] \in chosen THEN Append(s, list[m + 1]) ELSE s,
                 list, chosen, m + 1)
  <1>1. PICK h \in [1..Len(s) -> 1..m] :
          /\ \A j \in 1..Len(s) : s[j] = list[h[j]] /\ list[h[j]] \in chosen
          /\ \A j, k \in 1..Len(s) : j < k => h[j] < h[k]
          /\ \A i \in 1..m : list[i] \in chosen => \E j \in 1..Len(s) : h[j] = i
    BY DEF Picks
  <1>2. Len(s) \in Nat /\ Len(list) \in Nat
    BY LenProperties
  <1>3. CASE list[m + 1] \notin chosen
    <2>1. h \in [1..Len(s) -> 1..(m + 1)]
      BY <1>1
    <2>2. \A i \in 1..(m + 1) : i \in 1..m \/ i = m + 1
      OBVIOUS
    <2>3. Picks(s, list, chosen, m + 1)
      BY <1>1, <1>3, <2>1, <2>2 DEF Picks
    <2>. QED
      BY <1>3, <2>3
  <1>4. CASE list[m + 1] \in chosen
    <2>. DEFINE e == list[m + 1]
                t == Append(s, e)
                g == [j \in 1..(Len(s) + 1) |-> IF j <= Len(s) THEN h[j] ELSE m + 1]
    <2>1. e \in S
      BY <1>2, ElementOfSeq
    <2>. HIDE DEF e
    <2>2. /\ Len(t) = Len(s) + 1
          /\ \A j \in 1..Len(s) : t[j] = s[j]
          /\ t[Len(s) + 1] = e
      BY <2>1, AppendProperties
    <2>. HIDE DEF t
    <2>3. /\ g \in [1..(Len(s) + 1) -> 1..(m + 1)]
          /\ \A j \in 1..Len(s) : g[j] = h[j]
          /\ g[Len(s) + 1] = m + 1
      BY <1>1, <1>2
    <2>. HIDE DEF g
    <2>4. \A j \in 1..(Len(s) + 1) : j \in 1..Len(s) \/ j = Len(s) + 1
      BY <1>2
    <2>5. \A j \in 1..Len(t) : t[j] = list[g[j]] /\ list[g[j]] \in chosen
      BY <1>1, <1>4, <2>2, <2>3, <2>4 DEF e
    <2>6. \A j, k \in 1..Len(t) : j < k => g[j] < g[k]
      <3>. SUFFICES ASSUME NEW j \in 1..Len(t), NEW k \in 1..Len(t), j < k
                    PROVE  g[j] < g[k]
        OBVIOUS
      <3>1. j \in 1..Len(s) /\ h[j] \in 1..m
        BY <1>1, <1>2, <2>2
      <3>2. CASE k \in 1..Len(s)
        BY <1>1, <2>3, <3>1, <3>2
      <3>3. CASE k = Len(s) + 1
        BY <2>3, <3>1, <3>3
      <3>. QED
        BY <2>2, <2>4, <3>2, <3>3
    <2>7. \A i \in 1..(m + 1) : list[i] \in chosen => \E j \in 1..Len(t) : g[j] = i
      <3>. SUFFICES ASSUME NEW i \in 1..(m + 1), list[i] \in chosen
                    PROVE  \E j \in 1..Len(t) : g[j] = i
        OBVIOUS
      <3>1. CASE i = m + 1
        <4>1. Len(s) + 1 \in 1..Len(t)
          BY <1>2, <2>2
        <4>. QED
          BY <2>3, <3>1, <4>1
      <3>2. CASE i # m + 1
        <4>1. i \in 1..m
          BY <3>2
        <4>2. PICK j \in 1..Len(s) : h[j] = i
          BY <1>1, <4>1
        <4>3. j \in 1..Len(t)
          BY <1>2, <2>2
        <4>. QED
          BY <2>3, <4>2, <4>3
      <3>. QED
        BY <3>1, <3>2
    <2>8. Picks(t, list, chosen, m + 1)
      BY <2>2, <2>3, <2>5, <2>6, <2>7 DEF Picks
    <2>. QED
      BY <1>4, <2>8 DEF t, e
  <1>. QED
    BY <1>3, <1>4

\* What is kept are records of the list, in its order, all that are chosen.
LEMMA AmongPicks ==
    ASSUME NEW S, NEW list \in Seq(S), NEW chosen
    PROVE  Among(list, chosen) \in Seq(S) /\ Picks(Among(list, chosen), list, chosen, Len(list))
  <1>1. PICK f \in [0..Len(list) -> Seq(S)] :
          Sifts(f, list, chosen) /\ Among(list, chosen) = f[Len(list)]
    BY AmongSifts
  <1>2. Len(list) \in Nat
    BY LenProperties
  <1>. DEFINE P == {m \in Nat : m <= Len(list) => Picks(f[m], list, chosen, m)}
  <1>3. 0 \in P
    <2>. DEFINE h == [j \in 1..0 |-> 0]
    <2>1. Len(<<>>) = 0 /\ h \in [1..0 -> 1..0]
      OBVIOUS
    <2>. HIDE DEF h
    <2>2. Picks(<<>>, list, chosen, 0)
      BY <2>1 DEF Picks
    <2>. QED
      BY <1>1, <2>2 DEF Sifts
  <1>4. ASSUME NEW m \in P PROVE m + 1 \in P
    <2>. SUFFICES ASSUME m + 1 <= Len(list) PROVE Picks(f[m + 1], list, chosen, m + 1)
      OBVIOUS
    <2>1. m + 1 \in 1..Len(list) /\ m \in 0..Len(list) /\ (m + 1) - 1 = m /\ Picks(f[m], list, chosen, m)
      BY <1>2
    <2>2. f[m + 1] = IF list[m + 1] \in chosen THEN Append(f[m], list[m + 1]) ELSE f[m]
      BY <1>1, <2>1 DEF Sifts
    <2>3. f[m] \in Seq(S)
      BY <2>1
    <2>. QED
      BY <2>1, <2>2, <2>3, PicksOn
  <1>5. P \in SUBSET Nat
    OBVIOUS
  <1>. HIDE DEF P
  <1>6. Len(list) \in P
    BY <1>2, <1>3, <1>4, <1>5, InSet
  <1>. QED
    BY <1>1, <1>2, <1>6 DEF P

\* So what is kept is in order, and has what is chosen and no more.
LEMMA AmongIs ==
    ASSUME NEW S, NEW list \in Seq(S), NEW chosen
    PROVE  /\ Among(list, chosen) \in Seq(S)
           /\ Range(Among(list, chosen)) = Range(list) \cap chosen
           /\ IsInjective(list) => IsInjective(Among(list, chosen))
  <1>. DEFINE s == Among(list, chosen)
  <1>1. s \in Seq(S) /\ Picks(s, list, chosen, Len(list))
    BY AmongPicks
  <1>. HIDE DEF s
  <1>2. PICK h \in [1..Len(s) -> 1..Len(list)] :
          /\ \A j \in 1..Len(s) : s[j] = list[h[j]] /\ list[h[j]] \in chosen
          /\ \A j, k \in 1..Len(s) : j < k => h[j] < h[k]
          /\ \A i \in 1..Len(list) : list[i] \in chosen => \E j \in 1..Len(s) : h[j] = i
    BY <1>1 DEF Picks
  <1>3. DOMAIN s = 1..Len(s) /\ DOMAIN list = 1..Len(list) /\ Len(s) \in Nat /\ Len(list) \in Nat
    BY <1>1, LenProperties
  <1>4. Range(s) = Range(list) \cap chosen
    BY <1>2, <1>3 DEF Range
  <1>5. ASSUME IsInjective(list) PROVE IsInjective(s)
    <2>. SUFFICES ASSUME NEW j \in 1..Len(s), NEW k \in 1..Len(s), s[j] = s[k]
                  PROVE  j = k
      BY <1>3 DEF IsInjective
    <2>1. h[j] = h[k] /\ h[j] \in Int
      BY <1>2, <1>3, <1>5 DEF IsInjective
    <2>2. ~(j < k) /\ ~(k < j)
      BY <1>2, <2>1
    <2>. QED
      BY <1>3, <2>2
  <1>. QED
    BY <1>1, <1>4, <1>5 DEF s

\* The records of two lists from the p-th to the q-th, and the choice of them.
Alike(l, c, m, d, p, q) ==
    /\ p <= q /\ q <= Len(l) /\ q <= Len(m)
    /\ \A k \in (p + 1)..q : l[k] = m[k] /\ (l[k] \in c <=> m[k] \in d)

\* Where two lists and two choices are alike, what is kept grows alike.
LEMMA SiftsAlike ==
    ASSUME NEW S, NEW l \in Seq(S), NEW m \in Seq(S), NEW c, NEW d,
           NEW f, NEW g, Sifts(f, l, c), Sifts(g, m, d),
           NEW p \in Nat, NEW q \in Nat, Alike(l, c, m, d, p, q), f[p] = g[p]
    PROVE  f[q] = g[q]
  <1>. USE DEF Alike
  <1>. DEFINE P == {n \in Nat : p <= n /\ n <= q => f[n] = g[n]}
  <1>1. Len(l) \in Nat /\ Len(m) \in Nat
    BY LenProperties
  <1>2. 0 \in P
    BY DEF Sifts
  <1>3. ASSUME NEW n \in P PROVE n + 1 \in P
    <2>. SUFFICES ASSUME p <= n + 1, n + 1 <= q PROVE f[n + 1] = g[n + 1]
      OBVIOUS
    <2>1. CASE p = n + 1
      BY <2>1
    <2>2. CASE p <= n
      <3>1. n + 1 \in (p + 1)..q /\ n + 1 \in 1..Len(l) /\ n + 1 \in 1..Len(m)
            /\ (n + 1) - 1 = n /\ f[n] = g[n]
        BY <1>1, <2>2
      <3>2. f[n + 1] = IF l[n + 1] \in c THEN Append(f[n], l[n + 1]) ELSE f[n]
        BY <3>1 DEF Sifts
      <3>3. g[n + 1] = IF m[n + 1] \in d THEN Append(g[n], m[n + 1]) ELSE g[n]
        BY <3>1 DEF Sifts
      <3>. QED
        BY <3>1, <3>2, <3>3
    <2>. QED
      BY <2>1, <2>2
  <1>4. P \in SUBSET Nat
    OBVIOUS
  <1>. HIDE DEF P
  <1>5. q \in P
    BY <1>2, <1>3, <1>4, InSet
  <1>. QED
    BY <1>5 DEF P

\* It does not matter what else is chosen that the list does not have.
LEMMA AmongAgrees ==
    ASSUME NEW S, NEW list \in Seq(S), NEW c, NEW d, Range(list) \cap c = Range(list) \cap d
    PROVE  Among(list, c) = Among(list, d)
  <1>1. PICK f \in [0..Len(list) -> Seq(S)] :
          Sifts(f, list, c) /\ Among(list, c) = f[Len(list)]
    BY AmongSifts
  <1>2. PICK g \in [0..Len(list) -> Seq(S)] :
          Sifts(g, list, d) /\ Among(list, d) = g[Len(list)]
    BY AmongSifts
  <1>3. Len(list) \in Nat /\ DOMAIN list = 1..Len(list)
    BY LenProperties
  <1>4. Alike(list, c, list, d, 0, Len(list))
    BY <1>3 DEF Range, Alike
  <1>5. f[0] = g[0]
    BY <1>1, <1>2 DEF Sifts
  <1>6. f[Len(list)] = g[Len(list)]
    BY <1>1, <1>2, <1>3, <1>4, <1>5, SiftsAlike
  <1>. QED
    BY <1>1, <1>2, <1>6

\* A list of chosen records is kept as it is.
LEMMA AmongAll ==
    ASSUME NEW S, NEW list \in Seq(S), NEW chosen, Range(list) \subseteq chosen
    PROVE  Among(list, chosen) = list
  <1>1. PICK f \in [0..Len(list) -> Seq(S)] :
          Sifts(f, list, chosen) /\ Among(list, chosen) = f[Len(list)]
    BY AmongSifts
  <1>2. Len(list) \in Nat /\ DOMAIN list = 1..Len(list) /\ \A k \in 1..Len(list) : list[k] \in S
    BY LenProperties, ElementOfSeq
  <1>. DEFINE Whole(n) == Len(f[n]) = n /\ \A j \in 1..n : f[n][j] = list[j]
              P == {n \in Nat : n <= Len(list) => Whole(n)}
  <1>3. 0 \in P
    BY <1>1 DEF Sifts
  <1>4. ASSUME NEW n \in P PROVE n + 1 \in P
    <2>. SUFFICES ASSUME n + 1 <= Len(list) PROVE Whole(n + 1)
      OBVIOUS
    <2>1. n + 1 \in 1..Len(list) /\ n \in 0..Len(list) /\ (n + 1) - 1 = n /\ Whole(n)
      BY <1>2
    <2>2. f[n + 1] = Append(f[n], list[n + 1])
      BY <1>1, <1>2, <2>1 DEF Sifts, Range
    <2>3. f[n] \in Seq(S) /\ list[n + 1] \in S
      BY <1>2, <2>1
    <2>4. /\ Len(f[n + 1]) = n + 1
          /\ \A j \in 1..n : f[n + 1][j] = f[n][j]
          /\ f[n + 1][n + 1] = list[n + 1]
      BY <2>1, <2>2, <2>3, AppendProperties
    <2>5. \A j \in 1..(n + 1) : j \in 1..n \/ j = n + 1
      OBVIOUS
    <2>. QED
      BY <2>1, <2>4, <2>5
  <1>5. P \in SUBSET Nat
    OBVIOUS
  <1>6. Len(list) \in P
    <2>. HIDE DEF P
    <2>. QED
      BY <1>2, <1>3, <1>4, <1>5, InSet
  <1>7. Whole(Len(list)) /\ f[Len(list)] \in Seq(S)
    BY <1>2, <1>6
  <1>8. f[Len(list)] = list
    BY <1>2, <1>7, SeqEqual
  <1>. QED
    BY <1>1, <1>8

\* All but one: that one is taken out.
LEMMA WithoutOne ==
    ASSUME NEW S, NEW list \in Seq(S), IsInjective(list), NEW p \in 1..Len(list)
    PROVE  /\ Without(list, {list[p]}) \in Seq(S)
           /\ Len(Without(list, {list[p]})) = Len(list) - 1
           /\ \A j \in 1..(Len(list) - 1) :
                Without(list, {list[p]})[j] = IF j < p THEN list[j] ELSE list[j + 1]
  <1>. DEFINE others == Range(list) \ {list[p]}
  <1>1. PICK f \in [0..Len(list) -> Seq(S)] :
          Sifts(f, list, others) /\ Among(list, others) = f[Len(list)]
    BY AmongSifts
  <1>2. Len(list) \in Nat /\ DOMAIN list = 1..Len(list) /\ \A k \in 1..Len(list) : list[k] \in S
    BY LenProperties, ElementOfSeq
  <1>3. \A k \in 1..Len(list) : list[k] \in others <=> k # p
    BY <1>2 DEF Range, IsInjective
  <1>. HIDE DEF others
  <1>. DEFINE At(n) == /\ Len(f[n]) = IF n < p THEN n ELSE n - 1
                       /\ \A j \in 1..Len(f[n]) : f[n][j] = IF j < p THEN list[j] ELSE list[j + 1]
              P == {n \in Nat : n <= Len(list) => At(n)}
  <1>4. 0 \in P
    BY <1>1 DEF Sifts
  <1>5. ASSUME NEW n \in P PROVE n + 1 \in P
    <2>. SUFFICES ASSUME n + 1 <= Len(list) PROVE At(n + 1)
      OBVIOUS
    <2>1. n + 1 \in 1..Len(list) /\ n \in 0..Len(list) /\ (n + 1) - 1 = n /\ At(n)
      BY <1>2
    <2>2. f[n + 1] = IF n + 1 # p THEN Append(f[n], list[n + 1]) ELSE f[n]
      BY <1>1, <1>3, <2>1 DEF Sifts
    <2>3. f[n] \in Seq(S) /\ list[n + 1] \in S /\ Len(f[n]) \in Nat
      BY <1>2, <2>1, LenProperties
    <2>4. CASE n + 1 = p
      BY <2>1, <2>2, <2>4
    <2>5. CASE n + 1 # p
      <3>1. /\ Len(f[n + 1]) = Len(f[n]) + 1
            /\ \A j \in 1..Len(f[n]) : f[n + 1][j] = f[n][j]
            /\ f[n + 1][Len(f[n]) + 1] = list[n + 1]
        BY <2>2, <2>3, <2>5, AppendProperties
      <3>2. \A j \in 1..(Len(f[n]) + 1) : j \in 1..Len(f[n]) \/ j = Len(f[n]) + 1
        <4>. DEFINE w == Len(f[n])
        <4>1. w \in Nat
          BY <2>3
        <4>. HIDE DEF w
        <4>2. \A j \in 1..(w + 1) : j \in 1..w \/ j = w + 1
          BY <4>1
        <4>. QED
          BY <4>2 DEF w
      <3>3. Len(f[n]) = IF n < p THEN n ELSE n - 1
        BY <2>1
      <3>4. list[n + 1] = IF Len(f[n]) + 1 < p THEN list[Len(f[n]) + 1] ELSE list[(Len(f[n]) + 1) + 1]
        BY <2>5, <3>3
      <3>5. Len(f[n + 1]) = IF n + 1 < p THEN n + 1 ELSE (n + 1) - 1
        BY <2>5, <3>1, <3>3
      <3>6. ASSUME NEW j \in 1..Len(f[n + 1])
            PROVE  f[n + 1][j] = IF j < p THEN list[j] ELSE list[j + 1]
        <4>1. CASE j \in 1..Len(f[n])
          BY <2>1, <3>1, <4>1
        <4>2. CASE j = Len(f[n]) + 1
          BY <3>1, <3>4, <4>2
        <4>. QED
          BY <3>1, <3>2, <4>1, <4>2
      <3>. QED
        BY <3>5, <3>6
    <2>. QED
      BY <2>4, <2>5
  <1>6. P \in SUBSET Nat
    OBVIOUS
  <1>7. Len(list) \in P
    <2>. HIDE DEF P
    <2>. QED
      BY <1>2, <1>4, <1>5, <1>6, InSet
  <1>8. At(Len(list)) /\ f[Len(list)] \in Seq(S)
    <2>. HIDE DEF At
    <2>. QED
      BY <1>2, <1>7
  <1>9. Without(list, {list[p]}) = f[Len(list)]
    BY <1>1 DEF Without, others
  <1>10. Len(f[Len(list)]) = Len(list) - 1
    <2>1. ~(Len(list) < p)
      BY <1>2
    <2>. QED
      BY <1>8, <2>1
  <1>. QED
    BY <1>8, <1>9, <1>10

\* What two lists differ in when two records have changed places.
Exchanged(l, m, i, j) ==
    /\ Len(m) = Len(l)
    /\ m[i] = l[j] /\ m[j] = l[i]
    /\ \A k \in 1..Len(l) : k # i /\ k # j => m[k] = l[k]

\* Two neighbours that are not both chosen change places: what is kept is the same.
LEMMA AmongSwap ==
    ASSUME NEW S, NEW l \in Seq(S), NEW m \in Seq(S), NEW c,
           NEW i \in Nat, i # 0, i + 1 <= Len(l), Exchanged(l, m, i, i + 1),
           l[i] \notin c \/ l[i + 1] \notin c
    PROVE  Among(m, c) = Among(l, c)
  <1>1. PICK f \in [0..Len(l) -> Seq(S)] : Sifts(f, l, c) /\ Among(l, c) = f[Len(l)]
    BY AmongSifts
  <1>2. PICK g \in [0..Len(m) -> Seq(S)] : Sifts(g, m, c) /\ Among(m, c) = g[Len(m)]
    BY AmongSifts
  <1>3. /\ Len(l) \in Nat /\ Len(m) = Len(l)
        /\ m[i] = l[i + 1] /\ m[i + 1] = l[i]
        /\ \A k \in 1..Len(l) : k # i /\ k # i + 1 => m[k] = l[k]
    BY LenProperties DEF Exchanged
  <1>4. g[i - 1] = f[i - 1]
    <2>. DEFINE p == i - 1
    <2>1. Alike(l, c, m, c, 0, p)
      BY <1>3 DEF Alike
    <2>2. f[0] = g[0] /\ p \in Nat
      BY <1>1, <1>2 DEF Sifts
    <2>. HIDE DEF p
    <2>3. f[p] = g[p]
      BY <1>1, <1>2, <2>1, <2>2, SiftsAlike
    <2>. QED
      BY <2>3 DEF p
  <1>5. f[i + 1] = g[i + 1]
    <2>1. i \in 1..Len(l) /\ i + 1 \in 1..Len(l) /\ (i + 1) - 1 = i
      BY <1>3
    <2>2. /\ f[i] = IF l[i] \in c THEN Append(f[i - 1], l[i]) ELSE f[i - 1]
          /\ f[i + 1] = IF l[i + 1] \in c THEN Append(f[i], l[i + 1]) ELSE f[i]
      BY <1>1, <2>1 DEF Sifts
    <2>3. /\ g[i] = IF l[i + 1] \in c THEN Append(g[i - 1], l[i + 1]) ELSE g[i - 1]
          /\ g[i + 1] = IF l[i] \in c THEN Append(g[i], l[i]) ELSE g[i]
      BY <1>2, <1>3, <2>1 DEF Sifts
    <2>. QED
      BY <1>4, <2>2, <2>3
  <1>6. f[Len(l)] = g[Len(l)]
    <2>. DEFINE p == i + 1
    <2>1. Alike(l, c, m, c, p, Len(l)) /\ p \in Nat
      BY <1>3 DEF Alike
    <2>. HIDE DEF p
    <2>2. f[p] = g[p]
      BY <1>5 DEF p
    <2>. QED
      BY <1>1, <1>2, <1>3, <2>1, <2>2, SiftsAlike
  <1>. QED
    BY <1>1, <1>2, <1>3, <1>6

\* A record of a list that is moved to its own place, or to the next one.
LEMMA MoveToIs ==
    ASSUME NEW S, NEW list \in Seq(S), IsInjective(list),
           NEW p \in 1..Len(list), NEW q \in 1..Len(list)
    PROVE  /\ MoveTo(list, list[p], q) \in Seq(S)
           /\ q = p => MoveTo(list, list[p], q) = list
           /\ q = p - 1 \/ q = p + 1 => Exchanged(list, MoveTo(list, list[p], q), p, q)
  <1>. DEFINE r == list[p]
              rest == Without(list, {r})
              new == MoveTo(list, r, q)
  <1>1. Len(list) \in Nat /\ DOMAIN list = 1..Len(list) /\ r \in S
    BY LenProperties, ElementOfSeq
  <1>2. /\ rest \in Seq(S)
        /\ Len(rest) = Len(list) - 1
        /\ \A j \in 1..(Len(list) - 1) : rest[j] = IF j < p THEN list[j] ELSE list[j + 1]
    BY WithoutOne
  <1>3. new = InsertAt(rest, q, r)
    BY DEF MoveTo, InsertAll, InsertAt
  <1>. HIDE DEF r, rest
  <1>4. q \in 1..(Len(rest) + 1)
    BY <1>1, <1>2
  <1>5. /\ InsertAt(rest, q, r) \in Seq(S)
        /\ Len(InsertAt(rest, q, r)) = Len(rest) + 1
        /\ \A j \in 1..(Len(rest) + 1) :
             InsertAt(rest, q, r)[j] =
               IF j < q THEN rest[j] ELSE IF j = q THEN r ELSE rest[j - 1]
    <2>1. rest \in Seq(S) /\ r \in S /\ q \in 1..(Len(rest) + 1)
      BY <1>1, <1>2, <1>4
    <2>. QED
      BY <2>1, InsertedAt
  <1>6. Len(rest) + 1 = Len(list)
    BY <1>1, <1>2
  <1>. HIDE DEF new
  <1>7. /\ new \in Seq(S) /\ Len(new) = Len(list)
        /\ \A j \in 1..Len(list) :
             new[j] = IF j < q THEN rest[j] ELSE IF j = q THEN r ELSE rest[j - 1]
    BY <1>1, <1>2, <1>3, <1>5, <1>6
  <1>8. \A j \in 1..Len(list) : j < q =>
          rest[j] = IF j < p THEN list[j] ELSE list[j + 1]
    BY <1>1, <1>2
  <1>9. \A j \in 1..Len(list) : j > q =>
          rest[j - 1] = IF j - 1 < p THEN list[j - 1] ELSE list[j]
    <2>. SUFFICES ASSUME NEW j \in 1..Len(list), j > q
                  PROVE  rest[j - 1] = IF j - 1 < p THEN list[j - 1] ELSE list[j]
      OBVIOUS
    <2>1. j - 1 \in 1..(Len(list) - 1) /\ (j - 1) + 1 = j
      BY <1>1
    <2>. QED
      BY <1>2, <2>1
  <1>10. ASSUME q = p PROVE new = list
    <2>1. \A j \in 1..Len(list) : new[j] = list[j]
      BY <1>7, <1>8, <1>9, <1>10 DEF r
    <2>. QED
      BY <1>7, <2>1, SeqEqual
  <1>11. ASSUME q = p - 1 \/ q = p + 1 PROVE Exchanged(list, new, p, q)
    <2>1. new[q] = r
      BY <1>7
    <2>2. new[p] = list[q]
      BY <1>7, <1>8, <1>9, <1>11
    <2>3. \A k \in 1..Len(list) : k # p /\ k # q => new[k] = list[k]
      BY <1>7, <1>8, <1>9, <1>11
    <2>. QED
      BY <1>7, <2>1, <2>2, <2>3 DEF Exchanged, r
  <1>. QED
    BY <1>7, <1>10, <1>11 DEF new, r

\* A record of a list without repetition is where it is.
LEMMA PlaceIs ==
    ASSUME NEW S, NEW list \in Seq(S), IsInjective(list), NEW p \in 1..Len(list)
    PROVE  IndexOfRecord(list, list[p]) = p
  <1>1. DOMAIN list = 1..Len(list)
    BY LenProperties
  <1>2. IndexOfRecord(list, list[p]) \in 1..Len(list)
        /\ list[IndexOfRecord(list, list[p])] = list[p]
    BY <1>1 DEF IndexOfRecord
  <1>. QED
    BY <1>1, <1>2 DEF IsInjective

\* Two records that change places leave no record out and none twice.
LEMMA ExchangeKeeps ==
    ASSUME NEW S, NEW l \in Seq(S), NEW m \in Seq(S), IsInjective(l),
           NEW i \in 1..Len(l), NEW j \in 1..Len(l), Exchanged(l, m, i, j)
    PROVE  IsInjective(m) /\ Range(m) = Range(l) /\ Exchanged(l, m, j, i)
  <1>1. DOMAIN l = 1..Len(l) /\ DOMAIN m = 1..Len(l) /\ Len(m) = Len(l)
    BY LenProperties DEF Exchanged
  <1>. DEFINE at(k) == IF k = i THEN j ELSE IF k = j THEN i ELSE k
  <1>2. \A k \in 1..Len(l) : at(k) \in 1..Len(l) /\ m[k] = l[at(k)] /\ at(at(k)) = k
    BY DEF Exchanged
  <1>3. Exchanged(l, m, j, i)
    BY DEF Exchanged
  <1>. HIDE DEF at
  <1>4. IsInjective(m)
    <2>. SUFFICES ASSUME NEW a \in 1..Len(l), NEW b \in 1..Len(l), m[a] = m[b]
                  PROVE  a = b
      BY <1>1 DEF IsInjective
    <2>1. at(a) = at(b)
      BY <1>1, <1>2 DEF IsInjective
    <2>. QED
      BY <1>2, <2>1
  <1>5. Range(m) \subseteq Range(l)
    BY <1>1, <1>2 DEF Range
  <1>6. Range(l) \subseteq Range(m)
    <2>. SUFFICES ASSUME NEW k \in 1..Len(l) PROVE \E n \in 1..Len(l) : m[n] = l[k]
      BY <1>1 DEF Range
    <2>1. m[at(k)] = l[at(at(k))] /\ at(at(k)) = k /\ at(k) \in 1..Len(l)
      BY <1>2
    <2>. QED
      BY <2>1
  <1>. QED
    BY <1>3, <1>4, <1>5, <1>6

-----------------------------------------------------------------------------
\* The buttons up and down.

\* In a move by step, place i comes before place j.
Nearer(i, j, step) == IF step = -1 THEN i < j ELSE j < i

\* The chosen records in the order in which they move, and their places.
Route(list, sel, step, chosen, h) ==
    /\ h \in [1..Len(chosen) -> 1..Len(list)]
    /\ \A j \in 1..Len(chosen) : chosen[j] = list[h[j]] /\ list[h[j]] \in sel
    /\ \A j, k \in 1..Len(chosen) : j < k => Nearer(h[j], h[k], step)
    /\ \A i \in 1..Len(list) : list[i] \in sel => \E j \in 1..Len(chosen) : h[j] = i

\* How far the record at place i moves.
Shift(list, sel, step, i) ==
    IF \A j \in 1..Len(list) : Nearer(j, i, step) => list[j] \in sel THEN 0 ELSE step

\* The list when n of the chosen have moved: they are where they should be, the
\* places after theirs are as they were, and the next one finds room.
Permuted(S, list, sel, now) ==
    /\ now \in Seq(S) /\ Len(now) = Len(list)
    /\ IsInjective(now) /\ Range(now) = Range(list)
    /\ Among(now, sel) = Among(list, sel)
    /\ Without(now, sel) = Without(list, sel)

Halfway(list, sel, step, h, start, n, now, index) ==
    /\ index \in Int
    /\ \A j \in 1..n : /\ h[j] + Shift(list, sel, step, h[j]) \in 1..Len(list)
                       /\ now[h[j] + Shift(list, sel, step, h[j])] = list[h[j]]
    /\ \A i \in 1..Len(list) : (n > 0 => Nearer(h[n], i, step)) => now[i] = list[i]
    /\ n = 0 => index = start
    /\ n > 0 => /\ index = h[n] + Shift(list, sel, step, h[n]) - step
                /\ Shift(list, sel, step, h[n]) # 0 => now[h[n]] \notin sel

\* Where the loop begins.
Start(list, step) == IF step = -1 THEN 1 ELSE Len(list)

\* The record at place p goes where it should.
FindsRoom(list, sel, step, now, index, p, r) ==
    LET d == Shift(list, sel, step, p)
    IN /\ p \in 1..Len(list) /\ p + d \in 1..Len(list) /\ d \in {0, step}
       /\ now[p] = list[p] /\ r = list[p] /\ list[p] \in sel
       /\ d # 0 => now[p + d] \notin sel
       /\ p + d = IF step = -1 THEN Max({index, p + step}) ELSE Min({index, p + step})

\* The next chosen record goes where it should: by one place, if a place before it
\* is not of a chosen one, and there the one before has left room.
LEMMA NextPlace ==
    ASSUME NEW S, NEW list \in Seq(S), NEW sel, NEW step \in {-1, 1}, NEW chosen \in Seq(S),
           NEW h, Route(list, sel, step, chosen, h),
           NEW n \in Nat, n + 1 <= Len(chosen), NEW now, Permuted(S, list, sel, now),
           NEW index, Halfway(list, sel, step, h, Start(list, step), n, now, index)
    PROVE  FindsRoom(list, sel, step, now, index, h[n + 1], chosen[n + 1])
  <1>. DEFINE p == h[n + 1]
              d == Shift(list, sel, step, p)
  <1>1. /\ n + 1 \in 1..Len(chosen) /\ Len(chosen) \in Nat /\ Len(list) \in Nat
        /\ index \in Int
    BY LenProperties DEF Halfway
  <1>2. p \in 1..Len(list) /\ chosen[n + 1] = list[p] /\ list[p] \in sel
    BY <1>1 DEF Route
  <1>3. d \in {0, step}
    BY DEF Shift
  <1>4. n > 0 => h[n] \in 1..Len(list) /\ Nearer(h[n], p, step)
    <2>. SUFFICES ASSUME n > 0 PROVE h[n] \in 1..Len(list) /\ Nearer(h[n], p, step)
      OBVIOUS
    <2>1. n \in 1..Len(chosen) /\ n < n + 1
      BY <1>1
    <2>. QED
      BY <1>1, <2>1 DEF Route
  <1>5. now[p] = list[p]
    BY <1>2, <1>4 DEF Halfway
  <1>6. \A i \in 1..Len(list) : Nearer(i, p, step) /\ (n > 0 => Nearer(h[n], i, step))
                                  => list[i] \notin sel /\ now[i] = list[i]
    <2>. SUFFICES ASSUME NEW i \in 1..Len(list), Nearer(i, p, step),
                         n > 0 => Nearer(h[n], i, step), list[i] \in sel
                  PROVE  FALSE
      BY DEF Halfway
    <2>1. PICK j \in 1..Len(chosen) : h[j] = i
      BY DEF Route
    <2>2. j \in Nat /\ (j < n \/ j = n \/ j = n + 1 \/ n + 1 < j)
      OBVIOUS
    <2>3. CASE j < n
      <3>1. n \in 1..Len(chosen) /\ n > 0
        BY <1>1, <2>3
      <3>2. Nearer(h[j], h[n], step)
        BY <2>1, <2>3, <3>1 DEF Route
      <3>. QED
        BY <1>4, <2>1, <3>1, <3>2 DEF Nearer
    <2>4. CASE j = n
      BY <1>4, <2>1, <2>4 DEF Nearer
    <2>5. CASE j = n + 1
      BY <1>2, <2>1, <2>5 DEF Nearer
    <2>6. CASE n + 1 < j
      <3>1. Nearer(h[n + 1], h[j], step)
        BY <1>1, <2>1, <2>6 DEF Route
      <3>. QED
        BY <1>2, <2>1, <3>1 DEF Nearer
    <2>. QED
      BY <2>2, <2>3, <2>4, <2>5, <2>6
  <1>. DEFINE to1 == p + step
              at == IF step = -1 THEN Max({index, to1}) ELSE Min({index, to1})
  <1>7. at = IF step = -1 THEN (IF index >= to1 THEN index ELSE to1)
                          ELSE (IF index <= to1 THEN index ELSE to1)
    <2>1. to1 \in Int
      BY <1>2
    <2>. HIDE DEF to1
    <2>. QED
      BY <1>1, <2>1, MaxOfTwo, MinOfTwo
  <1>. HIDE DEF at
  \* It moves if there is a place before it that is not of a chosen one.
  <1>8. ASSUME NEW i \in 1..Len(list), Nearer(i, p, step), list[i] \notin sel
        PROVE  d = step
    BY <1>8 DEF Shift
  <1>9. ASSUME to1 \in 1..Len(list), list[to1] \notin sel PROVE d = step
    <2>1. Nearer(to1, p, step)
      BY <1>2 DEF Nearer
    <2>. QED
      BY <1>8, <1>9, <2>1
  <1>. DEFINE Good == p + d \in 1..Len(list) /\ (d # 0 => now[p + d] \notin sel) /\ p + d = at
  <1>10. ASSUME n = 0 PROVE Good
    <2>1. index = Start(list, step)
      BY <1>10 DEF Halfway
    <2>2. CASE p = Start(list, step)
      <3>1. d = 0
        BY <1>2, <2>2 DEF Shift, Nearer, Start
      <3>. QED
        BY <1>2, <1>7, <2>1, <2>2, <3>1
    <2>3. CASE p # Start(list, step)
      <3>1. to1 \in 1..Len(list)
        BY <1>1, <1>2, <2>3 DEF Start
      <3>2. Nearer(to1, p, step)
        BY <1>2 DEF Nearer
      <3>3. list[to1] \notin sel /\ now[to1] = list[to1]
        BY <1>6, <1>10, <3>1, <3>2
      <3>4. d = step
        BY <1>9, <3>1, <3>3
      <3>5. at = to1
        BY <1>1, <1>2, <1>7, <2>1, <3>1 DEF Start
      <3>. QED
        BY <3>1, <3>3, <3>4, <3>5
    <2>. QED
      BY <2>2, <2>3
  <1>11. ASSUME n > 0 PROVE Good
    <2>. DEFINE q == h[n]
                e == Shift(list, sel, step, q)
    <2>1. q \in 1..Len(list) /\ Nearer(q, p, step) /\ e \in {0, step}
      BY <1>4, <1>11 DEF Shift
    <2>2. index = q + e - step /\ (e # 0 => now[q] \notin sel)
      BY <1>11 DEF Halfway
    <2>3. to1 \in 1..Len(list)
      BY <1>1, <1>2, <2>1 DEF Nearer
    <2>4. CASE to1 = q /\ e = 0
      <3>1. \A i \in 1..Len(list) : Nearer(i, q, step) => list[i] \in sel
        BY <2>4 DEF Shift
      <3>2. list[q] \in sel
        <4>1. n \in 1..Len(chosen)
          BY <1>1, <1>11
        <4>. QED
          BY <4>1 DEF Route
      <3>3. \A i \in 1..Len(list) : Nearer(i, p, step) => Nearer(i, q, step) \/ i = q
        BY <1>2, <2>1, <2>4 DEF Nearer
      <3>4. d = 0
        BY <3>1, <3>2, <3>3 DEF Shift
      <3>5. at = p
        BY <1>2, <1>7, <2>1, <2>2, <2>4
      <3>. QED
        BY <1>2, <3>4, <3>5
    <2>5. CASE to1 = q /\ e # 0
      <3>1. now[to1] \notin sel
        BY <2>2, <2>5
      <3>2. d = step
        <4>1. PICK i \in 1..Len(list) : Nearer(i, q, step) /\ list[i] \notin sel
          BY <2>5 DEF Shift
        <4>2. Nearer(i, p, step)
          BY <1>2, <2>1, <4>1 DEF Nearer
        <4>. QED
          BY <1>8, <4>1, <4>2
      <3>3. at = to1
        BY <1>2, <1>7, <2>1, <2>2, <2>5
      <3>. QED
        BY <2>3, <3>1, <3>2, <3>3
    <2>6. CASE to1 # q
      <3>1. Nearer(to1, p, step) /\ Nearer(q, to1, step)
        BY <1>2, <2>1, <2>6 DEF Nearer
      <3>2. list[to1] \notin sel /\ now[to1] = list[to1]
        BY <1>6, <2>3, <3>1
      <3>3. d = step
        BY <1>9, <2>3, <3>2
      <3>4. at = to1
        <4>1. p \in Int /\ q \in Int /\ e \in {0, step} /\ index = q + e - step
          BY <1>2, <2>1, <2>2
        <4>2. IF step = -1 THEN q < p /\ p - 1 # q ELSE p < q /\ p + 1 # q
          BY <2>1, <2>6 DEF Nearer
        <4>. HIDE DEF p, q, e
        <4>3. CASE step = -1
          BY <1>7, <4>1, <4>2, <4>3
        <4>4. CASE step = 1
          BY <1>7, <4>1, <4>2, <4>4
        <4>. QED
          BY <4>3, <4>4
      <3>. QED
        BY <2>3, <3>2, <3>3, <3>4
    <2>. QED
      BY <2>4, <2>5, <2>6
  <1>. QED
    BY <1>2, <1>3, <1>5, <1>10, <1>11 DEF at, FindsRoom

\* The lists are permutations: of as many records, the same ones, none twice.
LEMMA SwapPermutes ==
    ASSUME NEW S, NEW list \in Seq(S), NEW sel, NEW now, Permuted(S, list, sel, now),
           NEW new \in Seq(S), NEW p \in 1..Len(list), NEW q \in 1..Len(list),
           q = p - 1 \/ q = p + 1, Exchanged(now, new, p, q),
           now[p] \in sel, now[q] \notin sel
    PROVE  Permuted(S, list, sel, new)
  <1>1. now \in Seq(S) /\ Len(now) = Len(list) /\ IsInjective(now)
        /\ Len(list) \in Nat
        /\ DOMAIN now = 1..Len(list)
    BY LenProperties DEF Permuted
  <1>2. IsInjective(new) /\ Range(new) = Range(now) /\ Exchanged(now, new, q, p)
    BY <1>1, ExchangeKeeps
  <1>3. Len(new) = Len(list)
    BY <1>1 DEF Exchanged
  <1>4. ASSUME NEW c, now[p] \notin c \/ now[q] \notin c PROVE Among(new, c) = Among(now, c)
    <2>1. CASE q = p + 1
      <3>1. p \in Nat /\ p # 0 /\ p + 1 <= Len(now) /\ Exchanged(now, new, p, p + 1)
        BY <1>1, <2>1
      <3>2. now[p] \notin c \/ now[p + 1] \notin c
        BY <1>4, <2>1
      <3>. QED
        BY <1>1, <3>1, <3>2, AmongSwap
    <2>2. CASE q = p - 1
      <3>1. q \in Nat /\ q # 0 /\ q + 1 <= Len(now) /\ q + 1 = p
        BY <1>1, <2>2
      <3>2. Exchanged(now, new, q, q + 1)
        BY <1>2, <3>1
      <3>3. now[q] \notin c \/ now[q + 1] \notin c
        BY <1>4, <3>1
      <3>. QED
        BY <1>1, <3>1, <3>2, <3>3, AmongSwap
    <2>. QED
      BY <2>1, <2>2
  <1>5. Among(new, sel) = Among(list, sel)
    BY <1>4 DEF Permuted
  <1>6. Without(new, sel) = Without(list, sel)
    <2>1. now[p] \notin Range(now) \ sel
      OBVIOUS
    <2>2. Among(new, Range(now) \ sel) = Among(now, Range(now) \ sel)
      BY <1>4, <2>1
    <2>. QED
      BY <1>2, <2>2 DEF Without, Permuted
  <1>. QED
    BY <1>2, <1>3, <1>5, <1>6 DEF Permuted

\* A turn of the loop.
LEMMA MoveOneKeeps ==
    ASSUME NEW S, NEW list \in Seq(S), IsInjective(list), NEW sel, NEW step \in {-1, 1},
           NEW chosen \in Seq(S), NEW h, Route(list, sel, step, chosen, h),
           NEW n \in Nat, n + 1 <= Len(chosen),
           NEW a, Permuted(S, list, sel, a.list),
           Halfway(list, sel, step, h, Start(list, step), n, a.list, a.index)
    PROVE  /\ Permuted(S, list, sel, MoveOne(a, chosen[n + 1], step).list)
           /\ Halfway(list, sel, step, h, Start(list, step), n + 1,
                      MoveOne(a, chosen[n + 1], step).list,
                      MoveOne(a, chosen[n + 1], step).index)
  <1>. DEFINE now == a.list
              index == a.index
              p == h[n + 1]
              d == Shift(list, sel, step, p)
              new == MoveTo(now, list[p], p + d)
  <1>1. /\ p \in 1..Len(list) /\ p + d \in 1..Len(list) /\ d \in {0, step}
        /\ now[p] = list[p] /\ chosen[n + 1] = list[p] /\ list[p] \in sel
        /\ d # 0 => now[p + d] \notin sel
        /\ p + d = IF step = -1 THEN Max({index, p + step}) ELSE Min({index, p + step})
    <2>1. FindsRoom(list, sel, step, now, index, h[n + 1], chosen[n + 1])
      <3>. HIDE DEF now, index
      <3>1. Permuted(S, list, sel, now) /\ Halfway(list, sel, step, h, Start(list, step), n, now, index)
        BY DEF now, index
      <3>. QED
        BY <3>1, NextPlace
    <2>. QED
      BY <2>1 DEF FindsRoom
  <1>2. now \in Seq(S) /\ Len(now) = Len(list) /\ IsInjective(now) /\ Len(list) \in Nat
    BY LenProperties DEF Permuted
  <1>3. IndexOfRecord(now, list[p]) = p
    BY <1>1, <1>2, PlaceIs
  <1>4. /\ MoveOne(a, chosen[n + 1], step).list = new
        /\ MoveOne(a, chosen[n + 1], step).index = p + d - step
    BY <1>1, <1>3 DEF MoveOne
  <1>. HIDE DEF now, index, p, d
  <1>5. /\ MoveTo(now, now[p], p + d) \in Seq(S)
        /\ p + d = p => MoveTo(now, now[p], p + d) = now
        /\ p + d = p - 1 \/ p + d = p + 1 => Exchanged(now, MoveTo(now, now[p], p + d), p, p + d)
    <2>. DEFINE q == p + d
    <2>1. q \in 1..Len(now) /\ p \in 1..Len(now)
      BY <1>1, <1>2
    <2>. HIDE DEF q
    <2>2. /\ MoveTo(now, now[p], q) \in Seq(S)
          /\ q = p => MoveTo(now, now[p], q) = now
          /\ q = p - 1 \/ q = p + 1 => Exchanged(now, MoveTo(now, now[p], q), p, q)
      BY <1>2, <2>1, MoveToIs
    <2>. QED
      BY <2>2 DEF q
  <1>6. /\ new \in Seq(S)
        /\ d = 0 => new = now
        /\ d # 0 => Exchanged(now, new, p, p + d)
    BY <1>1, <1>5
  <1>. HIDE DEF new
  <1>7. Permuted(S, list, sel, new)
    <2>1. CASE d = 0
      BY <1>6, <2>1 DEF now
    <2>2. CASE d # 0
      <3>. DEFINE q == p + d
      <3>1. q \in 1..Len(list) /\ (q = p - 1 \/ q = p + 1) /\ now[q] \notin sel
            /\ now[p] \in sel /\ Exchanged(now, new, p, q)
        BY <1>1, <1>6, <2>2
      <3>. HIDE DEF q
      <3>2. Permuted(S, list, sel, now)
        BY DEF now
      <3>. QED
        BY <1>1, <1>6, <3>1, <3>2, SwapPermutes
    <2>. QED
      BY <2>1, <2>2
  <1>8. Halfway(list, sel, step, h, Start(list, step), n, now, index)
    BY DEF now, index
  <1>9. \A i \in 1..Len(list) : i # p /\ i # p + d => new[i] = now[i]
    BY <1>2, <1>6 DEF Exchanged
  <1>10. new[p + d] = list[p]
    BY <1>1, <1>6 DEF Exchanged
  <1>11. ASSUME NEW j \in 1..(n + 1)
         PROVE  /\ h[j] + Shift(list, sel, step, h[j]) \in 1..Len(list)
                /\ new[h[j] + Shift(list, sel, step, h[j])] = list[h[j]]
    <2>1. CASE j = n + 1
      BY <1>1, <1>10, <2>1 DEF p, d
    <2>2. CASE j # n + 1
      <3>. DEFINE q == h[j] + Shift(list, sel, step, h[j])
      <3>1. j \in 1..n /\ j \in 1..Len(chosen) /\ n + 1 \in 1..Len(chosen) /\ j < n + 1
        BY <2>2, LenProperties
      <3>2. q \in 1..Len(list) /\ now[q] = list[h[j]]
        BY <1>8, <3>1 DEF Halfway
      <3>3. list[h[j]] \in sel /\ h[j] \in 1..Len(list) /\ h[j] # p
        BY <3>1 DEF Route, Nearer, p
      <3>4. list[h[j]] # list[p]
        <4>1. DOMAIN list = 1..Len(list)
          BY LenProperties
        <4>. QED
          BY <1>1, <3>3, <4>1 DEF IsInjective
      <3>5. q # p
        BY <1>1, <3>2, <3>4
      <3>6. CASE d = 0
        BY <1>6, <3>2, <3>6
      <3>7. CASE d # 0
        <4>1. q # p + d
          BY <1>1, <3>2, <3>3, <3>7
        <4>. QED
          BY <1>9, <3>2, <3>5, <4>1
      <3>. QED
        BY <3>6, <3>7
    <2>. QED
      BY <2>1, <2>2
  <1>12. ASSUME NEW i \in 1..Len(list), Nearer(h[n + 1], i, step)
         PROVE  new[i] = list[i]
    <2>1. i # p /\ i # p + d
      BY <1>1, <1>12 DEF Nearer, p
    <2>2. n > 0 => Nearer(h[n], i, step)
      <3>. SUFFICES ASSUME n > 0 PROVE Nearer(h[n], i, step)
        OBVIOUS
      <3>1. n \in 1..Len(chosen) /\ n + 1 \in 1..Len(chosen) /\ n < n + 1
        BY LenProperties
      <3>2. Nearer(h[n], h[n + 1], step) /\ h[n] \in 1..Len(list) /\ h[n + 1] \in 1..Len(list)
        BY <3>1 DEF Route
      <3>. QED
        BY <1>12, <3>2 DEF Nearer
    <2>3. now[i] = list[i]
      BY <1>8, <2>2 DEF Halfway
    <2>. QED
      BY <1>9, <2>1, <2>3
  <1>13. d # 0 => new[p] \notin sel
    BY <1>1, <1>6 DEF Exchanged
  <1>14. Halfway(list, sel, step, h, Start(list, step), n + 1, new, p + d - step)
    <2>1. p + d - step \in Int /\ n + 1 > 0
      BY <1>1
    <2>. QED
      BY <1>11, <1>12, <1>13, <2>1 DEF Halfway, p, d
  <1>. QED
    BY <1>4, <1>7, <1>14

\* The list when all the chosen have moved.
Rearranged(S, list, sel, step, now) ==
    /\ Permuted(S, list, sel, now)
    /\ \A i \in 1..Len(list) : list[i] \in sel =>
         IndexOfRecord(now, list[i]) = i + Shift(list, sel, step, i)

\* When the loop has ended, all the chosen records are where they should be.
LEMMA MovedIs ==
    ASSUME NEW S, NEW list \in Seq(S), IsInjective(list), NEW sel, NEW step \in {-1, 1},
           NEW chosen \in Seq(S), NEW h, Route(list, sel, step, chosen, h)
    PROVE  Rearranged(S, list, sel, step, Moved(list, chosen, Start(list, step), step))
  <1>. DEFINE n == Len(chosen)
              X == [list : Seq(S), index : Int]
              first == [list |-> list, index |-> Start(list, step)]
              Next1(g, k) == MoveOne(g[k - 1], chosen[k], step)
              Map(g) == [k \in 0..n |-> IF k = 0 THEN first ELSE Next1(g, k)]
              moved == CHOOSE g : g = Map(g)
              turn == [p \in Nat \X X |->
                         IF p[1] \in 1..n /\ MoveOne(p[2], chosen[p[1]], step) \in X
                           THEN MoveOne(p[2], chosen[p[1]], step) ELSE p[2]]
              Good(m, a) == /\ Permuted(S, list, sel, a.list)
                            /\ Halfway(list, sel, step, h, Start(list, step), m, a.list, a.index)
  <1>1. n \in Nat /\ Len(list) \in Nat /\ DOMAIN list = 1..Len(list)
    BY LenProperties
  <1>2. first \in X /\ first.list = list /\ first.index = Start(list, step)
    BY <1>1 DEF Start
  <1>3. Good(0, first)
    <2>1. Permuted(S, list, sel, list)
      BY DEF Permuted
    <2>2. Halfway(list, sel, step, h, Start(list, step), 0, list, Start(list, step))
      BY <1>1 DEF Halfway, Start
    <2>. QED
      BY <1>2, <2>1, <2>2
  <1>4. ASSUME NEW m \in Nat, m + 1 <= n, NEW a, Good(m, a)
        PROVE  /\ MoveOne(a, chosen[m + 1], step) \in X
               /\ Good(m + 1, MoveOne(a, chosen[m + 1], step))
    <2>. DEFINE b == MoveOne(a, chosen[m + 1], step)
    <2>1. b = [list |-> b.list, index |-> b.index]
      BY DEF MoveOne
    <2>. HIDE DEF b
    <2>2. Permuted(S, list, sel, b.list)
          /\ Halfway(list, sel, step, h, Start(list, step), m + 1, b.list, b.index)
      BY <1>4, MoveOneKeeps DEF b
    <2>3. b.list \in Seq(S) /\ b.index \in Int
      BY <2>2 DEF Permuted, Halfway
    <2>4. b \in X
      BY <2>1, <2>3
    <2>. QED
      BY <2>2, <2>4 DEF b
  <1>. HIDE DEF X, first, Good, n
  <1>5. turn \in [Nat \X X -> X]
    OBVIOUS
  <1>6. \A p \in Nat \X X : p[1] \in 1..n /\ MoveOne(p[2], chosen[p[1]], step) \in X =>
          turn[p] = MoveOne(p[2], chosen[p[1]], step)
    OBVIOUS
  <1>. HIDE DEF turn
  <1>7. PICK f \in [0..n -> X] :
          /\ f[0] = first
          /\ \A k \in 0..n : k # 0 => f[k] = turn[<<k, f[k - 1]>>]
    <2>1. Iterable(X, first, turn, n)
      BY <1>1, <1>2, <1>5, RecursionExists
    <2>. QED
      BY <2>1 DEF Iterable
  <1>8. ASSUME NEW m \in 0..n, m + 1 <= n, Good(m, f[m])
        PROVE  f[m + 1] = Next1(f, m + 1) /\ Good(m + 1, f[m + 1])
    <2>. DEFINE a == f[m]
                k == m + 1
    <2>1. m \in Nat /\ k \in 0..n /\ k # 0 /\ k \in 1..n /\ k \in Nat /\ k - 1 = m /\ a \in X
      BY <1>1, <1>8
    <2>2. MoveOne(a, chosen[k], step) \in X /\ Good(k, MoveOne(a, chosen[k], step))
      BY <1>4, <1>8, <2>1 DEF n
    <2>3. f[k] = turn[<<k, a>>]
      BY <1>7, <2>1
    <2>. HIDE DEF a, k
    <2>4. turn[<<k, a>>] = MoveOne(a, chosen[k], step)
      <3>1. <<k, a>> \in Nat \X X /\ <<k, a>>[1] = k /\ <<k, a>>[2] = a
        BY <2>1
      <3>. QED
        BY <1>6, <2>1, <2>2, <3>1
    <2>5. f[k] = MoveOne(f[k - 1], chosen[k], step) /\ Good(k, f[k])
      BY <2>1, <2>2, <2>3, <2>4 DEF a
    <2>. QED
      BY <2>5 DEF k
  <1>9. \A m \in 0..n : Good(m, f[m])
    <2>. DEFINE P == {m \in Nat : m <= n => Good(m, f[m])}
    <2>1. 0 \in P
      BY <1>3, <1>7
    <2>2. ASSUME NEW m \in P PROVE m + 1 \in P
      <3>. SUFFICES ASSUME m + 1 <= n PROVE Good(m + 1, f[m + 1])
        OBVIOUS
      <3>1. m \in 0..n /\ Good(m, f[m])
        BY <1>1
      <3>. QED
        BY <1>8, <3>1
    <2>3. P \in SUBSET Nat
      OBVIOUS
    <2>4. P = Nat
      <3>. HIDE DEF P
      <3>. QED
        BY <2>1, <2>2, <2>3, InSet
    <2>5. \A m \in 0..n : m \in P
      BY <1>1, <2>4
    <2>. QED
      BY <1>1, <2>5
  <1>10. \A k \in 1..n : f[k] = Next1(f, k)
    <2>. HIDE DEF Next1
    <2>. SUFFICES ASSUME NEW k \in 1..n PROVE f[k] = Next1(f, k)
      OBVIOUS
    <2>1. k - 1 \in 0..n /\ (k - 1) + 1 <= n /\ (k - 1) + 1 = k
      BY <1>1
    <2>2. f[(k - 1) + 1] = Next1(f, (k - 1) + 1)
      BY <1>8, <1>9, <2>1
    <2>. QED
      BY <2>1, <2>2
  <1>11. f = Map(f)
    <2>. HIDE DEF Next1
    <2>1. \A k \in 0..n : f[k] = IF k = 0 THEN first ELSE Next1(f, k)
      <3>1. \A k \in 0..n : k = 0 \/ k \in 1..n
        BY <1>1
      <3>. QED
        BY <1>7, <1>10, <3>1
    <2>. QED
      BY <1>7, <2>1
  <1>12. moved = Map(moved)
    <2>. HIDE DEF Map
    <2>. QED
      BY <1>11
  <1>13. Moved(list, chosen, Start(list, step), step) = moved[n].list
    BY DEF Moved, moved, n, first
  <1>. HIDE DEF moved
  <1>14. ASSUME NEW k \in 0..n
         PROVE  moved[k] = IF k = 0 THEN first ELSE Next1(moved, k)
    <2>1. moved[k] = Map(moved)[k]
      BY <1>12
    <2>. HIDE DEF Next1
    <2>2. Map(moved)[k] = IF k = 0 THEN first ELSE Next1(moved, k)
      OBVIOUS
    <2>. QED
      BY <2>1, <2>2
  <1>15. moved[n] = f[n]
    <2>. DEFINE Same == {m \in Nat : m <= n => moved[m] = f[m]}
    <2>1. 0 \in Same
      BY <1>1, <1>7, <1>14
    <2>2. ASSUME NEW m \in Same PROVE m + 1 \in Same
      <3>. SUFFICES ASSUME m + 1 <= n PROVE moved[m + 1] = f[m + 1]
        OBVIOUS
      <3>1. m + 1 \in 1..n /\ m + 1 \in 0..n /\ (m + 1) - 1 = m /\ moved[m] = f[m] /\ m + 1 # 0
        BY <1>1
      <3>2. moved[m + 1] = Next1(moved, m + 1)
        BY <1>14, <3>1
      <3>. QED
        BY <1>10, <3>1, <3>2
    <2>3. Same \in SUBSET Nat
      OBVIOUS
    <2>. HIDE DEF Same
    <2>4. n \in Same
      BY <1>1, <2>1, <2>2, <2>3, InSet
    <2>. QED
      BY <1>1, <2>4 DEF Same
  <1>16. Good(n, f[n])
    BY <1>1, <1>9
  <1>. DEFINE now == f[n].list
  <1>17. Permuted(S, list, sel, now)
    BY <1>16 DEF Good
  <1>18. ASSUME NEW i \in 1..Len(list), list[i] \in sel
         PROVE  IndexOfRecord(now, list[i]) = i + Shift(list, sel, step, i)
    <2>1. PICK j \in 1..n : h[j] = i
      BY <1>18 DEF Route, n
    <2>. DEFINE q == i + Shift(list, sel, step, i)
    <2>2. q \in 1..Len(list) /\ now[q] = list[i]
      BY <1>16, <2>1 DEF Good, Halfway
    <2>3. now \in Seq(S) /\ IsInjective(now) /\ Len(now) = Len(list)
      BY <1>17 DEF Permuted
    <2>. HIDE DEF q, now
    <2>4. IndexOfRecord(now, now[q]) = q
      BY <2>2, <2>3, PlaceIs
    <2>. QED
      BY <2>2, <2>4 DEF q
  <1>. QED
    BY <1>13, <1>15, <1>17, <1>18 DEF Rearranged

\* The chosen records, from the first or from the last, are such a route.
LEMMA RoutesExist ==
    ASSUME NEW S, NEW list \in Seq(S), NEW sel
    PROVE  /\ Selections(list, sel) \in Seq(S) /\ Reverse(Selections(list, sel)) \in Seq(S)
           /\ \E h : Route(list, sel, -1, Selections(list, sel), h)
           /\ \E h : Route(list, sel, 1, Reverse(Selections(list, sel)), h)
  <1>. DEFINE s == Selections(list, sel)
              t == Reverse(s)
  <1>1. s \in Seq(S) /\ Picks(s, list, sel, Len(list))
    BY AmongPicks DEF Selections
  <1>. HIDE DEF s
  <1>2. PICK h \in [1..Len(s) -> 1..Len(list)] :
          /\ \A j \in 1..Len(s) : s[j] = list[h[j]] /\ list[h[j]] \in sel
          /\ \A j, k \in 1..Len(s) : j < k => h[j] < h[k]
          /\ \A i \in 1..Len(list) : list[i] \in sel => \E j \in 1..Len(s) : h[j] = i
    BY <1>1 DEF Picks
  <1>3. Len(s) \in Nat /\ \A j \in 1..Len(s) : s[j] \in S
    BY <1>1, LenProperties, ElementOfSeq
  <1>4. Route(list, sel, -1, s, h)
    BY <1>2 DEF Route, Nearer
  <1>. DEFINE g == [j \in 1..Len(s) |-> h[Len(s) - j + 1]]
              back(j) == Len(s) - j + 1
  <1>5. \A j \in 1..Len(s) : back(j) \in 1..Len(s) /\ back(back(j)) = j
    BY <1>3
  <1>6. /\ t \in Seq(S) /\ Len(t) = Len(s)
        /\ \A j \in 1..Len(s) : t[j] = s[back(j)] /\ g[j] = h[back(j)]
    <2>1. t = [j \in 1..Len(s) |-> s[back(j)]]
      BY DEF Reverse
    <2>2. t \in [1..Len(s) -> S]
      BY <1>3, <1>5, <2>1
    <2>3. t \in Seq(S) /\ Len(t) = Len(s)
      BY <1>3, <2>2, SeqDef, LenProperties
    <2>. QED
      BY <2>1, <2>3
  <1>. HIDE DEF t
  <1>7. g \in [1..Len(t) -> 1..Len(list)]
    BY <1>2, <1>5, <1>6
  <1>. HIDE DEF g
  <1>8. \A j \in 1..Len(t) : t[j] = list[g[j]] /\ list[g[j]] \in sel
    BY <1>2, <1>5, <1>6
  <1>9. \A j, k \in 1..Len(t) : j < k => Nearer(g[j], g[k], 1)
    <2>. SUFFICES ASSUME NEW j \in 1..Len(t), NEW k \in 1..Len(t), j < k
                  PROVE  g[k] < g[j]
      BY DEF Nearer
    <2>1. back(k) < back(j) /\ back(k) \in 1..Len(s) /\ back(j) \in 1..Len(s)
      BY <1>3, <1>6
    <2>. HIDE DEF back
    <2>. QED
      BY <1>2, <1>6, <2>1
  <1>10. \A i \in 1..Len(list) : list[i] \in sel => \E j \in 1..Len(t) : g[j] = i
    <2>. SUFFICES ASSUME NEW i \in 1..Len(list), list[i] \in sel
                  PROVE  \E j \in 1..Len(t) : g[j] = i
      OBVIOUS
    <2>1. PICK j \in 1..Len(s) : h[j] = i
      BY <1>2
    <2>2. back(j) \in 1..Len(t) /\ g[back(j)] = h[back(back(j))] /\ back(back(j)) = j
      BY <1>5, <1>6
    <2>. QED
      BY <2>1, <2>2
  <1>11. Route(list, sel, 1, t, g)
    BY <1>7, <1>8, <1>9, <1>10 DEF Route
  <1>. QED
    BY <1>1, <1>4, <1>6, <1>11 DEF s, t

\* Up and down move the chosen records as they should.
LEMMA UpAndDownAre ==
    ASSUME NEW S, NEW list \in Seq(S), IsInjective(list), NEW sel
    PROVE  /\ Rearranged(S, list, sel, -1, MovedUp(list, sel))
           /\ Rearranged(S, list, sel, 1, MovedDown(list, sel))
  <1>1. /\ Selections(list, sel) \in Seq(S)
        /\ Reverse(Selections(list, sel)) \in Seq(S)
    BY RoutesExist
  <1>2. Rearranged(S, list, sel, -1, Moved(list, Selections(list, sel), Start(list, -1), -1))
    <2>1. PICK h : Route(list, sel, -1, Selections(list, sel), h)
      BY RoutesExist
    <2>. DEFINE step == -1
    <2>2. step \in {-1, 1} /\ Route(list, sel, step, Selections(list, sel), h)
      BY <2>1
    <2>. HIDE DEF step
    <2>3. Rearranged(S, list, sel, step, Moved(list, Selections(list, sel), Start(list, step), step))
      BY <1>1, <2>2, MovedIs
    <2>. QED
      BY <2>3 DEF step
  <1>3. Rearranged(S, list, sel, 1, Moved(list, Reverse(Selections(list, sel)), Start(list, 1), 1))
    <2>1. PICK h : Route(list, sel, 1, Reverse(Selections(list, sel)), h)
      BY RoutesExist
    <2>. DEFINE step == 1
    <2>2. step \in {-1, 1} /\ Route(list, sel, step, Reverse(Selections(list, sel)), h)
      BY <2>1
    <2>. HIDE DEF step
    <2>3. Rearranged(S, list, sel, step,
                     Moved(list, Reverse(Selections(list, sel)), Start(list, step), step))
      BY <1>1, <2>2, MovedIs
    <2>. QED
      BY <2>3 DEF step
  <1>. QED
    BY <1>2, <1>3 DEF MovedUp, MovedDown, Start

\* A list that is rearranged so is as the buttons promise.
LEMMA OnePlaceIs ==
    ASSUME NEW S, NEW list \in Seq(S), NEW sel, NEW step \in {-1, 1}, NEW now,
           Rearranged(S, list, sel, step, now)
    PROVE  OnePlace(list, now, sel, step)
  <1>1. DOMAIN list = 1..Len(list)
    BY LenProperties
  <1>2. Without(now, sel) = Without(list, sel) /\ Among(now, sel) = Among(list, sel)
    BY DEF Rearranged, Permuted
  <1>3. ASSUME NEW i \in DOMAIN list, list[i] \in sel
        PROVE  LET beyond == {j \in DOMAIN list : (j - i) * step > 0}
               IN IndexOfRecord(now, list[i]) - i =
                    IF \A j \in beyond : list[j] \in sel THEN 0 ELSE step
    <2>. DEFINE beyond == {j \in DOMAIN list : (j - i) * step > 0}
    <2>1. \A j \in 1..Len(list) : Nearer(j, i, step) <=> (j - i) * step > 0
      BY <1>1 DEF Nearer
    <2>2. Shift(list, sel, step, i) = IF \A j \in beyond : list[j] \in sel THEN 0 ELSE step
      BY <1>1, <2>1 DEF Shift
    <2>3. IndexOfRecord(now, list[i]) = i + Shift(list, sel, step, i)
      BY <1>1, <1>3 DEF Rearranged
    <2>4. Shift(list, sel, step, i) \in Int /\ i \in Int
      BY <1>1 DEF Shift
    <2>. HIDE DEF beyond
    <2>5. IndexOfRecord(now, list[i]) - i = Shift(list, sel, step, i)
      BY <2>3, <2>4
    <2>. QED
      BY <2>2, <2>5 DEF beyond
  <1>. QED
    BY <1>2, <1>3 DEF OnePlace

-----------------------------------------------------------------------------
\* Lists that are put together.

\* A list some records are taken out of.
LEMMA WithoutIs ==
    ASSUME NEW S, NEW list \in Seq(S), IsInjective(list), NEW gone
    PROVE  /\ Without(list, gone) \in Seq(S)
           /\ IsInjective(Without(list, gone))
           /\ Range(Without(list, gone)) = Range(list) \ gone
  BY AmongIs DEF Without

\* A list other records are put in, at one place.
LEMMA InsertAllIs ==
    ASSUME NEW S, NEW list \in Seq(S), NEW records \in Seq(S), IsInjective(list),
           IsInjective(records), Range(list) \cap Range(records) = {},
           NEW at \in 1..(Len(list) + 1)
    PROVE  /\ InsertAll(list, at, records) \in Seq(S)
           /\ IsInjective(InsertAll(list, at, records))
           /\ Range(InsertAll(list, at, records)) = Range(list) \cup Range(records)
  <1>. DEFINE left == SubSeq(list, 1, at - 1)
              right == SubSeq(list, at, Len(list))
  <1>1. /\ left \in Seq(S) /\ right \in Seq(S) /\ IsInjective(left) /\ IsInjective(right)
        /\ Range(left) \cap Range(right) = {} /\ Range(left) \cup Range(right) = Range(list)
    BY CutIs
  <1>. HIDE DEF left, right
  <1>2. /\ left \o records \in Seq(S) /\ IsInjective(left \o records)
        /\ Range(left \o records) = Range(left) \cup Range(records)
    <2>1. Range(left) \cap Range(records) = {}
      BY <1>1
    <2>. QED
      BY <1>1, <2>1, ConcatIs
  <1>. DEFINE both == left \o records
  <1>3. both \in Seq(S) /\ IsInjective(both) /\ Range(both) \cap Range(right) = {}
    BY <1>1, <1>2
  <1>. HIDE DEF both
  <1>4. /\ both \o right \in Seq(S) /\ IsInjective(both \o right)
        /\ Range(both \o right) = Range(both) \cup Range(right)
    BY <1>1, <1>3, ConcatIs
  <1>5. InsertAll(list, at, records) = both \o right
    BY DEF InsertAll, both, left, right
  <1>. QED
    BY <1>1, <1>2, <1>4, <1>5 DEF both

\* A list the records of another are added to, those it has not.
LEMMA PutIs ==
    ASSUME NEW S, NEW list \in Seq(S), NEW records \in Seq(S), IsInjective(list), IsInjective(records)
    PROVE  /\ Put(list, records) \in Seq(S)
           /\ IsInjective(Put(list, records))
           /\ Range(Put(list, records)) = Range(list) \cup Range(records)
  <1>. DEFINE new == Without(records, Range(list))
  <1>1. new \in Seq(S) /\ IsInjective(new) /\ Range(new) = Range(records) \ Range(list)
    BY WithoutIs
  <1>. HIDE DEF new
  <1>2. Range(list) \cap Range(new) = {}
    BY <1>1
  <1>3. /\ list \o new \in Seq(S) /\ IsInjective(list \o new)
        /\ Range(list \o new) = Range(list) \cup Range(new)
    BY <1>1, <1>2, ConcatIs
  <1>. QED
    BY <1>1, <1>3 DEF Put, new

\* A list records are dropped in, its own or others.
LEMMA DroppedInIs ==
    ASSUME NEW S, NEW list \in Seq(S), NEW records \in Seq(S), IsInjective(list),
           IsInjective(records), NEW target, NEW after, NEW moved, Range(records) = moved,
           Target(list, moved, target), NoRecord \notin S
    PROVE  /\ DroppedIn(list, records, target, after) \in Seq(S)
           /\ IsInjective(DroppedIn(list, records, target, after))
           /\ Range(DroppedIn(list, records, target, after)) = Range(list) \cup Range(records)
  <1>. DEFINE left == Without(list, Range(records))
              at == IndexOfRecord(left, target) + (IF after THEN 1 ELSE 0)
  <1>1. left \in Seq(S) /\ IsInjective(left) /\ Range(left) = Range(list) \ Range(records)
    BY WithoutIs
  <1>2. CASE target = NoRecord
    <2>1. \A r \in Range(list) : r \in S
      BY LenProperties, ElementOfSeq DEF Range
    <2>2. list = <<>>
      BY <1>2, <2>1 DEF Target
    <2>3. Range(list) = {}
      BY <2>2 DEF Range
    <2>. QED
      BY <1>2, <2>3 DEF DroppedIn
  <1>3. CASE target # NoRecord
    <2>1. target \in Range(left)
      BY <1>1, <1>3 DEF Target
    <2>. HIDE DEF left
    <2>2. DOMAIN left = 1..Len(left) /\ Len(left) \in Nat
      BY <1>1, LenProperties
    <2>3. IndexOfRecord(left, target) \in 1..Len(left)
      BY <2>1, <2>2 DEF IndexOfRecord, Range
    <2>4. at \in 1..(Len(left) + 1)
      BY <2>2, <2>3
    <2>5. DroppedIn(list, records, target, after) = InsertAll(left, at, records)
      BY <1>3 DEF DroppedIn, left
    <2>. HIDE DEF at
    <2>6. Range(left) \cap Range(records) = {}
      BY <1>1
    <2>7. /\ InsertAll(left, at, records) \in Seq(S)
          /\ IsInjective(InsertAll(left, at, records))
          /\ Range(InsertAll(left, at, records)) = Range(left) \cup Range(records)
      BY <1>1, <2>4, <2>6, InsertAllIs
    <2>. QED
      BY <1>1, <2>5, <2>7
  <1>. QED
    BY <1>2, <1>3

-----------------------------------------------------------------------------
\* The value.

\* f[n] are the first n keys, each once.
Sets(f, keys) ==
    /\ f[0] = <<>>
    /\ \A n \in 1..Len(keys) :
         f[n] = IF keys[n] \in Range(f[n - 1]) THEN f[n - 1] ELSE Append(f[n - 1], keys[n])

\* What setupValue computes is the last of such a row of lists.
LEMMA SetupSets ==
    ASSUME NEW S, NEW keys \in Seq(S)
    PROVE  \E f \in [0..Len(keys) -> Seq(S)] : Sets(f, keys) /\ SetupValue(keys) = f[Len(keys)]
  <1>. DEFINE n == Len(keys)
              X == Seq(S)
              On(x, k) == IF keys[k] \in Range(x) THEN x ELSE Append(x, keys[k])
              Map(g) == [k \in 0..n |-> IF k = 0 THEN <<>> ELSE On(g[k - 1], k)]
              out == CHOOSE g : g = Map(g)
              step == [p \in Nat \X X |-> IF p[1] \in 1..n THEN On(p[2], p[1]) ELSE p[2]]
              first == <<>>
  <1>1. n \in Nat /\ \A k \in 1..n : keys[k] \in S
    BY LenProperties, ElementOfSeq
  <1>2. first \in X
    BY EmptySeq
  <1>3. ASSUME NEW x \in X, NEW k \in 1..n PROVE On(x, k) \in X
    BY <1>1, <1>3, AppendProperties
  <1>4. SetupValue(keys) = out[n]
    BY DEF SetupValue
  <1>. HIDE DEF X, first, On
  <1>5. step \in [Nat \X X -> X]
    BY <1>3
  <1>6. \A x \in X, k \in 1..n : step[<<k, x>>] = On(x, k)
    <2>. TAKE x \in X, k \in 1..n
    <2>1. <<k, x>> \in Nat \X X /\ <<k, x>>[1] = k /\ <<k, x>>[2] = x
      BY <1>1
    <2>. QED
      BY <2>1
  <1>. HIDE DEF step, n
  <1>7. PICK f \in [0..n -> X] :
          /\ f[0] = first
          /\ \A k \in 0..n : k # 0 => f[k] = step[<<k, f[k - 1]>>]
    <2>1. Iterable(X, first, step, n)
      BY <1>1, <1>2, <1>5, RecursionExists
    <2>. QED
      BY <2>1 DEF Iterable
  <1>8. ASSUME NEW k \in 1..n PROVE f[k] = On(f[k - 1], k) /\ f[k - 1] \in X
    <2>1. k - 1 \in 0..n /\ k \in 0..n /\ k # 0
      BY <1>1
    <2>. DEFINE x == f[k - 1]
    <2>2. x \in X
      BY <2>1
    <2>3. f[k] = step[<<k, x>>]
      BY <1>7, <2>1
    <2>. HIDE DEF x
    <2>4. f[k] = On(x, k)
      BY <1>6, <2>2, <2>3
    <2>. QED
      BY <2>2, <2>4 DEF x
  <1>9. f = Map(f)
    <2>1. ASSUME NEW k \in 0..n, k # 0 PROVE f[k] = On(f[k - 1], k)
      <3>1. k \in 1..n
        BY <1>1, <2>1
      <3>. QED
        BY <1>8, <3>1
    <2>. QED
      BY <1>7, <2>1 DEF first
  <1>10. out = Map(out)
    <2>. HIDE DEF Map
    <2>. QED
      BY <1>9
  <1>. HIDE DEF out
  <1>11. ASSUME NEW k \in 0..n
         PROVE  out[k] = IF k = 0 THEN <<>> ELSE On(out[k - 1], k)
    <2>1. out[k] = Map(out)[k]
      BY <1>10
    <2>2. Map(out)[k] = IF k = 0 THEN <<>> ELSE On(out[k - 1], k)
      OBVIOUS
    <2>. QED
      BY <2>1, <2>2
  <1>. HIDE DEF Map
  <1>12. out[n] = f[n]
    <2>. DEFINE Same == {m \in Nat : m <= n => out[m] = f[m]}
    <2>1. 0 \in Same
      <3>1. 0 \in 0..n
        BY <1>1
      <3>2. out[0] = <<>>
        BY <1>11, <3>1
      <3>. QED
        BY <1>7, <3>2 DEF first
    <2>2. ASSUME NEW m \in Same PROVE m + 1 \in Same
      <3>. SUFFICES ASSUME m + 1 <= n PROVE out[m + 1] = f[m + 1]
        OBVIOUS
      <3>1. m + 1 \in 1..n /\ m + 1 \in 0..n /\ (m + 1) - 1 = m /\ out[m] = f[m] /\ m + 1 # 0
        BY <1>1
      <3>2. out[m + 1] = On(out[m], m + 1)
        BY <1>11, <3>1
      <3>. QED
        BY <1>8, <3>1, <3>2
    <2>3. Same \in SUBSET Nat
      OBVIOUS
    <2>. HIDE DEF Same
    <2>4. n \in Same
      BY <1>1, <2>1, <2>2, <2>3, InSet
    <2>. QED
      BY <1>1, <2>4 DEF Same
  <1>13. Sets(f, keys)
    BY <1>7, <1>8 DEF Sets, first, n, On
  <1>. QED
    BY <1>4, <1>12, <1>13 DEF X, n

\* The value has each key once, and is what is set when that has no key twice.
LEMMA SetupIs ==
    ASSUME NEW S, NEW keys \in Seq(S)
    PROVE  /\ SetupValue(keys) \in Seq(S) /\ IsInjective(SetupValue(keys))
           /\ IsInjective(keys) => SetupValue(keys) = keys
  <1>1. PICK f \in [0..Len(keys) -> Seq(S)] : Sets(f, keys) /\ SetupValue(keys) = f[Len(keys)]
    BY SetupSets
  <1>2. /\ Len(keys) \in Nat /\ DOMAIN keys = 1..Len(keys)
        /\ \A k \in 1..Len(keys) : keys[k] \in S
    BY LenProperties, ElementOfSeq
  <1>. DEFINE Whole(n) == Len(f[n]) = n /\ \A j \in 1..n : f[n][j] = keys[j]
              P == {n \in Nat : n <= Len(keys) => /\ IsInjective(f[n])
                                                  /\ IsInjective(keys) => Whole(n)}
  <1>3. 0 \in P
    BY <1>1 DEF Sets, IsInjective
  <1>4. ASSUME NEW n \in P PROVE n + 1 \in P
    <2>. SUFFICES ASSUME n + 1 <= Len(keys)
                  PROVE  IsInjective(f[n + 1]) /\ (IsInjective(keys) => Whole(n + 1))
      OBVIOUS
    <2>1. n + 1 \in 1..Len(keys) /\ n \in 0..Len(keys) /\ (n + 1) - 1 = n
          /\ IsInjective(f[n]) /\ (IsInjective(keys) => Whole(n))
      BY <1>2
    <2>2. f[n + 1] = IF keys[n + 1] \in Range(f[n]) THEN f[n] ELSE Append(f[n], keys[n + 1])
      BY <1>1, <2>1 DEF Sets
    <2>3. f[n] \in Seq(S) /\ keys[n + 1] \in S
      BY <1>2, <2>1
    <2>4. IsInjective(f[n + 1])
      BY <2>1, <2>2, <2>3, AppendIs
    <2>5. ASSUME IsInjective(keys) PROVE Whole(n + 1)
      <3>1. DOMAIN f[n] = 1..n
        BY <2>1, <2>3, <2>5, LenProperties
      <3>2. ASSUME NEW j \in 1..n PROVE f[n][j] # keys[n + 1]
        <4>1. j \in DOMAIN keys /\ n + 1 \in DOMAIN keys /\ j # n + 1
          BY <1>2, <2>1
        <4>2. keys[j] # keys[n + 1]
          BY <2>5, <4>1 DEF IsInjective
        <4>. QED
          BY <2>1, <2>5, <4>2
      <3>3. f[n + 1] = Append(f[n], keys[n + 1])
        BY <2>2, <3>1, <3>2 DEF Range
      <3>4. /\ Len(f[n + 1]) = n + 1
            /\ \A j \in 1..n : f[n + 1][j] = f[n][j]
            /\ f[n + 1][n + 1] = keys[n + 1]
        BY <2>1, <2>3, <2>5, <3>3, AppendProperties
      <3>5. \A j \in 1..(n + 1) : j \in 1..n \/ j = n + 1
        OBVIOUS
      <3>. QED
        BY <2>1, <2>5, <3>4, <3>5
    <2>. QED
      BY <2>4, <2>5
  <1>5. P \in SUBSET Nat
    OBVIOUS
  <1>6. Len(keys) \in P
    <2>. HIDE DEF P
    <2>. QED
      BY <1>2, <1>3, <1>4, <1>5, InSet
  <1>. DEFINE s == f[Len(keys)]
  <1>7. s \in Seq(S) /\ IsInjective(s) /\ (IsInjective(keys) => Whole(Len(keys)))
    BY <1>2, <1>6
  <1>8. ASSUME IsInjective(keys) PROVE s = keys
    BY <1>2, <1>7, <1>8, SeqEqual
  <1>. QED
    BY <1>1, <1>7, <1>8

-----------------------------------------------------------------------------
\* Lists and what they range over.

\* A chosen part of a list, all of which it has.
LEMMA SelectionsIs ==
    ASSUME NEW S, NEW list \in Seq(S), IsInjective(list), NEW sel, sel \subseteq Range(list)
    PROVE  /\ Selections(list, sel) \in Seq(S)
           /\ IsInjective(Selections(list, sel))
           /\ Range(Selections(list, sel)) = sel
  <1>1. /\ Among(list, sel) \in Seq(S)
        /\ Range(Among(list, sel)) = Range(list) \cap sel
        /\ IsInjective(Among(list, sel))
    BY AmongIs
  <1>. QED
    BY <1>1 DEF Selections

\* What is dragged, in any order, is what is selected, each once.
LEMMA InAnyOrderIs ==
    ASSUME NEW S, NEW sel, sel \subseteq S, NEW records \in InAnyOrder(sel)
    PROVE  records \in Seq(S) /\ IsInjective(records) /\ Range(records) = sel
  <1>. DEFINE n == Cardinality(sel)
  <1>1. /\ records \in UNION {[1..m -> sel] : m \in 0..n}
        /\ IsInjective(records) /\ Range(records) = sel
    BY DEF InAnyOrder, SeqOf
  <1>. HIDE DEF n
  <1>2. PICK m \in 0..n : records \in [1..m -> sel]
    BY <1>1
  <1>3. m \in Nat /\ records \in [1..m -> S]
    BY <1>2
  <1>4. records \in Seq(S)
    BY <1>3, SeqDef
  <1>. QED
    BY <1>1, <1>4

-----------------------------------------------------------------------------
\* The invariant.

\* Nothing is in the lists before they are filled.
Empty == ~populated => from = <<>> /\ to = <<>> /\ value = <<>>

\* What EachInOneList says, and the lists apart whether filled or not.
Divided ==
    /\ ~reloaded => Range(from) \cap Range(to) = {}
    /\ populated /\ ~reloaded => Range(from) \cup Range(to) = Range(store)

\* The value is the right list, but for keys no record of the store has.
ValueIsOfTheRight ==
    /\ Among(value, Range(to)) = to
    /\ ~reloaded => Range(value) \subseteq Range(to) \cup {Unknown} \cup
                                           (Range(Items) \ Range(store))

\* What is wanted waits until the lists are filled, and is the value then.
WantedIsSet ==
    IF populated THEN waiting = NoValue /\ (wanted # NoValue => value = SetupValue(wanted))
                 ELSE wanted = waiting

\* The inductive invariant.
SelectorInv == SelectorTypeOK /\ Empty /\ Divided /\ ValueIsOfTheRight /\ WantedIsSet

\* What a move of the user does to the records: none is lost.
RecordsKept ==
    /\ Listed(from', Range(Items)) /\ Listed(to', Range(Items))
    /\ fromSel' \subseteq Range(from') /\ toSel' \subseteq Range(to')
    /\ Range(from') \cup Range(to') = Range(from) \cup Range(to)
    /\ Range(from) \cap Range(to) = {} => Range(from') \cap Range(to') = {}

\* The value is then made of the right list, and is it.
LEMMA MovesKeepInv ==
    ASSUME SelectorInv, RecordsKept, SyncValue, Kept
    PROVE  SelectorInv'
  <1>. USE DEF Listed
  <1>1. /\ from' \in Seq(Range(Items)) /\ to' \in Seq(Range(Items))
        /\ IsInjective(from') /\ IsInjective(to')
    BY DEF RecordsKept
  <1>2. value' = to' /\ wanted' = IF populated THEN NoValue ELSE wanted
    BY <1>1, SetupIs DEF SyncValue
  <1>3. Among(to', Range(to')) = to'
    BY <1>1, AmongAll
  <1>4. /\ store' = store /\ listening' = listening /\ populated' = populated
        /\ waiting' = waiting /\ disabled' = disabled /\ reloaded' = reloaded
    BY DEF Kept
  <1>5. SelectorTypeOK'
    <2>1. value' \in Seq(Range(Items) \cup {Unknown})
      BY <1>1, <1>2, ItemsOfList, ListOf
    <2>. QED
      BY <1>1, <1>2, <1>4, <2>1 DEF SelectorInv, SelectorTypeOK, RecordsKept
  <1>6. Empty'
    <2>. SUFFICES ASSUME ~populated PROVE from' = <<>> /\ to' = <<>> /\ value' = <<>>
      BY <1>4 DEF Empty
    <2>1. from = <<>> /\ to = <<>>
      BY DEF SelectorInv, Empty
    <2>2. Range(from) = {} /\ Range(to) = {}
      BY <2>1 DEF Range
    <2>3. Range(from') = {} /\ Range(to') = {}
      BY <2>2 DEF RecordsKept
    <2>. QED
      BY <1>1, <1>2, <2>3, NoList
  <1>7. Divided'
    BY <1>4 DEF SelectorInv, Divided, RecordsKept
  <1>8. ValueIsOfTheRight'
    BY <1>2, <1>3 DEF ValueIsOfTheRight
  <1>9. WantedIsSet'
    BY <1>2, <1>4 DEF SelectorInv, WantedIsSet
  <1>. QED
    BY <1>5, <1>6, <1>7, <1>8, <1>9 DEF SelectorInv

\* The lists and the value, made anew.
MadeOf(held) ==
    /\ Listed(from', Range(Items)) /\ Listed(to', Range(Items))
    /\ Listed(value', Range(Items) \cup {Unknown})
    /\ fromSel' \subseteq Range(from') /\ toSel' \subseteq Range(to')
    /\ reloaded' = FALSE
    /\ Range(from') \cap Range(to') = {}
    /\ Range(from') \cup Range(to') = Range(held)
    /\ Among(value', Range(to')) = to'
    /\ Range(value') \subseteq Range(to') \cup {Unknown} \cup (Range(Items) \ Range(held))

\* setValue divides the records of the store, and makes the value of the keys.
LEMMA SetNowIs ==
    ASSUME NEW keys \in Seq(Range(Items) \cup {Unknown}), NEW held,
           Listed(held, Range(Items)), SetNow(keys, held)
    PROVE  MadeOf(held)
  <1>. USE DEF Listed
  <1>. DEFINE K == Range(Items) \cup {Unknown}
  <1>1. value' \in Seq(K) /\ IsInjective(value')
    BY SetupIs DEF SetNow
  <1>2. to' = Among(value', Range(held))
    BY DEF SetNow, RecordsForValue
  <1>3. to' \in Seq(K) /\ Range(to') = Range(value') \cap Range(held) /\ IsInjective(to')
    BY <1>1, <1>2, AmongIs
  <1>4. Range(held) \subseteq Range(Items) /\ Range(value') \subseteq K
    BY <1>1, ItemsOfList
  <1>5. to' \in Seq(Range(Items))
    <2>1. Range(to') \subseteq Range(Items)
      BY <1>3, <1>4
    <2>. QED
      BY <1>3, <2>1, ListOf
  <1>6. /\ from' \in Seq(Range(Items)) /\ IsInjective(from')
        /\ Range(from') = Range(held) \ Range(to')
    BY WithoutIs DEF SetNow
  <1>7. Among(value', Range(to')) = to'
    <2>1. Range(value') \cap Range(to') = Range(value') \cap Range(held)
      BY <1>3
    <2>. QED
      BY <1>1, <1>2, <2>1, AmongAgrees
  <1>8. fromSel' \subseteq Range(from') /\ toSel' \subseteq Range(to') /\ reloaded' = FALSE
    BY DEF SetNow
  <1>. QED
    BY <1>1, <1>3, <1>4, <1>5, <1>6, <1>7, <1>8 DEF MadeOf

-----------------------------------------------------------------------------
\* The steps.

\* The invariant holds at first.
LEMMA SelectorInitInv == SelectorInit => SelectorInv
  <1>. SUFFICES ASSUME SelectorInit PROVE SelectorInv
    OBVIOUS
  <1>1. Items \in Seq(Range(Items)) /\ IsInjective(Items)
    BY SelectorAssumption
  <1>2. <<>> \in Seq(Range(Items)) /\ <<>> \in Seq(Range(Items) \cup {Unknown})
        /\ IsInjective(<<>>) /\ Range(<<>>) = {}
    BY EmptySeq DEF IsInjective, Range
  <1>3. Listed(store, Range(Items))
    BY <1>1, <1>2 DEF SelectorInit, Listed
  <1>4. Among(<<>>, {}) = <<>>
    BY <1>2, AmongAll
  <1>. USE DEF SelectorInit
  <1>5. SelectorTypeOK
    BY <1>2, <1>3 DEF SelectorTypeOK, Listed
  <1>6. Empty /\ Divided /\ ValueIsOfTheRight /\ WantedIsSet
    BY <1>2, <1>4 DEF Empty, Divided, ValueIsOfTheRight, WantedIsSet
  <1>. QED
    BY <1>5, <1>6 DEF SelectorInv

\* What may be set.
Keys == {<<>>, <<Unknown, Items[1], Items[1]>>, Reverse(Items)}

\* The keys that are set are of records, or of none.
LEMMA KeysAreLists == Keys \subseteq Seq(Range(Items) \cup {Unknown})
  <1>. DEFINE K == Range(Items) \cup {Unknown}
  <1>1. /\ Items \in Seq(Range(Items)) /\ Items # <<>>
        /\ Len(Items) \in Nat /\ DOMAIN Items = 1..Len(Items)
    BY SelectorAssumption, LenProperties
  <1>2. <<>> \in Seq(K)
    BY EmptySeq
  <1>3. \A i \in 1..Len(Items) : Items[i] \in K
    BY <1>1 DEF Range
  <1>4. <<Unknown, Items[1], Items[1]>> \in Seq(K)
    <2>1. Len(Items) # 0
      BY <1>1, EmptySeq
    <2>2. Items[1] \in K /\ Unknown \in K
      BY <1>1, <1>3, <2>1
    <2>. HIDE DEF K
    <2>. QED
      BY <2>2
  <1>5. Reverse(Items) \in Seq(K)
    <2>. DEFINE n == Len(Items)
                s == [i \in 1..n |-> Items[n - i + 1]]
    <2>1. n \in Nat /\ \A i \in 1..n : Items[i] \in K
      BY <1>1, <1>3
    <2>2. Reverse(Items) = s
      BY DEF Reverse
    <2>. HIDE DEF K, n
    <2>3. s \in [1..n -> K]
      <3>1. \A i \in 1..n : n - i + 1 \in 1..n
        BY <2>1
      <3>. QED
        BY <2>1, <3>1
    <2>. HIDE DEF s
    <2>. QED
      BY <2>1, <2>2, <2>3, SeqDef
  <1>. QED
    BY <1>2, <1>4, <1>5 DEF Keys

\* Lists made anew of what the store has.
LEMMA MadeKeepsInv ==
    ASSUME SelectorInv, Listed(store', Range(Items)), MadeOf(store'), populated' = TRUE,
           waiting' = NoValue,
           NEW keys \in Seq(Range(Items) \cup {Unknown}), wanted' = keys,
           value' = SetupValue(keys),
           listening' = listening, disabled' = disabled
    PROVE  SelectorInv'
  <1>1. SelectorTypeOK'
    BY DEF SelectorInv, SelectorTypeOK, MadeOf
  <1>2. Empty' /\ Divided' /\ ValueIsOfTheRight'
    BY DEF Empty, Divided, ValueIsOfTheRight, MadeOf
  <1>3. WantedIsSet'
    BY DEF WantedIsSet
  <1>. QED
    BY <1>1, <1>2, <1>3 DEF SelectorInv

\* A value set, now or later.
LEMMA SetValueKeepsInv ==
    ASSUME SelectorInv, NEW keys \in Keys, SetValue(keys)
    PROVE  SelectorInv'
  <1>1. keys \in Seq(Range(Items) \cup {Unknown})
    BY KeysAreLists
  <1>2. store' = store /\ listening' = listening /\ populated' = populated
        /\ disabled' = disabled /\ wanted' = keys
    BY DEF SetValue
  <1>3. CASE populated
    <2>1. SetNow(keys, store) /\ waiting' = NoValue /\ value' = SetupValue(keys)
      BY <1>3 DEF SetValue, SetNow, SelectorInv, WantedIsSet
    <2>2. Listed(store, Range(Items))
      BY DEF SelectorInv, SelectorTypeOK
    <2>3. MadeOf(store)
      BY <1>1, <2>1, <2>2, SetNowIs
    <2>4. populated' = TRUE
      BY <1>2, <1>3 DEF SelectorInv, SelectorTypeOK
    <2>. QED
      BY <1>1, <1>2, <2>1, <2>2, <2>3, <2>4, MadeKeepsInv
  <1>4. CASE ~populated
    <2>1. waiting' = keys /\ from' = from /\ to' = to /\ fromSel' = fromSel /\ toSel' = toSel
          /\ value' = value /\ reloaded' = reloaded
      BY <1>4 DEF SetValue, lists
    <2>2. WantedIsSet'
      BY <1>2, <1>4, <2>1 DEF WantedIsSet
    <2>. QED
      BY <1>1, <1>2, <2>1, <2>2
      DEF SelectorInv, SelectorTypeOK, Empty, Divided, ValueIsOfTheRight
  <1>. QED
    BY <1>3, <1>4

\* The store is loaded, for the first time or again.
LEMMA LoadKeepsInv ==
    ASSUME SelectorInv, Load
    PROVE  SelectorInv'
  <1>1. PICK held \in SUBSET Range(Items) :
          /\ store' = Among(Items, held)
          /\ IF listening
               THEN PopulateFromStore(store')
               ELSE reloaded' = TRUE /\ UNCHANGED <<lists, populated, waiting>>
          /\ UNCHANGED <<wanted, listening, disabled>>
    BY DEF Load
  <1>2. Listed(store', Range(Items))
    BY <1>1, SelectorAssumption, AmongIs DEF Listed
  <1>3. listening' = listening /\ disabled' = disabled /\ wanted' = wanted
    BY <1>1
  <1>4. CASE listening
    <2>1. PopulateFromStore(store')
      BY <1>1, <1>4
    <2>2. CASE waiting # NoValue
      <3>1. /\ SetNow(waiting, store') /\ waiting' = NoValue /\ populated' = TRUE
            /\ waiting \in Seq(Range(Items) \cup {Unknown})
        BY <2>1, <2>2 DEF PopulateFromStore, SelectorInv, SelectorTypeOK
      <3>2. MadeOf(store')
        BY <1>2, <3>1, SetNowIs
      <3>3. wanted' = waiting
        BY <1>3, <2>2 DEF SelectorInv, WantedIsSet
      <3>4. value' = SetupValue(waiting)
        BY <3>1 DEF SetNow
      <3>. QED
        BY <1>2, <1>3, <3>1, <3>2, <3>3, <3>4, MadeKeepsInv
    <2>3. CASE waiting = NoValue
      <3>1. /\ from' = Put(from, store') /\ reloaded' = populated /\ populated' = TRUE
            /\ to' = to /\ fromSel' = fromSel /\ toSel' = toSel /\ value' = value
            /\ waiting' = waiting
        BY <2>1, <2>3 DEF PopulateFromStore
      <3>2. /\ Listed(from', Range(Items))
            /\ Range(from') = Range(from) \cup Range(store')
        BY <1>2, <3>1, PutIs DEF Listed, SelectorInv, SelectorTypeOK
      <3>3. SelectorTypeOK'
        BY <1>2, <1>3, <3>1, <3>2 DEF SelectorInv, SelectorTypeOK
      <3>4. ~populated => Range(from) = {} /\ Range(to) = {} /\ Range(value) = {}
        BY DEF SelectorInv, Empty, Range
      <3>5. Divided' /\ ValueIsOfTheRight' /\ Empty'
        BY <3>1, <3>2, <3>4
        DEF SelectorInv, SelectorTypeOK, Divided, ValueIsOfTheRight, Empty
      <3>6. WantedIsSet'
        BY <1>3, <2>3, <3>1 DEF SelectorInv, WantedIsSet
      <3>. QED
        BY <3>3, <3>5, <3>6 DEF SelectorInv
    <2>. QED
      BY <2>2, <2>3
  <1>5. CASE ~listening
    <2>1. /\ reloaded' = TRUE /\ from' = from /\ to' = to /\ fromSel' = fromSel
          /\ toSel' = toSel /\ value' = value /\ populated' = populated /\ waiting' = waiting
      BY <1>1, <1>5 DEF lists
    <2>2. WantedIsSet'
      BY <1>3, <2>1 DEF SelectorInv, WantedIsSet
    <2>. QED
      BY <1>2, <1>3, <2>1, <2>2
      DEF SelectorInv, SelectorTypeOK, Empty, Divided, ValueIsOfTheRight
  <1>. QED
    BY <1>4, <1>5

-----------------------------------------------------------------------------
\* What the user does.

\* Another order of the right list.
LEMMA ReorderKeepsInv ==
    ASSUME SelectorInv, NEW list, Listed(list, Range(Items)), Range(list) = Range(to), Reorder(list)
    PROVE  SelectorInv'
  <1>1. RecordsKept
    BY DEF Reorder, RecordsKept, SelectorInv, SelectorTypeOK
  <1>. QED
    BY <1>1, MovesKeepInv DEF Reorder

\* The four buttons that reorder the right list.
LEMMA ReordersKeepInv ==
    ASSUME SelectorInv, OnTop \/ OnBottom \/ OnUp \/ OnDown
    PROVE  SelectorInv'
  <1>. DEFINE S == Range(Items)
              chosen == Selections(to, toSel)
              others == Without(to, toSel)
  <1>1. to \in Seq(S) /\ IsInjective(to) /\ toSel \subseteq Range(to)
    BY DEF SelectorInv, SelectorTypeOK, Listed
  <1>2. /\ chosen \in Seq(S) /\ IsInjective(chosen) /\ Range(chosen) = toSel
        /\ others \in Seq(S) /\ IsInjective(others) /\ Range(others) = Range(to) \ toSel
    BY <1>1, SelectionsIs, WithoutIs
  <1>. HIDE DEF chosen, others
  <1>3. Range(chosen) \cap Range(others) = {} /\ Range(chosen) \cup Range(others) = Range(to)
    BY <1>1, <1>2
  <1>4. CASE OnTop
    <2>1. chosen \o others \in Seq(S) /\ IsInjective(chosen \o others)
          /\ Range(chosen \o others) = Range(chosen) \cup Range(others)
      <3>1. Range(chosen) \cap Range(others) = {}
        BY <1>3
      <3>. HIDE DEF S
      <3>. QED
        BY <1>2, <3>1, ConcatIs
    <2>2. Listed(chosen \o others, S) /\ Range(chosen \o others) = Range(to)
      BY <1>3, <2>1 DEF Listed
    <2>. QED
      BY <1>4, <2>2, ReorderKeepsInv DEF OnTop, chosen, others
  <1>5. CASE OnBottom
    <2>1. others \o chosen \in Seq(S) /\ IsInjective(others \o chosen)
          /\ Range(others \o chosen) = Range(others) \cup Range(chosen)
      <3>1. Range(others) \cap Range(chosen) = {}
        BY <1>3
      <3>. HIDE DEF S
      <3>. QED
        BY <1>2, <3>1, ConcatIs
    <2>2. Listed(others \o chosen, S) /\ Range(others \o chosen) = Range(to)
      BY <1>3, <2>1 DEF Listed
    <2>. QED
      BY <1>5, <2>2, ReorderKeepsInv DEF OnBottom, chosen, others
  <1>6. Permuted(S, to, toSel, MovedUp(to, toSel)) /\ Permuted(S, to, toSel, MovedDown(to, toSel))
    BY <1>1, UpAndDownAre DEF Rearranged
  <1>7. CASE OnUp
    <2>1. Listed(MovedUp(to, toSel), S) /\ Range(MovedUp(to, toSel)) = Range(to)
      BY <1>6 DEF Permuted, Listed
    <2>. QED
      BY <1>7, <2>1, ReorderKeepsInv DEF OnUp
  <1>8. CASE OnDown
    <2>1. Listed(MovedDown(to, toSel), S) /\ Range(MovedDown(to, toSel)) = Range(to)
      BY <1>6 DEF Permuted, Listed
    <2>. QED
      BY <1>8, <2>1, ReorderKeepsInv DEF OnDown
  <1>. QED
    BY <1>4, <1>5, <1>7, <1>8

\* Records that go to the other list.
LEMMA MoveRecIs ==
    ASSUME SelectorInv, NEW add \in BOOLEAN, NEW records,
           Listed(records, Range(Items)),
           Range(records) \subseteq Range(IF add THEN from ELSE to),
           MoveRec(add, records)
    PROVE  /\ Listed(from', Range(Items)) /\ Listed(to', Range(Items))
           /\ Range(from') = IF add THEN Range(from) \ Range(records)
                                    ELSE Range(from) \cup Range(records)
           /\ Range(to') = IF add THEN Range(to) \cup Range(records)
                                  ELSE Range(to) \ Range(records)
  <1>1. /\ from \in Seq(Range(Items)) /\ IsInjective(from)
        /\ to \in Seq(Range(Items)) /\ IsInjective(to)
        /\ records \in Seq(Range(Items)) /\ IsInjective(records)
    BY DEF SelectorInv, SelectorTypeOK, Listed
  <1>2. CASE add
    <2>1. from' = Without(from, Range(records)) /\ to' = Put(to, records)
      BY <1>2 DEF MoveRec
    <2>. QED
      BY <1>1, <1>2, <2>1, WithoutIs, PutIs DEF Listed
  <1>3. CASE ~add
    <2>1. to' = Without(to, Range(records)) /\ from' = Put(from, records)
      BY <1>3 DEF MoveRec
    <2>. QED
      BY <1>1, <1>3, <2>1, WithoutIs, PutIs DEF Listed
  <1>. QED
    BY <1>2, <1>3

\* The two buttons between the lists.
LEMMA AddAndRemoveKeepInv ==
    ASSUME SelectorInv, OnAdd \/ OnRemove
    PROVE  SelectorInv'
  <1>1. /\ from \in Seq(Range(Items)) /\ IsInjective(from) /\ fromSel \subseteq Range(from)
        /\ to \in Seq(Range(Items)) /\ IsInjective(to) /\ toSel \subseteq Range(to)
    BY DEF SelectorInv, SelectorTypeOK, Listed
  <1>2. CASE OnAdd
    <2>. DEFINE records == Selections(from, fromSel)
    <2>1. Listed(records, Range(Items)) /\ Range(records) = fromSel
      BY <1>1, SelectionsIs DEF Listed
    <2>2. MoveRec(TRUE, records) /\ fromSel' = {} /\ toSel' = fromSel
      BY <1>2 DEF OnAdd
    <2>. HIDE DEF records
    <2>3. /\ Listed(from', Range(Items)) /\ Listed(to', Range(Items))
          /\ Range(from') = Range(from) \ fromSel /\ Range(to') = Range(to) \cup fromSel
      BY <1>1, <2>1, <2>2, MoveRecIs
    <2>4. RecordsKept
      BY <1>1, <2>2, <2>3 DEF RecordsKept
    <2>. QED
      BY <2>2, <2>4, MovesKeepInv DEF MoveRec
  <1>3. CASE OnRemove
    <2>. DEFINE records == Selections(to, toSel)
    <2>1. Listed(records, Range(Items)) /\ Range(records) = toSel
      BY <1>1, SelectionsIs DEF Listed
    <2>2. MoveRec(FALSE, records) /\ toSel' = {} /\ fromSel' = toSel
      BY <1>3 DEF OnRemove
    <2>. HIDE DEF records
    <2>3. /\ Listed(from', Range(Items)) /\ Listed(to', Range(Items))
          /\ Range(from') = Range(from) \cup toSel /\ Range(to') = Range(to) \ toSel
      BY <1>1, <2>1, <2>2, MoveRecIs
    <2>4. RecordsKept
      BY <1>1, <2>2, <2>3 DEF RecordsKept
    <2>. QED
      BY <2>2, <2>4, MovesKeepInv DEF MoveRec
  <1>. QED
    BY <1>2, <1>3

\* A double click on a record.
LEMMA DblClickKeepsInv ==
    ASSUME SelectorInv, OnItemDblClick
    PROVE  SelectorInv'
  <1>1. /\ from \in Seq(Range(Items)) /\ to \in Seq(Range(Items))
    BY DEF SelectorInv, SelectorTypeOK, Listed
  <1>2. PICK add \in BOOLEAN, r \in Range(from) \cup Range(to) :
          MoveRec(add, <<r>>) /\ r \in Range(IF add THEN from ELSE to)
    BY DEF OnItemDblClick
  <1>3. r \in Range(Items)
    BY <1>1, ItemsOfList
  <1>4. Listed(<<r>>, Range(Items)) /\ Range(<<r>>) = {r}
    BY <1>3 DEF Listed, IsInjective, Range
  <1>5. /\ Listed(from', Range(Items)) /\ Listed(to', Range(Items))
        /\ Range(from') = IF add THEN Range(from) \ {r} ELSE Range(from) \cup {r}
        /\ Range(to') = IF add THEN Range(to) \cup {r} ELSE Range(to) \ {r}
    BY <1>2, <1>4, MoveRecIs
  <1>6. fromSel' \subseteq Range(from') /\ toSel' \subseteq Range(to')
    BY DEF OnItemDblClick
  <1>7. RecordsKept
    BY <1>2, <1>5, <1>6 DEF RecordsKept
  <1>. QED
    BY <1>2, <1>7, MovesKeepInv DEF MoveRec

\* Records dropped in a list, of its own or of the other one.
LEMMA DropsKeepInv ==
    ASSUME SelectorInv, Drop
    PROVE  SelectorInv'
  <1>. DEFINE S == Range(Items)
  <1>1. /\ from \in Seq(S) /\ IsInjective(from) /\ fromSel \subseteq Range(from)
        /\ to \in Seq(S) /\ IsInjective(to) /\ toSel \subseteq Range(to)
        /\ NoRecord \notin S
    BY SelectorAssumption DEF SelectorInv, SelectorTypeOK, Listed
  <1>. HIDE DEF S
  <1>2. PICK target \in Range(Items) \cup {NoRecord}, after \in BOOLEAN, other \in BOOLEAN :
          DropInTo(target, after, other) \/ DropInFrom(target, after, other)
    BY DEF Drop
  <1>3. CASE DropInTo(target, after, other)
    <2>. DEFINE sel == IF other THEN fromSel ELSE toSel
    <2>1. /\ Target(to, sel, target)
          /\ \E records \in InAnyOrder(sel) : to' = DroppedIn(to, records, target, after)
          /\ from' = IF other THEN Without(from, sel) ELSE from
          /\ fromSel' = fromSel \cap Range(from') /\ toSel' = sel
          /\ SyncValue /\ Kept
      BY <1>3 DEF DropInTo
    <2>2. sel \subseteq S
      BY <1>1, ItemsOfList
    <2>3. PICK records \in Seq(S) : /\ IsInjective(records) /\ Range(records) = sel
                                   /\ to' = DroppedIn(to, records, target, after)
      <3>. HIDE DEF sel
      <3>. QED
        BY <2>1, <2>2, InAnyOrderIs
    <2>4. to' \in Seq(S) /\ IsInjective(to') /\ Range(to') = Range(to) \cup sel
      <3>. HIDE DEF sel
      <3>. QED
        BY <1>1, <2>1, <2>3, DroppedInIs
    <2>5. from' \in Seq(S) /\ IsInjective(from')
          /\ Range(from') = IF other THEN Range(from) \ sel ELSE Range(from)
      BY <1>1, <2>1, WithoutIs
    <2>6. RecordsKept
      BY <1>1, <2>1, <2>4, <2>5 DEF RecordsKept, Listed, S
    <2>. QED
      BY <2>1, <2>6, MovesKeepInv
  <1>4. CASE DropInFrom(target, after, other)
    <2>. DEFINE sel == IF other THEN toSel ELSE fromSel
    <2>1. /\ Target(from, sel, target)
          /\ \E records \in InAnyOrder(sel) : from' = DroppedIn(from, records, target, after)
          /\ to' = IF other THEN Without(to, sel) ELSE to
          /\ toSel' = toSel \cap Range(to') /\ fromSel' = sel
          /\ SyncValue /\ Kept
      BY <1>4 DEF DropInFrom
    <2>2. sel \subseteq S
      BY <1>1, ItemsOfList
    <2>3. PICK records \in Seq(S) : /\ IsInjective(records) /\ Range(records) = sel
                                   /\ from' = DroppedIn(from, records, target, after)
      <3>. HIDE DEF sel
      <3>. QED
        BY <2>1, <2>2, InAnyOrderIs
    <2>4. from' \in Seq(S) /\ IsInjective(from') /\ Range(from') = Range(from) \cup sel
      <3>. HIDE DEF sel
      <3>. QED
        BY <1>1, <2>1, <2>3, DroppedInIs
    <2>5. to' \in Seq(S) /\ IsInjective(to')
          /\ Range(to') = IF other THEN Range(to) \ sel ELSE Range(to)
      BY <1>1, <2>1, WithoutIs
    <2>6. RecordsKept
      BY <1>1, <2>1, <2>4, <2>5 DEF RecordsKept, Listed, S
    <2>. QED
      BY <2>1, <2>6, MovesKeepInv
  <1>. QED
    BY <1>2, <1>3, <1>4

-----------------------------------------------------------------------------
\* The theorems.

\* Every step keeps the invariant.
LEMMA SelectorNextInv == SelectorInv /\ [SelectorNext]_selectorVars => SelectorInv'
  <1>. SUFFICES ASSUME SelectorInv, [SelectorNext]_selectorVars PROVE SelectorInv'
    OBVIOUS
  <1>. USE DEF SelectorInv, SelectorTypeOK, Empty, Divided, ValueIsOfTheRight, WantedIsSet
  <1>1. CASE UNCHANGED selectorVars
    BY <1>1 DEF selectorVars
  <1>2. CASE Click
    BY <1>2 DEF Click, Select, Kept
  <1>3. CASE \E on \in BOOLEAN : Enable(on)
    BY <1>3 DEF Enable, lists
  <1>. HIDE DEF SelectorInv
  <1>4. CASE \E keys \in Keys : SetValue(keys)
    BY <1>4, SetValueKeepsInv
  <1>5. CASE Load
    BY <1>5, LoadKeepsInv
  <1>6. CASE OnTop \/ OnBottom \/ OnUp \/ OnDown
    BY <1>6, ReordersKeepInv
  <1>7. CASE OnAdd \/ OnRemove
    BY <1>7, AddAndRemoveKeepInv
  <1>8. CASE OnItemDblClick
    BY <1>8, DblClickKeepsInv
  <1>9. CASE Drop
    BY <1>9, DropsKeepInv
  <1>. QED
    BY <1>1, <1>2, <1>3, <1>4, <1>5, <1>6, <1>7, <1>8, <1>9 DEF SelectorNext, Keys

\* So it always holds.
LEMMA SelectorAlways == SelectorSpec => []SelectorInv
  BY SelectorInitInv, SelectorNextInv, PTL DEF SelectorSpec

\* The lists hold records of the store, each once, and what is marked in a list
\* is in it, whatever is set, loaded, moved and dropped.
THEOREM SelectorTyped == SelectorSpec => []SelectorTypeOK
  <1>1. SelectorInv => SelectorTypeOK
    BY DEF SelectorInv
  <1>. QED
    BY <1>1, SelectorAlways, PTL

\* No record is lost or in both lists until the store is loaded a second time,
\* and the value of the field is the right list, in its order, whatever the
\* records are and whatever the user does.
THEOREM RecordsAreInOneList == SelectorSpec => []EachInOneList
  <1>1. SelectorInv => EachInOneList
    BY DEF SelectorInv, Divided, ValueIsOfTheRight, WantedIsSet, EachInOneList
  <1>. QED
    BY <1>1, SelectorAlways, PTL

\* The up and down buttons move each chosen record by one place at most, and
\* do not change the order of the chosen ones or of the others.
THEOREM UpAndDownAreByOne == SelectorSpec => []UpAndDownByOne
  <1>1. SelectorInv => UpAndDownByOne
    <2>. SUFFICES ASSUME SelectorInv PROVE UpAndDownByOne
      OBVIOUS
    <2>1. to \in Seq(Range(Items)) /\ IsInjective(to)
      BY DEF SelectorInv, SelectorTypeOK, Listed
    <2>2. /\ Rearranged(Range(Items), to, toSel, -1, MovedUp(to, toSel))
          /\ Rearranged(Range(Items), to, toSel, 1, MovedDown(to, toSel))
      BY <2>1, UpAndDownAre
    <2>3. OnePlace(to, MovedUp(to, toSel), toSel, -1)
      <3>. DEFINE step == -1
      <3>1. step \in {-1, 1} /\ Rearranged(Range(Items), to, toSel, step, MovedUp(to, toSel))
        BY <2>2
      <3>. HIDE DEF step
      <3>2. OnePlace(to, MovedUp(to, toSel), toSel, step)
        BY <2>1, <3>1, OnePlaceIs
      <3>. QED
        BY <3>2 DEF step
    <2>4. OnePlace(to, MovedDown(to, toSel), toSel, 1)
      <3>. DEFINE step == 1
      <3>1. step \in {-1, 1} /\ Rearranged(Range(Items), to, toSel, step, MovedDown(to, toSel))
        BY <2>2
      <3>. HIDE DEF step
      <3>2. OnePlace(to, MovedDown(to, toSel), toSel, step)
        BY <2>1, <3>1, OnePlaceIs
      <3>. QED
        BY <3>2 DEF step
    <2>. QED
      BY <2>3, <2>4 DEF UpAndDownByOne
  <1>. QED
    BY <1>1, SelectorAlways, PTL

===============================================================================
