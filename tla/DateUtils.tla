------------------------------- MODULE DateUtils -------------------------------
(***************************************************************************)
(* Coded dates: a field where +3W stands for the third working day from    *)
(* now, -1F for the last working day of the month before.                  *)
(*                                                                         *)
(* A date is the number of days since Sunday 1 January 2012, and every     *)
(* fourth year is a leap year, as it is until 2099.  A coded date is its   *)
(* number and its letter; the time of the day and the case of the letter   *)
(* are left out.                                                           *)
(***************************************************************************)
EXTENDS Integers, Sequences, SequencesExt, FiniteSetsExt

CONSTANTS
    Todays,     \* what today may be
    MaxNumber   \* bound of the number of a coded date

\* No coded date is before the calendar.
ASSUME DatesAssumption ==
    /\ MaxNumber \in Nat
    /\ \A d \in Todays : d \in Nat /\ d >= 31 * (12 * MaxNumber + 2)

VARIABLES
    today,
    coded,      \* the coded date that was typed or changed
    decoded     \* the date it was decoded to, or NoDate

dateVars == <<today, coded, decoded>>

NoDate == -1   \* before the calendar
Letters == {"D", "W", "M", "Y", "P", "F", "B", "L"}
NoLetter == "no letter"

-----------------------------------------------------------------------------
\* Ext.Date.  Months are counted from 0, January 2012.

DaysInMonth(m) ==
    CASE m % 12 \in {3, 5, 8, 10} -> 30
      [] m % 12 = 1 -> IF (m \div 12) % 4 = 0 THEN 29 ELSE 28
      [] OTHER -> 31

FirstDay(m) ==
    LET leapDays == (m \div 12 + 3) \div 4
                      + (IF (m \div 12) % 4 = 0 /\ m % 12 > 1 THEN 1 ELSE 0)
        before == <<0, 31, 59, 90, 120, 151, 181, 212, 243, 273, 304, 334>>
    IN 365 * (m \div 12) + leapDays + before[(m % 12) + 1]

MonthOf(d) == Max({m \in (d \div 31)..(d \div 28) : FirstDay(m) <= d})
DayOf(d) == d - FirstDay(MonthOf(d))   \* from 0
GetDay(d) == d % 7                      \* 0 is Sunday, 6 is Saturday

FirstDateOfMonth(d) == FirstDay(MonthOf(d))
LastDateOfMonth(d) == FirstDateOfMonth(d) + DaysInMonth(MonthOf(d)) - 1

\* The same day of a month n later, or the last one it has.
AddMonths(d, n) ==
    LET m == MonthOf(d) + n
    IN FirstDay(m) + Min({DayOf(d), DaysInMonth(m) - 1})

-----------------------------------------------------------------------------
\* getDateDecoded.

Abs(n) == Max({n, -n})

Weekend(d) == GetDay(d) \in {0, 6}

\* W: one day at a time, until enough of them were working days.
AddWorkingDays(d, n) ==
    LET step == IF n < 0 THEN -1 ELSE 1
        Walk(a) == [date |-> a.date + step,
                    left |-> a.left - (IF Weekend(a.date + step) THEN 0 ELSE 1)]
        days == 2 * Abs(n) + 2   \* there are as many working days in them
        walk[k \in 0..days] ==
          IF k = 0 THEN [date |-> d, left |-> Abs(n)]
          ELSE IF walk[k - 1].left = 0 THEN walk[k - 1] ELSE Walk(walk[k - 1])
    IN walk[days].date

\* Variant: a Sunday is taken for a Saturday.
FirstWorkingDate_Saturdays(d) == d + (IF Weekend(d) THEN 2 ELSE 0)

\* P and S: forward from the first of the month.
FirstWorkingDate(d) ==
    d + (CASE GetDay(d) = 0 -> 1 [] GetDay(d) = 6 -> 2 [] OTHER -> 0)

\* F and E: backward from its last.
LastWorkingDate(d) ==
    d - (CASE GetDay(d) = 0 -> 2 [] GetDay(d) = 6 -> 1 [] OTHER -> 0)

GetDateDecoded(c, d) ==
    CASE c.letter = "D" -> d + c.number
      [] c.letter = "W" -> AddWorkingDays(d, c.number)
      [] c.letter = "M" -> AddMonths(d, c.number)
      [] c.letter = "Y" -> AddMonths(d, 12 * c.number)
      [] c.letter = "P" -> FirstWorkingDate(FirstDateOfMonth(AddMonths(d, c.number)))
      [] c.letter = "F" -> LastWorkingDate(LastDateOfMonth(AddMonths(d, c.number)))
      [] c.letter = "B" -> FirstDateOfMonth(AddMonths(d, c.number))
      [] c.letter = "L" -> LastDateOfMonth(AddMonths(d, c.number))
      [] OTHER -> NoDate

\* addDaysCodedDate and subtractDaysCodedDate: the letter is not put back.
AddDaysCodedDate(c, days) == [number |-> c.number + days, letter |-> NoLetter]

-----------------------------------------------------------------------------
DatesInit ==
    /\ today \in Todays
    /\ coded \in [number : -MaxNumber..MaxNumber, letter : Letters]
    /\ decoded = NoDate

Decode ==
    /\ decoded = NoDate
    /\ decoded' = GetDateDecoded(coded, today)
    /\ UNCHANGED <<today, coded>>

\* A number of one digit that lost its letter would lose its digit next.
AddDays ==
    /\ coded.letter # NoLetter
    /\ \E days \in {-1, 1} : coded' = AddDaysCodedDate(coded, days)
    /\ decoded' = NoDate
    /\ UNCHANGED today

DatesNext == Decode \/ AddDays

DatesSpec == DatesInit /\ [][DatesNext]_dateVars

DatesTypeOK ==
    /\ today \in Todays
    /\ coded \in [number : -(MaxNumber + 1)..(MaxNumber + 1), letter : Letters \union {NoLetter}]
    /\ decoded \in {NoDate} \union (Nat)

-----------------------------------------------------------------------------
\* Properties.

\* The days from one date to another, without the first.
Between(d, e) == IF d <= e THEN (d + 1)..e ELSE e..(d - 1)

SameMonthAs(d, n) == FirstDay(MonthOf(d) + n)..(FirstDay(MonthOf(d) + n + 1) - 1)

WorkingIn(days) == {e \in days : ~Weekend(e)}

\* A coded date stands for what its letter says, whatever day it is read and
\* however the months and the weekends fall: as many working days away, the
\* first or the last working day of a month that many months away, not of
\* another; and a month is never left out because it is short.
DecodedIsMeant ==
    LET n == coded.number
        month == SameMonthAs(today, IF coded.letter = "Y" THEN 12 * n ELSE n)
    IN decoded # NoDate =>
         CASE coded.letter = "W" ->
                IF n = 0 THEN decoded = today
                ELSE /\ Cardinality(WorkingIn(Between(today, decoded))) = Abs(n)
                     /\ ~Weekend(decoded) /\ (n > 0) = (decoded > today)
           [] coded.letter = "P" -> decoded = Min(WorkingIn(month))
           [] coded.letter = "F" -> decoded = Max(WorkingIn(month))
           [] coded.letter = "B" -> decoded = Min(month)
           [] coded.letter = "L" -> decoded = Max(month)
           [] coded.letter \in {"M", "Y"} ->
                decoded = Max({e \in month : DayOf(e) <= DayOf(today)})
           [] OTHER -> decoded - today = n

================================================================================
