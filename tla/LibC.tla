-------------------------------- MODULE LibC --------------------------------
(* The functions of kernel/libc.c that compute something: sorting and          *)
(* searching, numbers as text and back, and the calendar, in the code's own    *)
(* widths.  A comparison is that of integers; a text is a sequence of          *)
(* characters, each named by the value it has as a digit.                      *)
EXTENDS Integers, Sequences, FiniteSets, SequencesExt

CONSTANTS Items, MaxItems, Years, Values   \* what is sampled

VARIABLE sample

-----------------------------------------------------------------------------
(* qsort and bsearch, whose arrays begin at 0 *)

QsortSwap(base, left, right) ==
    [base EXCEPT ![left + 1] = base[right + 1], ![right + 1] = base[left + 1]]

\* Broken variant: the last element is not looked at
PartitionShort(base, left, right) ==
    LET swapped == QsortSwap(base, left, (left + right) \div 2)
    IN  FoldLeft(LAMBDA acc, i :
                   IF acc.base[i + 1] < acc.base[left + 1]
                   THEN [base |-> QsortSwap(acc.base, acc.last + 1, i), last |-> acc.last + 1]
                   ELSE acc,
                 [base |-> swapped, last |-> left],
                 [k \in 1 .. right - left - 1 |-> left + k])

\* What is less than the pivot goes before it
Partition(base, left, right) ==
    LET swapped == QsortSwap(base, left, (left + right) \div 2)
    IN  FoldLeft(LAMBDA acc, i :
                   IF acc.base[i + 1] < acc.base[left + 1]
                   THEN [base |-> QsortSwap(acc.base, acc.last + 1, i), last |-> acc.last + 1]
                   ELSE acc,
                 [base |-> swapped, last |-> left],
                 [k \in 1 .. right - left |-> left + k])

RECURSIVE qsort2(_, _, _)
qsort2(base, left, right) ==
    IF left >= right THEN base
    ELSE LET p    == Partition(base, left, right)
             both == QsortSwap(p.base, left, p.last)
         IN  qsort2(qsort2(both, left, p.last - 1), p.last + 1, right)

qsort(base) == qsort2(base, 0, Len(base) - 1)

\* The index of key between low and high, or -1
RECURSIVE Search(_, _, _, _)
Search(key, base, low, high) ==
    LET mid == (low + high) \div 2 IN
    IF low > high THEN -1
    ELSE IF key < base[mid + 1] THEN Search(key, base, low, mid - 1)
    ELSE IF key > base[mid + 1] THEN Search(key, base, mid + 1, high)
    ELSE mid

bsearch(key, base) == Search(key, base, 0, Len(base) - 1)
-----------------------------------------------------------------------------
(* itoa and strtol *)

Alphanumeric == 0..35     \* a digit, or a letter of either case
X == 33
Minus == 36
Space == 37

RECURSIVE Digits(_, _)
Digits(num, base) ==
    IF num < base THEN <<num>> ELSE Append(Digits(num \div base, base), num % base)

\* In base 16 for what is not negative
itoa(num, base) == IF num < 0 THEN <<Minus>> \o Digits(- num, base) ELSE Digits(num, base)

\* No more than nine digits are read; end is where the rest of the text begins, or the ninth
\* digit when that was the last one read
strtol(text, base) ==
    LET signed == text # <<>> /\ text[1] = Minus
        s      == IF signed THEN Tail(text) ELSE text
        hex    == Len(s) > 1 /\ s[1] = 0 /\ s[2] = X
        t      == IF hex THEN SubSeq(s, 3, Len(s)) ELSE s
        n      == CHOOSE k \in 0..9 :
                     /\ \A i \in 1..k : i <= Len(t) /\ t[i] \in Alphanumeric
                     /\ k = 9 \/ k = Len(t) \/ t[k + 1] \notin Alphanumeric
        value  == FoldLeft(LAMBDA v, d : (v * (IF hex THEN 16 ELSE base)) + d, 0, SubSeq(t, 1, n))
    IN  [value |-> IF signed THEN - value ELSE value,
         end   |-> SubSeq(t, IF n = 9 THEN 9 ELSE n + 1, Len(t))]
-----------------------------------------------------------------------------
(* The calendar, from 1980 on *)

DaysUntilMonth == <<0, 31, 59, 90, 120, 151, 181, 212, 243, 273, 304, 334, 365>>
DaysInMonth == <<31, 28, 31, 30, 31, 30, 31, 31, 30, 31, 30, 31>>
SEC_PER_DAY == 24 * 60 * 60

IsLeapYear(year) == (year % 4 = 0 /\ year % 100 # 0) \/ year % 400 = 0
Leap(year) == IF IsLeapYear(year) THEN 1 ELSE 0

\* Broken variant: the leap day of a year counts from its first day on
LeapDaysEarly(tm) ==
    Cardinality({y \in 1980 .. 1900 + tm.year : y % 4 = 0 /\ (y % 100 # 0 \/ y % 400 = 0)})

\* The leap days up to a date
LeapDays(tm) ==
    Cardinality({y \in 1980 .. 1900 + tm.year - (IF tm.mon < 2 THEN 1 ELSE 0) :
                   y % 4 = 0 /\ (y % 100 # 0 \/ y % 400 = 0)})

mktime(tm) ==
    LET days == tm.mday - 1 + DaysUntilMonth[tm.mon + 1] + 365 * (tm.year - 80) + LeapDays(tm)
    IN  tm.sec + 60 * (tm.min + 60 * (tm.hour + 24 * days)) - (IF tm.isdst THEN 60 * 60 ELSE 0)

\* The loops that take whole years, and whole months, off the days
RECURSIVE TakeYears(_, _)
TakeYears(days, year) ==
    LET delta == 365 + Leap(1980 + year) IN
    IF days >= delta THEN TakeYears(days - delta, year + 1) ELSE [days |-> days, year |-> year]

RECURSIVE TakeMonths(_, _, _)
TakeMonths(days, month, leap) ==
    LET delta == DaysInMonth[month + 1] + (IF month = 1 THEN leap ELSE 0) IN
    IF days >= delta THEN TakeMonths(days - delta, month + 1, leap)
    ELSE [days |-> days, month |-> month]

\* dst: from when to when an hour is added
gmtime_r(time, dst) ==
    LET isdst   == dst.from <= time /\ time < dst.until
        seconds == IF isdst THEN time + 60 * 60 ELSE time
        y       == TakeYears(seconds \div SEC_PER_DAY, 0)
        m       == TakeMonths(y.days, 0, Leap(1980 + y.year))
        rest    == seconds % SEC_PER_DAY
    IN  [isdst |-> isdst, year |-> y.year + 80, mon |-> m.month, mday |-> m.days + 1,
         yday |-> DaysUntilMonth[m.month + 1] + m.days,
         hour |-> rest \div (60 * 60), min |-> (rest \div 60) % 60, sec |-> rest % 60,
         wday |-> (((seconds \div SEC_PER_DAY) % 7) + 2) % 7]

NoDst == [from |-> 0, until |-> 0]
First(year, mon) ==
    [isdst |-> FALSE, year |-> year, mon |-> mon, mday |-> 1, hour |-> 2, min |-> 0, sec |-> 0]

\* Weeks are counted from the first of March and of November, even when that is a Sunday
gmtimeDstSet(time) ==
    LET year  == gmtime_r(time, NoDst).year
        march == mktime(First(year, 2))
        nov   == mktime(First(year, 10))
    IN  [from  |-> march + (14 - gmtime_r(march, NoDst).wday) * SEC_PER_DAY,
         until |-> nov + (7 - gmtime_r(nov, NoDst).wday) * SEC_PER_DAY]
-----------------------------------------------------------------------------
SampleInit == sample = [kind |-> "none"]

TakeSample ==
    /\ sample.kind = "none"
    /\ \/ \E base \in BoundedSeq(Items, MaxItems) : sample' = [kind |-> "array", base |-> base]
       \/ \E num \in Values : sample' = [kind |-> "number", num |-> num]
       \/ \E y \in Years, d \in 0 .. 366 :
             sample' = [kind |-> "day", day |-> 365 * (y - 1980) + (y - 1977) \div 4 + d]

\* The array holds what it held, in order, and what is in it is found, and nothing else
Sorted ==
    LET base == sample.base sorted == qsort(base) IN
    /\ \A i \in 2 .. Len(sorted) : sorted[i - 1] <= sorted[i]
    /\ \A x \in Items :
          /\ Cardinality({i \in DOMAIN base : base[i] = x}) = Cardinality({i \in DOMAIN sorted : sorted[i] = x})
          /\ LET at == bsearch(x, sorted) IN IF at = -1 THEN x \notin ToSet(base) ELSE sorted[at + 1] = x

\* A number of up to nine digits is read as it was written, and the end found if there
\* are less
ReadBack ==
    \A base \in {10} \cup (IF sample.num < 0 THEN {} ELSE {16}) :
        LET text == itoa(sample.num, base)
            back == strtol((IF base = 16 THEN <<0, X>> ELSE <<>>) \o text \o <<Space>>, 10)
        IN  Len(text) <= 9 => back.value = sample.num /\ (Len(text) < 9 => back.end = <<Space>>)

\* Reference: the date of the next day
DaysOf(tm) == DaysInMonth[tm.mon + 1] + (IF tm.mon = 1 THEN Leap(1900 + tm.year) ELSE 0)
NextDay(tm) ==
    LET month == tm.mday = DaysOf(tm) year == month /\ tm.mon = 11 IN
    [year |-> IF year THEN tm.year + 1 ELSE tm.year,
     mon |-> IF year THEN 0 ELSE IF month THEN tm.mon + 1 ELSE tm.mon,
     mday |-> IF month THEN 1 ELSE tm.mday + 1, wday |-> (tm.wday + 1) % 7]
Date(tm) == [year |-> tm.year, mon |-> tm.mon, mday |-> tm.mday, wday |-> tm.wday]

\* Days follow each other as in the calendar, mktime undoes gmtime_r, also while an hour is
\* added, and that begins on the second Sunday in March, unless March begins with a Sunday
CalendarKept ==
    LET start == sample.day * SEC_PER_DAY dst == gmtimeDstSet(start) IN
    /\ \A s \in {0, 3599, 7200, SEC_PER_DAY - 1} :
          /\ Date(gmtime_r(start + SEC_PER_DAY + s, NoDst)) = NextDay(gmtime_r(start + s, NoDst))
          /\ \A d \in {NoDst, dst} : mktime(gmtime_r(start + s, d)) = start + s
    /\ LET tm == gmtime_r(dst.from, NoDst) IN
       /\ tm.mon = 2 /\ tm.wday = 0 /\ tm.hour = 2
       /\ gmtime_r(dst.from - (tm.mday - 1) * SEC_PER_DAY, NoDst).wday # 0 => tm.mday \in 8 .. 14

\* The functions of kernel/libc.c sort, find, print and read, and count days as they should
LibraryRight ==
    CASE sample.kind = "array" -> Sorted
      [] sample.kind = "number" -> ReadBack
      [] sample.kind = "day" -> CalendarKept
      [] OTHER -> TRUE
=============================================================================
