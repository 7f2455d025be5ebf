----------------------------- MODULE ClockSubr -----------------------------
(***************************************************************************)
(* The real-time clock's date as POSIX time: clock_subr.c.  A date and its *)
(* successors; the seconds are kept as days and the seconds of the day.    *)
(***************************************************************************)
EXTENDS Integers, Folds

CONSTANTS FirstYear, LastYear
POSIX_BASE_YEAR == 1970
FEBRUARY == 2

VARIABLES dt     \* the register contents: year, mon, day, hour, min, sec
dvars == <<dt>>

days_in_month(m) == IF m = 2 THEN 28 ELSE IF m \in {4, 6, 9, 11} THEN 30 ELSE 31

\* Variant: no century is a leap year.
is_leap_year_NoCentury(year) == year % 4 = 0 /\ year % 100 # 0
is_leap_year(year) == year % 4 = 0 /\ (year % 100 # 0 \/ year % 400 = 0)
days_per_year(year) == IF is_leap_year(year) THEN 366 ELSE 365

DAYSTO2000 == 365 * 30 + 7
DAYS4YEARS == 365 * 4 + 1
DAYS100YEARS == 365 * 100 + 24
DAYS400YEARS == 365 * 400 + 97

Total(Days(_), from, to) == MapThenFoldSet(+, 0, Days, LAMBDA S : CHOOSE x \in S : TRUE, from .. to)

\* The years before y, counted in centuries and groups of four from 2000 on.
\* (The first of the centuries has 25 leap years, not the 24 of DAYS100YEARS;
\* the group of four that starts the next one makes up for it, so that 2100 to
\* 2103 come out a day early.  The clock's two digits end with 2099.)
DaysBefore(y) ==
  IF y < 2000 THEN Total(days_per_year, POSIX_BASE_YEAR, y - 1)
  ELSE DAYSTO2000 + ((y - 2000) \div 400) * DAYS400YEARS
       + (((y - 2000) % 400) \div 100) * DAYS100YEARS
       + (((y - 2000) % 100) \div 4) * DAYS4YEARS
       + Total(days_per_year, y - ((y - 2000) % 4), y - 1)

clock_ymdhms_to_secs(d) ==
  [days |-> DaysBefore(d.year) + (IF is_leap_year(d.year) /\ d.mon > FEBRUARY THEN 1 ELSE 0)
            + Total(days_in_month, 1, d.mon - 1) + d.day - 1,
   secs |-> (d.hour * 60 + d.min) * 60 + d.sec]

\* The clock's registers are decimal digits in nibbles.
bcdtobin(bcd) == ((bcd \div 16) % 16) * 10 + (bcd % 16)
Bcd(n) == (n \div 10) * 16 + (n % 10)

\* rtc_gettimeofday, from the registers rtc.
rtc_gettimeofday(rtc) ==
  clock_ymdhms_to_secs([year |-> bcdtobin(rtc.year) + 2000, mon |-> bcdtobin(rtc.mon), day |-> bcdtobin(rtc.day),
                        hour |-> bcdtobin(rtc.hour), min |-> bcdtobin(rtc.min), sec |-> bcdtobin(rtc.sec)])

-----------------------------------------------------------------------------
(* The calendar: the last second of a day and the first of the next.       *)

MonthLength(d) == IF d.mon = 2 /\ ((d.year % 4 = 0 /\ d.year % 100 # 0) \/ d.year % 400 = 0) THEN 29 ELSE days_in_month(d.mon)
NextMonth(d) == IF d.mon = 12 THEN [d EXCEPT !.year = @ + 1, !.mon = 1, !.day = 1] ELSE [d EXCEPT !.mon = @ + 1, !.day = 1]
Tomorrow(d) ==
  [(IF d.day = MonthLength(d) THEN NextMonth(d) ELSE [d EXCEPT !.day = @ + 1]) EXCEPT !.hour = 0, !.min = 0, !.sec = 0]

DInit == dt = [year |-> FirstYear, mon |-> 1, day |-> 1, hour |-> 0, min |-> 0, sec |-> 0]

\* To the end of the month, and on to the next one.
endofmonth ==
  /\ dt.day = 1 /\ (dt.year < LastYear \/ dt.mon < 12)
  /\ dt' = [dt EXCEPT !.day = MonthLength(dt), !.hour = 23, !.min = 59, !.sec = 59]
midnight == dt.day # 1 /\ dt' = Tomorrow(dt)

DNext == endofmonth \/ midnight
DSpec == DInit /\ [][DNext]_dvars

-----------------------------------------------------------------------------
(* Properties                                                              *)

\* Over the end of every month and year, leap years and centuries included,
\* clock_ymdhms_to_secs counts on by exactly one second, from 0 at the epoch;
\* and the two digits of the clock's year mean this century.
SecondsCount ==
  /\ clock_ymdhms_to_secs([dt EXCEPT !.year = 1970, !.mon = 1, !.day = 1]).days = 0
  /\ dt.sec = 59 =>
       /\ clock_ymdhms_to_secs(dt).secs = 24 * 60 * 60 - 1
       /\ clock_ymdhms_to_secs(Tomorrow(dt)) = [days |-> clock_ymdhms_to_secs(dt).days + 1, secs |-> 0]
  /\ dt.year \in 2000 .. 2099 =>
       rtc_gettimeofday([year |-> Bcd(dt.year % 100), mon |-> Bcd(dt.mon), day |-> Bcd(dt.day),
                         hour |-> Bcd(dt.hour), min |-> Bcd(dt.min), sec |-> Bcd(dt.sec)]) = clock_ymdhms_to_secs(dt)

=============================================================================
