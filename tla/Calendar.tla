------------------------------ MODULE Calendar ------------------------------
(***************************************************************************)
(* The calendar, counted day by day through the century that the UPS can   *)
(* represent: what from_unix_seconds and to_unix_seconds of crates/argon-  *)
(* proto/src/ups/status.rs have to compute, and what the bytes of a time   *)
(* have to keep.                                                           *)
(***************************************************************************)
EXTENDS UpsTime

CONSTANT Times   \* the seconds of a day to convert
DaySeconds == 0..86399

ASSUME CalendarAssumption == Times \subseteq DaySeconds

VARIABLE date   \* <<day since 1970-01-01, year, month, day of the month>>

Leap(y) == y % 4 = 0 /\ (y % 100 # 0 \/ y % 400 = 0)
DaysIn(m, y) == IF m = 2 THEN IF Leap(y) THEN 29 ELSE 28 ELSE IF m \in {4, 6, 9, 11} THEN 30 ELSE 31

CalendarInit == date = <<10957, 2000, 1, 1>>

Tomorrow ==
    /\ ~(date[2] = 2099 /\ date[3] = 12 /\ date[4] = 31)
    /\ LET n == date[1] y == date[2] m == date[3] d == date[4] IN
         date' = IF d < DaysIn(m, y) THEN <<n + 1, y, m, d + 1>>
                 ELSE IF m < 12 THEN <<n + 1, y, m + 1, 1>> ELSE <<n + 1, y + 1, 1, 1>>

CalendarSpec == CalendarInit /\ [][Tomorrow]_date

-----------------------------------------------------------------------------
\* Both conversions are the calendar, from the first second of the device's
\* century to its last, and a minute given to the device and taken back is the
\* same minute.
ConversionIsCalendar ==
    \A rem \in Times :
        LET t == FromUnix(date[1], rem) IN
          /\ t # None /\ SubSeq(t, 1, 3) = SubSeq(date, 2, 4)
          /\ ToUnix(t) = <<date[1], rem>>
          /\ DecodeClock(EncodeClock(t)) = t
          /\ DecodeSchedule(EncodeSchedule(t)) = SubSeq(t, 1, 5)
=============================================================================
