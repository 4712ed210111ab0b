------------------------------ MODULE UpsTime ------------------------------
(***************************************************************************)
(* crates/argon-proto/src/ups/status.rs and bcd.rs: what the UPS's bytes   *)
(* mean, and the conversion between its calendar and seconds.  A byte is a *)
(* number below 256, a refused conversion is None, and a moment is a day   *)
(* since 1970-01-01 with a second of that day.                             *)
(***************************************************************************)
EXTENDS Integers, Sequences

CONSTANT None

\* A refused conversion is not a number and not a time.
ASSUME NoneIsRefusal == None \notin Int /\ None \notin Seq(Nat)

Byte == 0..255
Century == 2000..2099   \* two digits and an offset

\* What two digits a field and an offset of 2000 can hold.
Storable(t, fields) ==
    /\ t \in [1..fields -> Nat] /\ Len(t) = fields
    /\ t[1] \in Century /\ \A i \in 2..fields : t[i] \in 0..99

BcdDecode(byte) ==
    IF byte % 16 > 9 \/ byte \div 16 > 9 THEN None ELSE (byte \div 16) * 10 + (byte % 16)

BcdEncode(value) == IF value > 99 THEN None ELSE (value \div 10) * 16 + (value % 10)

\* BatteryStatus::decode: a percentage above 100 is clamped, zero means mains.
DecodeBattery(payload) ==
    IF Len(payload) # 2 THEN None
    ELSE [percent |-> IF payload[1] > 100 THEN 100 ELSE payload[1],
          source |-> IF payload[2] = 0 THEN "mains" ELSE "battery"]

\* A time is <<year, month, day, hour, minute>>, and for a clock <<..., second>>.
DecodeTime(payload, fields) ==
    IF Len(payload) # fields \/ \E i \in 1..fields : BcdDecode(payload[i]) = None THEN None
    ELSE [i \in 1..fields |-> BcdDecode(payload[i]) + IF i = 1 THEN 2000 ELSE 0]

DecodeClock(payload) == DecodeTime(payload, 6)
DecodeSchedule(payload) == DecodeTime(payload, 5)
\* No payload is a valid answer: nothing is scheduled.
DecodeOptionalSchedule(payload) == IF payload = <<>> THEN <<>> ELSE DecodeSchedule(payload)

EncodeTime(t, fields) ==
    IF t[1] \notin Century \/ \E i \in 2..fields : i <= Len(t) /\ t[i] > 99 THEN None
    ELSE [i \in 1..fields |-> IF i > Len(t) THEN 0
                              ELSE BcdEncode(t[i] - IF i = 1 THEN 2000 ELSE 0)]

EncodeClock(t) == EncodeTime(t, 6)
EncodeSchedule(t) == EncodeTime(t, 5)

\* Every field within its range; the 31st of any month is.
IsPlausible(t) ==
    /\ t[1] \in Century /\ t[2] \in 1..12 /\ t[3] \in 1..31 /\ t[4] \in 0..23 /\ t[5] \in 0..59
    /\ Len(t) = 6 => t[6] \in 0..59

EpochShift == 719468   \* days from 0000-03-01 to 1970-01-01
EraYears == 400
EraDays == 146097      \* days of them

\* Days from March 1st of an era's first year to March 1st of its year `yoe`.
DaysOfYears(yoe) == yoe * 365 + yoe \div 4 - yoe \div 100

\* Mutant: a century is no exception, as in the Julian calendar.
DayOfEraJulian(y) == (y % 400) * 365 + (y % 400) \div 4

DayOfEra(y) == DaysOfYears(y % EraYears)

YearOfEra(doe) == (doe - doe \div 1460 + doe \div 36524 - doe \div 146096) \div 365

\* The date of day `doy` of a year that begins in March, and back.
DateOf(year, doy) ==
    LET mp == (5 * doy + 2) \div 153
        month == IF mp < 10 THEN mp + 3 ELSE mp - 9
    IN <<year + IF month <= 2 THEN 1 ELSE 0, month, doy - (153 * mp + 2) \div 5 + 1>>

MarchYear(year, month) == year - IF month <= 2 THEN 1 ELSE 0
DayOfYear(month, day) ==
    LET mp == IF month > 2 THEN month - 3 ELSE month + 9 IN (153 * mp + 2) \div 5 + day - 1

TimeOfDay(rem) == <<rem \div 3600, (rem % 3600) \div 60, rem % 60>>

\* from_unix_seconds: civil-from-days, for the years the device can represent.
FromUnix(days, rem) ==
    LET z == days + EpochShift
        doe == z % EraDays
        yoe == YearOfEra(doe)
        date == DateOf(yoe + (z \div EraDays) * EraYears, doe - DaysOfYears(yoe))
        time == TimeOfDay(rem)
    IN IF date[1] \notin Century THEN None
       ELSE <<date[1], date[2], date[3], time[1], time[2], time[3]>>

\* to_unix_seconds: the day and the second of it.
DayOf(year, month, day) ==
    LET y == MarchYear(year, month) IN
      (y \div EraYears) * EraDays + DayOfEra(y) + DayOfYear(month, day) - EpochShift

ToUnix(t) ==
    IF ~IsPlausible(t) THEN None
    ELSE <<DayOf(t[1], t[2], t[3]), t[4] * 3600 + t[5] * 60 + IF Len(t) = 6 THEN t[6] ELSE 0>>
=============================================================================
