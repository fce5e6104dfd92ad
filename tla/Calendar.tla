------------------------------ MODULE Calendar ------------------------------
(***************************************************************************)
(* Instants and durations, their texts and the way back:                   *)
(* civil_from_epoch_secs, format_time_with_precision, parse_rfc3339 and    *)
(* parse_duration_string of crates/mangle-interpreter/src/lib.rs,          *)
(* format_time_nanos and format_duration_nanos of crates/mangle-common     *)
(* and the literals of crates/mangle-parse/src/scan.rs.                    *)
(*                                                                         *)
(* An instant is [days, tod, sub]: days since the epoch, second of the day *)
(* and ticks below the second.  A text is the sequence of its fields; the  *)
(* separators are left out.  Below the second the code counts in powers of *)
(* 1000 and nine digits; here Kilo stands for the 1000, and a second has   *)
(* Kilo^3 ticks and FracDigits digits.                                     *)
(***************************************************************************)
EXTENDS Integers, SequencesExt

Kilo       == 10
FracDigits == 3
Second     == Kilo * Kilo * Kilo
Minute     == 60 * Second
Hour       == 60 * Minute
Day        == 86400

\* Division of i64 rounds towards zero.
Quot(a, b) ==
    LET abs(x) == IF x < 0 THEN -x ELSE x
    IN  IF (a < 0) = (b < 0) THEN abs(a) \div abs(b) ELSE -(abs(a) \div abs(b))

\* Mutant of YearOfEra: without the correction for the last day of an era.
YearOfEraShort(doe) == (doe - doe \div 1460 + doe \div 36524) \div 365

\* The year of an era of 400 years that a day is in
YearOfEra(doe) == (doe - doe \div 1460 + doe \div 36524 - doe \div 146096) \div 365

\* The date of a day of a year that starts in March
InMarchYear(year, doy) ==
    LET mp == (5 * doy + 2) \div 153
        m  == IF mp < 10 THEN mp + 3 ELSE mp - 9
    IN  <<year + (IF m <= 2 THEN 1 ELSE 0), m, doy - (153 * mp + 2) \div 5 + 1>>

InEra(era, doe, yoe) ==
    InMarchYear(yoe + era * 400, doe - (365 * yoe + yoe \div 4 - yoe \div 100))

OfEra(era, doe) == InEra(era, doe, YearOfEra(doe))

\* civil_from_epoch_secs
Civil(days) ==
    LET z   == days + 719468
        era == Quot(IF z >= 0 THEN z ELSE z - 146096, 146097)
    IN  OfEra(era, z - era * 146097)

\* The way back, in parse_rfc3339_to_nanos; the day is not checked against the
\* month.
DaysFromCivil(year, month, day) ==
    LET y   == IF month <= 2 THEN year - 1 ELSE year
        era == Quot(IF y >= 0 THEN y ELSE y - 399, 400)
        yoe == y - era * 400
        adj == IF month > 2 THEN month - 3 ELSE month + 9
        doy == (153 * adj + 2) \div 5 + day - 1
    IN  era * 146097 + yoe * 365 + yoe \div 4 - yoe \div 100 + doy - 719468

\* The hour, the minute and the second of a second of the day.
Clock(tod) == <<tod \div 3600, (tod % 3600) \div 60, tod % 60>>

----------------------------------------------------------------------------
(* Texts of instants *)

\* n in w decimal digits, with leading zeros
Digits(n, w) ==
    LET at[i \in 0..w] == IF i = w THEN n ELSE at[i + 1] \div 10
    IN  [i \in 1..w |-> at[i] % 10]

\* trim_end_matches('0')
Trimmed(digits) ==
    LET live == {i \in DOMAIN digits : digits[i] # 0}
    IN  IF live = {} THEN <<>> ELSE SubSeq(digits, 1, Max(live))

\* The first FracDigits digits of a fraction, padded on the right: {:0<9}[..9]
Padded(frac) == [i \in 1..FracDigits |-> IF i <= Len(frac) THEN frac[i] ELSE 0]

Value10(digits) == FoldLeft(LAMBDA n, d : 10 * n + d, 0, digits)

Text(date, clock, frac) == [date |-> date, clock |-> clock, frac |-> frac]

\* format_time_nanos, and format_time_with_precision for /nanosecond
FormatTime(t) == Text(Civil(t.days), Clock(t.tod), Trimmed(Digits(t.sub, FracDigits)))

\* How many fields of the date and of the clock and how many digits each
\* precision keeps
Kept == [year |-> <<1, 0, 0>>, month |-> <<2, 0, 0>>, day |-> <<3, 0, 0>>,
         hour |-> <<3, 1, 0>>, minute |-> <<3, 2, 0>>, second |-> <<3, 3, 0>>,
         millisecond |-> <<3, 3, 1>>, microsecond |-> <<3, 3, 2>>]

\* format_time_with_precision
FormatPrecision(t, precision) ==
    IF precision = "nanosecond" THEN FormatTime(t)
    ELSE Text(SubSeq(Civil(t.days), 1, Kept[precision][1]),
              SubSeq(Clock(t.tod), 1, Kept[precision][2]),
              SubSeq(Digits(t.sub, FracDigits), 1, Kept[precision][3]))

NoInstant == [days |-> 0, tod |-> -1, sub |-> 0]

\* The instant that a date, a clock and a fraction name; each field may be out
\* of its range, what it has too much is carried.
Instant(date, clock, frac) ==
    LET secs == 3600 * clock[1] + 60 * clock[2] + clock[3]
    IN  [days |-> DaysFromCivil(date[1], date[2], date[3]) + secs \div Day,
         tod  |-> secs % Day,
         sub  |-> Value10(Padded(frac))]

\* parse_rfc3339_to_nanos: a text without a full date is too short, one with a
\* T needs all of the clock; a zone other than Z is not looked at.
ParseRfc3339(text) ==
    IF Len(text.date) < 3 \/ Len(text.clock) \in 1..2 THEN NoInstant
    ELSE IF text.clock = <<>> THEN Instant(text.date, <<0, 0, 0>>, <<>>)
    ELSE Instant(text.date, text.clock, text.frac)

\* Scanner::timestamp and parse_timestamp_to_nanos: the scanner insists on the
\* same fields.
ScanTimestamp(text) ==
    IF Len(text.date) < 3 \/ Len(text.clock) \in 1..2 THEN NoInstant
    ELSE Instant(text.date,
                 IF text.clock = <<>> THEN <<0, 0, 0>> ELSE text.clock,
                 IF text.clock = <<>> THEN <<>> ELSE text.frac)

\* parse_timezone_offset: UTC, or a sign, hours and minutes; in seconds
TimezoneOffset(tz) ==
    IF tz = <<>> THEN 0 ELSE tz[1] * (tz[2] * 3600 + tz[3] * 60)

\* An instant moved by seconds, as i64 nanoseconds move it.
Shift(t, secs) ==
    [t EXCEPT !.days = @ + (t.tod + secs) \div Day, !.tod = (@ + secs) % Day]

\* fn:time:format_civil and fn:time:parse_civil
FormatCivil(t, tz, precision) == FormatPrecision(Shift(t, TimezoneOffset(tz)), precision)

ParseCivil(text, tz) ==
    LET t == ParseRfc3339(text)
    IN  IF t = NoInstant THEN t ELSE Shift(t, -TimezoneOffset(tz))

----------------------------------------------------------------------------
(* Texts of durations, a sign and parts [num, frac, unit] *)

UnitTicks == [ns |-> 1, us |-> Kilo, ms |-> Kilo * Kilo, s |-> Second, m |-> Minute, h |-> Hour]

Part(num, frac, unit) == [num |-> num, frac |-> frac, unit |-> unit]

\* format_duration_nanos
FormatDuration(n) ==
    LET abs  == IF n < 0 THEN -n ELSE n
        h    == abs \div Hour
        m    == (abs % Hour) \div Minute
        \* the last part: whole units of `unit`, and the rest in w digits
        last(rest, unit, w) ==
          <<Part(rest \div UnitTicks[unit],
                 Trimmed(Digits(rest % UnitTicks[unit], w)), unit)>>
        parts ==
          CASE abs = 0 -> <<Part(0, <<>>, "s")>>
            [] abs >= Second ->
                 (IF h > 0 THEN <<Part(h, <<>>, "h")>> ELSE <<>>)
                 \o (IF h > 0 \/ m > 0 THEN <<Part(m, <<>>, "m")>> ELSE <<>>)
                 \o last(abs % Minute, "s", 3)
            [] abs >= Kilo * Kilo -> last(abs, "ms", 2)
            [] abs >= Kilo -> last(abs, "us", 1)
            [] OTHER -> <<Part(abs, <<>>, "ns")>>
    IN  [sign |-> IF n < 0 THEN -1 ELSE 1, parts |-> parts]

\* A part with a fraction goes through f64 and is truncated: 1.001 * 1e9 is
\* 1000999999.99..., so the ticks are the exact ones or one less.
PartTicks(p) ==
    LET exact == p.num * UnitTicks[p.unit]
                 + (Value10(Padded(p.frac)) * UnitTicks[p.unit]) \div 10^FracDigits
    IN  IF p.frac = <<>> THEN {exact} ELSE {exact, exact - 1}

\* parse_duration_string: the durations that the build may compute for a text
ParseDuration(text) ==
    LET Add(sums, p) == {a + b : a \in sums, b \in PartTicks(p)}
    IN  {text.sign * sum : sum \in FoldLeft(Add, {0}, text.parts)}
=============================================================================
