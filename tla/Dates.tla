-------------------------------- MODULE Dates --------------------------------
(***************************************************************************)
(* The Date constructor, Date.UTC and the setters of date.go.  A time is   *)
(* <<day, ms>>, whole days from 1970-01-01 and milliseconds of the day, or   *)
(* NoTime.  The time zone of the host is Offset minutes from UTC.           *)
(* An argument is an integer, NaN, or <<"conv", id, n, sets>>: an object    *)
(* whose valueOf sets the date to sets[1], if there is one, and answers n,  *)
(* or throws when n is Thrown.  st has the date and the trace of calls.   *)
(***************************************************************************)
EXTENDS Integers, Sequences

CONSTANTS
  Offset,             \* the zone of the host: minutes from UTC
  MaxInt, MaxInt32,   \* the last of int64, and of int32
  Cycle               \* the milliseconds of int64, all of them, as a time

NoTime == <<"no time">>
NaN == <<"nan">>
Thrown == <<"thrown">>
Num(n) == <<"num", n>>
DaysOf400 == 146097                \* the days of 400 years
MsPerSecond == 1000
MsPerMinute == 60000
MsPerHour == 3600000
MsPerDay == 86400000
MaxDay == 100000000               \* maxTime: this many days, and no more

\* What is taken of the constants (MCLibrary assumes it).
DatesAssumption ==
  /\ Offset \in Int /\ -1440 <= Offset /\ Offset <= 1440
  /\ MaxInt \in Nat /\ MaxInt32 \in MaxDay..MaxInt
  /\ Cycle \in Nat \X (0..(MsPerDay - 1)) /\ Cycle[1] > 10 * MaxDay

\* The Gregorian calendar, as Go's time package has it: the days before a year,
\* the days before a month, and the fields of a day.
Leap(y) == (y % 4 = 0 /\ y % 100 # 0) \/ y % 400 = 0
BeforeYear(y) == 365 * (y - 1970) + ((y - 1969) \div 4) - ((y - 1901) \div 100) + ((y - 1601) \div 400)
BeforeMonth(y, m) ==
  <<0, 31, 59, 90, 120, 151, 181, 212, 243, 273, 304, 334>>[m + 1] + (IF Leap(y) /\ m > 1 THEN 1 ELSE 0)
YearOf(day) ==
  LET block == day \div DaysOf400
      rest == day % DaysOf400
      near == 1970 + (rest \div 366)
  IN  400 * block + CHOOSE y \in near..(near + 1) : BeforeYear(y) <= rest /\ rest < BeforeYear(y + 1)
MonthOf(day) ==
  LET y == YearOf(day)
  IN  CHOOSE m \in 0..11 : /\ BeforeYear(y) + BeforeMonth(y, m) <= day
                           /\ m < 11 => day < BeforeYear(y) + BeforeMonth(y, m + 1)
DayOfMonth(day) == day - BeforeYear(YearOf(day)) - BeforeMonth(YearOf(day), MonthOf(day)) + 1

\* A time moved by a number of minutes.
Shift(t, minutes) ==
  LET ms == t[2] + MsPerMinute * minutes IN <<t[1] + (ms \div MsPerDay), ms % MsPerDay>>

\* timeToMsec: a time in int64.  Beyond that, it is some other time; near the ends
\* of int64, one or the other, and neither is a date.
TimeToMsec(t) ==
  LET k == (t[1] + Cycle[1] \div 2) \div Cycle[1]
      ms == t[2] - k * Cycle[2]
  IN  <<t[1] - k * Cycle[1] + ms \div MsPerDay, ms % MsPerDay>>

\* The seven fields, from year to milliseconds.
FieldsOf(t) ==
  <<YearOf(t[1]), MonthOf(t[1]), DayOfMonth(t[1]),
    t[2] \div MsPerHour, (t[2] \div MsPerMinute) % 60, (t[2] \div MsPerSecond) % 60, t[2] % MsPerSecond>>
ZoneOf(utc) == IF utc THEN 0 ELSE Offset

---------------------------------------------------------------------------
Ok(v, st) == [err |-> FALSE, v |-> v, st |-> st]
Then(r, Op(_, _)) == IF r.err THEN r ELSE Op(r.v, r.st)

\* value.go: toNumber of an argument.
ToNumber(v, st) ==
  IF v[1] # "conv" THEN Ok(v, st)
  ELSE [err |-> v[3] = Thrown, v |-> v[3],
        st |-> [date |-> IF v[4] = <<>> THEN st.date ELSE v[4][1], trace |-> Append(st.trace, v[2])]]
Arg(args, i) == IF i < Len(args) THEN args[i + 1] ELSE NaN     \* undefined is no number

\* setTimeMs, TimeClip: the times of a date.
InRange(t) == t[1] >= -MaxDay /\ (t[1] < MaxDay \/ t = <<MaxDay, 0>>)
SetTimeMs(t, st) ==
  IF InRange(t) THEN Ok(t, [st EXCEPT !.date = t]) ELSE Ok(NoTime, [st EXCEPT !.date = NoTime])
Unsets(st) == Ok(NoTime, [st EXCEPT !.date = NoTime])

\* What int64 keeps of a sum.
Wrap(n) == IF n > MaxInt THEN (n - MaxInt - 1) - MaxInt - 1
           ELSE IF n < -MaxInt - 1 THEN (n + MaxInt + 1) + MaxInt + 1 ELSE n

\* hi * base + lo, with 0 <= lo < base; the result is <<>> at the ends of int64.
DateNorm(hi, lo, base) ==
  IF lo < 0
  THEN LET n == (-lo - 1) \div base + 1
       IN  IF hi = -MaxInt - 1 /\ lo <= -base THEN <<>> ELSE <<Wrap(hi - n), lo + n * base>>
  ELSE IF lo < base THEN <<hi, lo>>
  ELSE IF hi = MaxInt THEN <<>> ELSE <<Wrap(hi + lo \div base), lo % base>>

Beyond32(n) == n > MaxInt32 \/ n < -MaxInt32 - 1
MkTime(f, sec, ms, utc) ==
  LET months == DateNorm(f[1], f[2], 12)
      seconds == DateNorm(f[5], sec, 60)
      minutes == DateNorm(f[4], seconds[1], 60)
      hours == DateNorm(f[3], minutes[1], 24)
      day == BeforeYear(months[1]) + BeforeMonth(months[1], months[2]) + hours[1] - 1
  IN  IF months = <<>> \/ seconds = <<>> \/ minutes = <<>> \/ hours = <<>> THEN NoTime
      ELSE IF Beyond32(months[1]) \/ Beyond32(hours[1]) THEN NoTime
      ELSE Shift(<<day, MsPerHour * hours[2] + MsPerMinute * minutes[2] + MsPerSecond * seconds[2] + ms>>, -ZoneOf(utc))

---------------------------------------------------------------------------
\* The setter chain.  first is the place of the year among the arguments; a
\* field before the first argument, or after the last, keeps its value.
Present_Strict(args, i) == i >= 0 /\ i < Len(args)
Present(args, i) == i = 0 \/ (i > 0 /\ i < Len(args))

TwoDigit(n) == IF n \in 0..99 THEN n + 1900 ELSE n

\* One field more: as it is now, or the number of an argument.  vals stays short
\* when that is NaN.
Added(vals, c) == Then(c, LAMBDA n, s : Ok(IF n = NaN THEN vals ELSE Append(vals, n[2]), s))
Field(r, f, current, args, first) ==
  Then(r, LAMBDA vals, st :
    IF Len(vals) # f - 1 THEN r
    ELSE IF ~Present(args, first + f - 1) THEN Ok(Append(vals, current[f]), st)
    ELSE Added(vals, ToNumber(Arg(args, first + f - 1), st)))

DateSetFrom(vals, current, args, first, utc, st) ==
  LET year == Field(Ok(vals, st), 1, current, args, first)
      month == Field(year, 2, current, args, first)
      day == Field(month, 3, current, args, first)
      hours == Field(day, 4, current, args, first)
      min == Field(hours, 5, current, args, first)
      sec == Field(min, 6, current, args, first)
      msec == Field(sec, 7, current, args, first)
  IN  Then(msec, LAMBDA f, s :
        LET seconds == DateNorm(f[6], f[7], MsPerSecond)
        IN  Ok(IF Len(f) < 7 \/ seconds = <<>> THEN NoTime ELSE MkTime(f, seconds[1], seconds[2], utc), s))

DateSetFullYear(t, args, first, utc, st) == DateSetFrom(<<>>, FieldsOf(t), args, first, utc, st)

DateSetYear(t, args, utc, st) ==
  Then(ToNumber(Arg(args, 0), st), LAMBDA n, s :
    IF n = NaN THEN Ok(NoTime, s) ELSE DateSetFrom(<<TwoDigit(n[2])>>, FieldsOf(t), args, 0, utc, s))

Local(t, utc) == Shift(t, ZoneOf(utc))
LimitArgs(args, n) == IF n > 0 /\ Len(args) > n THEN SubSeq(args, 1, n) ELSE args

\* setSeconds to setMonth: an invalid date stays one, whatever its arguments.
DateSetter(first, limit, utc, args, st) ==
  LET tv == st.date                     \* unset, it is the first of int64's milliseconds
      current == IF tv = NoTime THEN <<0, 0>> ELSE Local(tv, utc)
  IN  Then(DateSetFullYear(current, LimitArgs(args, limit), first, utc, st), LAMBDA t, s :
        IF t = NoTime THEN Unsets(s) ELSE IF tv = NoTime THEN Ok(NoTime, s) ELSE SetTimeMs(TimeToMsec(t), s))

\* The millisecond of the second; seconds are counted towards zero.
Milliseconds(t) == LET past == t[2] % MsPerSecond
  IN  IF t[1] >= 0 \/ past = 0 THEN t[2] - past ELSE t[2] - past + MsPerSecond
SetMilliseconds(args, st) ==
  LET tv == st.date
  IN  Then(ToNumber(Arg(args, 0), st), LAMBDA n, s :
        IF tv = NoTime THEN Ok(NoTime, s)
        ELSE IF n = NaN THEN Unsets(s)
        ELSE LET ms == Milliseconds(tv) + n[2] IN SetTimeMs(<<tv[1] + (ms \div MsPerDay), ms % MsPerDay>>, s))

\* An invalid date becomes valid: midnight of the day.
SetFullYear(utc, args, st) ==
  LET t == IF st.date = NoTime THEN <<0, 0>> ELSE Local(st.date, utc)
  IN  Then(DateSetFullYear(t, LimitArgs(args, 3), 0, utc, st), LAMBDA r, s :
        IF r = NoTime THEN Unsets(s) ELSE SetTimeMs(TimeToMsec(r), s))

SetTime(args, st) ==
  Then(ToNumber(Arg(args, 0), st), LAMBDA n, s :
    IF n = NaN THEN Unsets(s) ELSE SetTimeMs(<<n[2] \div MsPerDay, n[2] % MsPerDay>>, s))

Setter(m, utc, args, st) ==
  CASE m = "setTime" -> SetTime(args, st)
    [] m = "setMilliseconds" -> SetMilliseconds(args, st)
    [] m = "setSeconds" -> DateSetter(-5, 0, utc, args, st)
    [] m = "setMinutes" -> DateSetter(-4, 0, utc, args, st)
    [] m = "setHours" -> DateSetter(-3, 0, utc, args, st)
    [] m = "setDate" -> DateSetter(-2, 1, utc, args, st)
    [] m = "setMonth" -> DateSetter(-1, 2, utc, args, st)
    [] m = "setFullYear" -> SetFullYear(utc, args, st)

---------------------------------------------------------------------------
\* makeDate: from fields, with an own check of the range.
MakeDate(args, utc, st) ==
  Then(DateSetYear(<<0, 0>>, args, utc, st), LAMBDA t, s :
    Ok(IF t # NoTime /\ InRange(TimeToMsec(t)) THEN TimeToMsec(t) ELSE NoTime, s))
NewDate(args, st) == MakeDate(args, FALSE, st)
DateUTC(args, st) == MakeDate(IF Len(args) < 2 THEN <<Arg(args, 0), Num(0)>> ELSE args, TRUE, st)
=============================================================================
