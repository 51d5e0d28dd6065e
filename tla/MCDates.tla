------------------------------- MODULE MCDates -------------------------------
(* Every setter and constructor on dates at the ends of their range, around    *)
(* 1970 and on a leap day, with arguments that carry over, that are missing,   *)
(* that are NaN, or whose conversion sets the same date.                       *)
EXTENDS Dates

---------------------------------------------------------------------------
\* Date of ECMAScript, over the calendar and the times of Dates.  Nothing in this
\* section is translated from the repository.

\* MakeDay, MakeTime and MakeDate: fields beyond their range carry over.
MakeDateTime(f) ==
  LET y == f[1] + f[2] \div 12
      s == f[6] + f[7] \div MsPerSecond
      mi == f[5] + s \div 60
      h == f[4] + mi \div 60
      day == BeforeYear(y) + BeforeMonth(y, f[2] % 12) + f[3] - 1 + h \div 24
  IN  <<day, (h % 24) * MsPerHour + (mi % 60) * MsPerMinute + (s % 60) * MsPerSecond + (f[7] % MsPerSecond)>>

TimeClip(t) ==
  IF t[1] \in (-MaxDay)..(MaxDay - 1) \/ t = <<MaxDay, 0>> THEN t ELSE NoTime

\* The first n arguments as numbers, each converted, whatever the others are.
With(vs, c) == Then(c, LAMBDA v, t : Ok(Append(vs, v), t))
Convert(r, n, args, i) ==
  IF i >= n THEN r ELSE Then(r, LAMBDA vs, s : With(vs, ToNumber(Arg(args, i), s)))
Numbers(args, n, st) ==
  LET three == Convert(Convert(Convert(Ok(<<>>, st), n, args, 0), n, args, 1), n, args, 2)
      five == Convert(Convert(three, n, args, 3), n, args, 4)
  IN  Convert(Convert(five, n, args, 5), n, args, 6)

HasNaN(vs) == \E i \in DOMAIN vs : vs[i] = NaN

\* The field that a setter begins with and the fields it may set.
FirstField == [setFullYear |-> 1, setMonth |-> 2, setDate |-> 3, setHours |-> 4, setMinutes |-> 5,
               setSeconds |-> 6, setMilliseconds |-> 7]
FieldCount == [setFullYear |-> 3, setMonth |-> 2, setDate |-> 1, setHours |-> 4, setMinutes |-> 3,
               setSeconds |-> 2, setMilliseconds |-> 1]

JsSetTime(args, st) ==
  Then(ToNumber(Arg(args, 0), st), LAMBDA v, s :
    LET u == IF v = NaN THEN NoTime ELSE TimeClip(<<v[2] \div MsPerDay, v[2] % MsPerDay>>)
    IN  Ok(u, [s EXCEPT !.date = u]))

JsSetter(m, utc, args, st) ==
  LET most == FieldCount[m]
      n == IF args = <<>> THEN 1 ELSE IF Len(args) > most THEN most ELSE Len(args)
      begin == FirstField[m]
      t == IF st.date = NoTime /\ m = "setFullYear" THEN <<0, 0>> ELSE
           IF st.date = NoTime THEN NoTime ELSE Shift(st.date, ZoneOf(utc))
  IN  Then(Numbers(args, n, st), LAMBDA vs, s :
        IF t = NoTime THEN Ok(NoTime, s)
        ELSE LET fields == [i \in 1..7 |-> IF i \in begin..(begin + n - 1) THEN vs[i - begin + 1][2] ELSE FieldsOf(t)[i]]
                 u == IF HasNaN(vs) THEN NoTime ELSE TimeClip(Shift(MakeDateTime(fields), -ZoneOf(utc)))
             IN  Ok(u, [s EXCEPT !.date = u]))

\* new Date(y, m, ...) and Date.UTC(y, ...): years 0 to 99 are of the 20th century.
JsMake(args, utc, st) ==
  LET n == IF Len(args) > 7 THEN 7 ELSE IF args = <<>> THEN 1 ELSE Len(args)
      default == <<1970, 0, 1, 0, 0, 0, 0>>
  IN  Then(Numbers(args, n, st), LAMBDA vs, s :
        IF HasNaN(vs) THEN Ok(NoTime, s)
        ELSE LET f == [i \in 1..7 |-> IF i <= n THEN vs[i][2] ELSE default[i]]
                 y == IF f[1] >= 0 /\ f[1] <= 99 THEN 1900 + f[1] ELSE f[1]
             IN  Ok(TimeClip(Shift(MakeDateTime([f EXCEPT ![1] = y]), -ZoneOf(utc))), s))

---------------------------------------------------------------------------
VARIABLES
  input,   \* what runs, or "none"
  output   \* its answer: none yet, or one

dateVars == <<input, output>>

\* The inputs of a run.
CONSTANTS
  DateLists,   \* the arguments of a setter, and those of a constructor after its year
  DateYears,   \* the years that a constructor is given
  DateStarts   \* the dates that a setter meets

LeapDay == 18321                                   \* 2020-02-29
Converter(n) == <<"conv", "c", n, <<>>>>
Setting(n, t) == <<"conv", "s", n, <<t>>>>

Few == {Num(0), Num(-1), Num(61), NaN, Converter(Num(7)), Converter(NaN), Setting(Num(5), <<1, 1000>>),
        Setting(Num(5), NoTime)}
Five == {Num(0), Num(-1), Num(61), NaN, Setting(Num(5), <<1, 1000>>)}
Many == Few \cup {Num(n) : n \in {1, 12, 24, 31, 99, 100, 1000, -1000, -12, 2020, 86400, 275760, 275761, -271822, 1000000}}
          \cup {<<"conv", "t", Thrown, <<>>>>}

\* The values that a run gives them.
MCDateLists == {<<>>} \cup {<<a>> : a \in Many} \cup {<<a, b>> : a \in Many, b \in Few}
                 \cup {<<a, b, c>> : a, b, c \in Five}
                 \cup {<<a, b, c, a, b>> : a, b, c \in {Num(-1), Num(61), Converter(Num(7))}}
MCDateYears == {Num(0), Num(99), Num(100), Num(2020), Num(275760), NaN, Converter(Num(70))}
MCDateStarts == {NoTime, <<0, 0>>, <<-1, 86399000>>, <<LeapDay, 45296789>>, <<MaxDay, 0>>, <<-MaxDay, 0>>}

Methods == {"setTime", "setMilliseconds", "setSeconds", "setMinutes", "setHours", "setDate", "setMonth", "setFullYear"}

\* The calls that differ (README): what follows an argument that is NaN is not
\* converted, a NaN unsets a date that was unset even when a conversion has set
\* it since, and milliseconds are set from the second towards 1970.
IsNaN(a) == a = NaN \/ (a[1] = "conv" /\ a[3] = NaN)
EndsAtNaN(args) == \A i \in DOMAIN args : IsNaN(args[i]) => \A j \in (i + 1)..Len(args) : args[j][1] # "conv"
Whole(t) == IF t = NoTime THEN TRUE ELSE t[1] >= 0 \/ t[2] % MsPerSecond = 0
Settles(args, t) == t = NoTime /\ (\E i \in DOMAIN args : IsNaN(args[i])) => \A i \in DOMAIN args : args[i][1] # "conv"
Agrees(m, args, t) ==
  /\ EndsAtNaN(args)
  /\ m \in Methods => Settles(args, t)
  /\ m = "setMilliseconds" => Whole(t)

DateInit == input = <<"none">> /\ output = <<>>
Idle == input = <<"none">>

RunSetter ==
  Idle /\ \E m \in Methods, utc \in BOOLEAN, args \in DateLists, t \in DateStarts :
    /\ input' = <<"date", m, utc, args, t>> /\ UNCHANGED output

\* `new` with one argument, or none, takes no fields: it is not of MakeDate.
RunMake ==
  Idle /\ \E m \in {"new", "UTC"}, y \in DateYears, args \in DateLists :
    /\ m = "new" => args # <<>>
    /\ input' = <<"date", m, m = "UTC", <<y>> \o args, NoTime>> /\ UNCHANGED output

AnswerDate ==
  /\ input[1] = "date" /\ output = <<>>
  /\ LET st == [date |-> input[5], trace |-> <<>>]
     IN  output' = <<CASE input[2] = "new" -> NewDate(input[4], st)
                       [] input[2] = "UTC" -> DateUTC(input[4], st)
                       [] OTHER -> Setter(input[2], input[3], input[4], st)>>
  /\ UNCHANGED input

DateNext == RunSetter \/ RunMake \/ AnswerDate
DateSpec == DateInit /\ [][DateNext]_dateVars

\* README.md: every natively accepted script matches exactly.  Setters and
\* constructors answer the time, leave the date and convert their arguments as
\* ECMAScript's do, but for the calls that Agrees leaves out.
DatesAsInJavaScript ==
  input[1] = "date" /\ output # <<>> /\ Agrees(input[2], input[4], input[5]) =>
    output[1] = LET st == [date |-> input[5], trace |-> <<>>]
                IN  IF input[2] \in {"new", "UTC"} THEN JsMake(input[4], input[3], st)
                    ELSE IF input[2] = "setTime" THEN JsSetTime(input[4], st)
                    ELSE JsSetter(input[2], input[3], input[4], st)
=============================================================================
