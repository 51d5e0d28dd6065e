----------------------------- MODULE DatesProofs -----------------------------
(***************************************************************************)
(* Dates are those of ECMAScript, for every zone of a constant offset and  *)
(* every width of the integers.                                            *)
(***************************************************************************)
EXTENDS MCDates, TLAPS

\* Numbers up to N can carry over into each other, and none is lost.
Within(N) == N \in Nat /\ N >= 300000 /\ 10 * N <= MaxInt32 /\ 820 * (N + 5000) <= Cycle[1]

---------------------------------------------------------------------------
(* dateNorm.                                                               *)

LEMMA FloorDivision ==
  ASSUME NEW a \in Int, NEW b \in Nat, b > 0
  PROVE  a \div b \in Int /\ a % b \in 0..(b - 1) /\ a = b * (a \div b) + (a % b)
BY SMT

LEMMA NoDivision ==
  ASSUME NEW b \in Nat, b > 0, NEW a \in 0..(b - 1)
  PROVE  a \div b = 0 /\ a % b = a
BY SMT

\* date.go, dateNorm: it answers the sum hi * base + lo in two places, the upper
\* one as an int64, unless hi is the last or the first int64.
LEMMA NormExact ==
  ASSUME NEW hi \in Int, NEW lo \in Int, NEW base \in {12, 24, 60, 1000}
  PROVE  DateNorm(hi, lo, base) \in {<<>>, <<Wrap(hi + lo \div base), lo % base>>} \/
         (lo \in 0..(base - 1) /\ DateNorm(hi, lo, base) = <<hi, lo>>)
<1>1. CASE base = 12 BY <1>1 DEF DateNorm
<1>2. CASE base = 24 BY <1>2 DEF DateNorm
<1>3. CASE base = 60 BY <1>3 DEF DateNorm
<1>4. CASE base = 1000 BY <1>4 DEF DateNorm
<1> QED BY <1>1, <1>2, <1>3, <1>4

LEMMA NormSmall ==
  ASSUME NEW K \in Nat, 2 * K <= MaxInt, MaxInt \in Nat, K >= 1,
         NEW hi \in (-K)..K, NEW lo \in (-K)..K, NEW base \in {12, 24, 60, 1000}
  PROVE  DateNorm(hi, lo, base) = <<hi + lo \div base, lo % base>>
<1>1. lo \div base \in (-K)..K /\ (lo \in 0..(base - 1) => lo \div base = 0 /\ lo % base = lo)
  <2>1. CASE base = 12 BY <2>1
  <2>2. CASE base = 24 BY <2>2
  <2>3. CASE base = 60 BY <2>3
  <2>4. CASE base = 1000 BY <2>4
  <2> QED BY <2>1, <2>2, <2>3, <2>4
<1>2. Wrap(hi + lo \div base) = hi + lo \div base BY <1>1 DEF Wrap
<1>3. hi # MaxInt /\ hi # -MaxInt - 1 OBVIOUS
<1>4. base = 12 \/ base = 24 \/ base = 60 \/ base = 1000 OBVIOUS
<1>5. CASE lo < 0
  <2>1. DateNorm(hi, lo, base) = <<Wrap(hi - ((-lo - 1) \div base + 1)), lo + ((-lo - 1) \div base + 1) * base>>
    BY <1>3, <1>5 DEF DateNorm
  <2>2. -((-lo - 1) \div base + 1) = lo \div base /\ lo + ((-lo - 1) \div base + 1) * base = lo % base
    <3>1. CASE base = 12 BY <3>1
    <3>2. CASE base = 24 BY <3>2
    <3>3. CASE base = 60 BY <3>3
    <3>4. CASE base = 1000 BY <3>4
    <3> QED BY <1>4, <3>1, <3>2, <3>3, <3>4
  <2>3. (-lo - 1) \div base \in Int
    <3>1. CASE base = 12 BY <3>1
    <3>2. CASE base = 24 BY <3>2
    <3>3. CASE base = 60 BY <3>3
    <3>4. CASE base = 1000 BY <3>4
    <3> QED BY <1>4, <3>1, <3>2, <3>3, <3>4
  <2>4. hi - ((-lo - 1) \div base + 1) = hi + lo \div base BY <1>1, <2>2, <2>3
  <2> QED BY <1>2, <2>1, <2>2, <2>4
<1>6. CASE lo \in 0..(base - 1) BY <1>1, <1>6 DEF DateNorm
<1>7. CASE lo >= base BY <1>2, <1>3, <1>4, <1>7 DEF DateNorm
<1> QED BY <1>4, <1>5, <1>6, <1>7

LEMMA NormSmallEach ==
  ASSUME NEW K \in Nat, 2 * K <= MaxInt, MaxInt \in Nat, K >= 1
  PROVE  /\ \A hi, lo \in (-K)..K : DateNorm(hi, lo, 12) = <<hi + lo \div 12, lo % 12>>
         /\ \A hi, lo \in (-K)..K : DateNorm(hi, lo, 24) = <<hi + lo \div 24, lo % 24>>
         /\ \A hi, lo \in (-K)..K : DateNorm(hi, lo, 60) = <<hi + lo \div 60, lo % 60>>
         /\ \A hi, lo \in (-K)..K : DateNorm(hi, lo, MsPerSecond) = <<hi + lo \div MsPerSecond, lo % MsPerSecond>>
<1> DEFINE Exact(hi, lo, base) == DateNorm(hi, lo, base) = <<hi + lo \div base, lo % base>>
<1>1. SUFFICES ASSUME NEW hi \in (-K)..K, NEW lo \in (-K)..K
               PROVE  Exact(hi, lo, 12) /\ Exact(hi, lo, 24) /\ Exact(hi, lo, 60) /\ Exact(hi, lo, MsPerSecond)
  BY Zenon
<1>2. \A base \in {12, 24, 60, 1000} : Exact(hi, lo, base) BY NormSmall
<1> HIDE DEF Exact
<1>3. 12 \in {12, 24, 60, 1000} /\ 24 \in {12, 24, 60, 1000} /\ 60 \in {12, 24, 60, 1000}
      /\ MsPerSecond \in {12, 24, 60, 1000} BY SMT DEF MsPerSecond
<1> QED BY <1>2, <1>3

---------------------------------------------------------------------------
(* Times.                                                                  *)

Time == Int \X (0..(MsPerDay - 1))
Milli(t) == t[1] * MsPerDay + t[2]

LEMMA Times ==
  /\ MsPerDay \in Nat /\ MsPerDay > 0 /\ MaxDay \in Nat /\ MsPerMinute \in Nat /\ MsPerHour \in Nat
  /\ MsPerSecond \in Nat /\ MsPerSecond > 0
  /\ \A t \in Time : /\ t[1] \in Int /\ t[2] \in Int /\ 0 <= t[2] /\ t[2] < MsPerDay
                     /\ t = <<t[1], t[2]>> /\ Milli(t) \in Int
<1>1. MsPerDay \in Nat /\ MsPerDay > 0 BY SMT DEF MsPerDay
<1>2. MaxDay \in Nat /\ MsPerMinute \in Nat /\ MsPerHour \in Nat BY SMT DEF MaxDay, MsPerMinute, MsPerHour
<1>3. MsPerSecond \in Nat /\ MsPerSecond > 0 BY SMT DEF MsPerSecond
<1> QED BY <1>1, <1>2, <1>3, SMT DEF Time, Milli

LEMMA ShiftExact ==
  ASSUME NEW d \in Int, NEW ms \in Int, NEW m \in Int
  PROVE  /\ Shift(<<d, ms>>, m) \in Time
         /\ Milli(Shift(<<d, ms>>, m)) = Milli(<<d, ms>>) + MsPerMinute * m
<1> DEFINE x == ms + MsPerMinute * m
<1>1. x \in Int BY Times, SMT
<1>2. Shift(<<d, ms>>, m) = <<d + (x \div MsPerDay), x % MsPerDay>> BY SMT DEF Shift
<1> HIDE DEF x
<1>3. /\ x \div MsPerDay \in Int /\ x % MsPerDay \in 0..(MsPerDay - 1)
      /\ x = MsPerDay * (x \div MsPerDay) + (x % MsPerDay) BY <1>1, Times, FloorDivision, Zenon
<1>4. Shift(<<d, ms>>, m) \in Time BY <1>2, <1>3, Times, SMT DEF Time
<1>5. Milli(Shift(<<d, ms>>, m)) = d * MsPerDay + x BY <1>2, <1>3, Times, SMT DEF Milli
<1> QED BY <1>4, <1>5, Times, SMT DEF Milli, x

LEMMA TimesEqual ==
  ASSUME NEW t \in Time, NEW u \in Time, Milli(t) = Milli(u)
  PROVE  t = u
<1>1. /\ t[1] \in Int /\ t[2] \in Int /\ 0 <= t[2] /\ t[2] < MsPerDay /\ t = <<t[1], t[2]>>
      /\ u[1] \in Int /\ u[2] \in Int /\ 0 <= u[2] /\ u[2] < MsPerDay /\ u = <<u[1], u[2]>> BY Times, Zenon
<1>2. t[1] * MsPerDay + t[2] = u[1] * MsPerDay + u[2] BY Zenon DEF Milli
<1>3. t[1] = u[1] /\ t[2] = u[2]
  <2>1. MsPerDay = 86400000 BY SMT DEF MsPerDay
  <2> DEFINE a == t[1]
             b == u[1]
             x == t[2]
             y == u[2]
  <2>2. /\ a \in Int /\ b \in Int /\ x \in Int /\ y \in Int
        /\ 0 <= x /\ x < MsPerDay /\ 0 <= y /\ y < MsPerDay /\ a * MsPerDay + x = b * MsPerDay + y
    BY <1>1, <1>2, Zenon
  <2> HIDE DEF a, b, x, y
  <2>3. a = b /\ x = y BY <2>1, <2>2, SMT
  <2> QED BY <2>3 DEF a, b, x, y
<1> QED BY <1>1, <1>3, Zenon

\* date.go, timeToMsec: nothing is lost of a time within int64.
LEMMA NoCycle ==
  ASSUME NEW t \in Time, DatesAssumption, 2 * t[1] < Cycle[1] - 1, -(2 * t[1]) < Cycle[1] - 1
  PROVE  TimeToMsec(t) = t
<1> DEFINE c == Cycle[1]
           a == t[1] + c \div 2
<1>1. t[1] \in Int /\ t[2] \in 0..(MsPerDay - 1) /\ t = <<t[1], t[2]>> BY Times, SMT
<1>2. c \in Nat /\ c > 0 /\ Cycle[2] \in Int
  <2>1. Cycle \in Nat \X (0..(MsPerDay - 1)) /\ c > 10 * MaxDay BY SMT DEF DatesAssumption
  <2> QED BY <2>1, Times, SMT
<1>3. 2 * t[1] < c - 1 /\ -(2 * t[1]) < c - 1 OBVIOUS
<1>4. a \in 0..(c - 1)
  <2> HIDE DEF c
  <2> QED BY <1>1, <1>2, <1>3, SMT
<1> HIDE DEF c, a
<1>5. a \div c = 0 BY <1>2, <1>4, NoDivision
<1>6. t[2] \div MsPerDay = 0 /\ t[2] % MsPerDay = t[2] BY <1>1, Times, NoDivision
<1>7. t[1] - 0 * c + 0 = t[1] /\ t[2] - 0 * Cycle[2] = t[2] BY <1>1, <1>2, SMT
<1>8. TimeToMsec(t) = <<t[1] - 0 * c + (t[2] - 0 * Cycle[2]) \div MsPerDay, (t[2] - 0 * Cycle[2]) % MsPerDay>>
  BY <1>5, Zenon DEF TimeToMsec, a, c
<1> QED BY <1>1, <1>6, <1>7, <1>8, Zenon

LEMMA WithinFacts ==
  ASSUME NEW N, Within(N), DatesAssumption
  PROVE  /\ N \in Nat /\ N >= 1 /\ MaxInt \in Nat /\ MaxInt32 \in Nat
         /\ 10 * N <= MaxInt32 /\ MaxInt32 <= MaxInt
         /\ Cycle[1] \in Nat /\ 820 * (N + 5000) <= Cycle[1]
         /\ Offset \in Int /\ -1440 <= Offset /\ Offset <= 1440
<1>1. MaxInt \in Nat /\ MaxInt32 \in MaxDay..MaxInt /\ Cycle \in Nat \X (0..(MsPerDay - 1)) 
      /\ Offset \in Int /\ -1440 <= Offset /\ Offset <= 1440
  BY SMT DEF DatesAssumption
<1> QED BY <1>1, Times, SMT DEF Within

LEMMA DayTyped ==
  ASSUME NEW y \in Int, NEW m \in 0..11
  PROVE  BeforeYear(y) \in Int /\ BeforeMonth(y, m) \in Int
<1>1. BeforeYear(y) \in Int BY SMT DEF BeforeYear
<1>2. BeforeMonth(y, m) \in Int BY SMT DEF BeforeMonth
<1> QED BY <1>1, <1>2

\* The days before a year and a month: a number that grows with the year.
DayBound(y, m) ==
  /\ BeforeYear(y) \in Int
  /\ BeforeMonth(y, m) \in Int /\ 0 <= BeforeMonth(y, m) /\ BeforeMonth(y, m) <= 335
  /\ y >= 1970 => 0 <= BeforeYear(y) /\ BeforeYear(y) <= 366 * (y - 1970)
  /\ y < 1970 => BeforeYear(y) <= 0 /\ 366 * (y - 1970) <= BeforeYear(y)

LEMMA DayBounds ==
  ASSUME NEW y \in Int, NEW m \in 0..11
  PROVE  DayBound(y, m)
<1>1. BeforeYear(y) \in Int /\ y >= 1970 => 0 <= BeforeYear(y) /\ BeforeYear(y) <= 366 * (y - 1970)
  BY SMT DEF BeforeYear
<1>2. BeforeYear(y) \in Int /\ (y < 1970 => BeforeYear(y) <= 0 /\ 366 * (y - 1970) <= BeforeYear(y))
  BY SMT DEF BeforeYear
<1>3. BeforeMonth(y, m) \in Int /\ 0 <= BeforeMonth(y, m) /\ BeforeMonth(y, m) <= 335 BY SMT DEF BeforeMonth
<1> QED BY <1>1, <1>2, <1>3, SMT DEF DayBound
---------------------------------------------------------------------------
(* mkTime: fields beyond their range carry over, as ECMAScript has it.     *)

LEMMA MkTimeExact ==
  ASSUME NEW N, Within(N), DatesAssumption,
         NEW f \in [1..7 -> (-N)..N], NEW utc \in BOOLEAN,
         NEW t, t = Shift(MakeDateTime(f), -ZoneOf(utc))
  PROVE  /\ DateNorm(f[6], f[7], MsPerSecond) # <<>>
         /\ MkTime(f, DateNorm(f[6], f[7], MsPerSecond)[1], DateNorm(f[6], f[7], MsPerSecond)[2], utc) = t
         /\ t \in Time /\ TimeToMsec(t) = t
<1>1. /\ N \in Nat /\ N >= 1 /\ MaxInt \in Nat /\ MaxInt32 \in Nat
      /\ 10 * N <= MaxInt32 /\ MaxInt32 <= MaxInt BY WithinFacts
<1>2. \A i \in 1..7 : f[i] \in (-N)..N OBVIOUS
<1> DEFINE y == f[1] + f[2] \div 12
           s == f[6] + f[7] \div MsPerSecond
           mi == f[5] + s \div 60
           h == f[4] + mi \div 60
           d == f[3] + h \div 24
           mo == f[2] % 12
           z == ZoneOf(utc)
           day == BeforeYear(y) + BeforeMonth(y, mo) + d - 1
           ms == MsPerHour * (h % 24) + MsPerMinute * (mi % 60) + MsPerSecond * (s % 60) + (f[7] % MsPerSecond)
<1>3. /\ s \in (-(2 * N))..(2 * N) /\ mi \in (-(3 * N))..(3 * N)
      /\ h \in (-(4 * N))..(4 * N) /\ d \in (-(5 * N))..(5 * N)
      /\ y \in Int /\ 12 * y <= 13 * N + 12 /\ -(12 * y) <= 13 * N + 12 /\ mo \in 0..11
  <2>1. /\ f[1] \in (-N)..N /\ f[2] \in (-N)..N /\ f[3] \in (-N)..N /\ f[4] \in (-N)..N
        /\ f[5] \in (-N)..N /\ f[6] \in (-N)..N /\ f[7] \in (-N)..N BY <1>2
  <2>2. y \in Int /\ 12 * y <= 13 * N + 12 /\ -(12 * y) <= 13 * N + 12 /\ mo \in 0..11 BY <1>1, <2>1, SMT
  <2>3. s \in (-(2 * N))..(2 * N) BY <1>1, <2>1, SMT DEF MsPerSecond
  <2> HIDE DEF s
  <2>4. mi \in (-(3 * N))..(3 * N) BY <1>1, <2>1, <2>3, SMT
  <2> HIDE DEF mi
  <2>5. h \in (-(4 * N))..(4 * N) BY <1>1, <2>1, <2>4, SMT
  <2> HIDE DEF h
  <2>6. d \in (-(5 * N))..(5 * N) BY <1>1, <2>1, <2>5, SMT
  <2> QED BY <2>2, <2>3, <2>4, <2>5, <2>6
<1>4. /\ DateNorm(f[6], f[7], MsPerSecond) = <<s, f[7] % MsPerSecond>>
      /\ DateNorm(f[5], s, 60) = <<mi, s % 60>>
      /\ DateNorm(f[4], mi, 60) = <<h, mi % 60>>
      /\ DateNorm(f[3], h, 24) = <<d, h % 24>>
      /\ DateNorm(f[1], f[2], 12) = <<y, mo>>
  <2> DEFINE K == 4 * N
  <2>1. K \in Nat /\ K >= 1 /\ 2 * K <= MaxInt BY <1>1, SMT
  <2>2. /\ f[1] \in (-K)..K /\ f[2] \in (-K)..K /\ f[3] \in (-K)..K /\ f[4] \in (-K)..K
        /\ f[5] \in (-K)..K /\ f[6] \in (-K)..K /\ f[7] \in (-K)..K
        /\ s \in (-K)..K /\ mi \in (-K)..K /\ h \in (-K)..K
    <3> HIDE DEF s, mi, h
    <3> QED BY <1>1, <1>2, <1>3, SMT
  <2> HIDE DEF K, s, mi, h
  <2>3. /\ \A hi, lo \in (-K)..K : DateNorm(hi, lo, 12) = <<hi + lo \div 12, lo % 12>>
        /\ \A hi, lo \in (-K)..K : DateNorm(hi, lo, 24) = <<hi + lo \div 24, lo % 24>>
        /\ \A hi, lo \in (-K)..K : DateNorm(hi, lo, 60) = <<hi + lo \div 60, lo % 60>>
        /\ \A hi, lo \in (-K)..K : DateNorm(hi, lo, MsPerSecond) = <<hi + lo \div MsPerSecond, lo % MsPerSecond>>
    BY <1>1, <2>1, NormSmallEach
  <2>4. DateNorm(f[6], f[7], MsPerSecond) = <<f[6] + f[7] \div MsPerSecond, f[7] % MsPerSecond>> BY <2>2, <2>3, Zenon
  <2>5. DateNorm(f[5], s, 60) = <<f[5] + s \div 60, s % 60>> BY <2>2, <2>3, Zenon
  <2>6. DateNorm(f[4], mi, 60) = <<f[4] + mi \div 60, mi % 60>> BY <2>2, <2>3, Zenon
  <2>7. DateNorm(f[3], h, 24) = <<f[3] + h \div 24, h % 24>> BY <2>2, <2>3, Zenon
  <2>8. DateNorm(f[1], f[2], 12) = <<f[1] + f[2] \div 12, f[2] % 12>> BY <2>2, <2>3, Zenon
  <2> QED BY <2>4, <2>5, <2>6, <2>7, <2>8, Zenon DEF s, mi, h
<1>5. ~Beyond32(y) /\ ~Beyond32(d)
  <2> HIDE DEF y, d
  <2> QED BY <1>1, <1>3, SMT DEF Beyond32
<1>6. MkTime(f, s, f[7] % MsPerSecond, utc) = Shift(<<day, ms>>, -z)
  <2> DEFINE a == DateNorm(f[1], f[2], 12)
             b == DateNorm(f[5], s, 60)
             e == DateNorm(f[4], mi, 60)
             g == DateNorm(f[3], h, 24)
  <2> HIDE DEF y, s, mi, h, d, mo
  <2>1. /\ a # <<>> /\ a[1] = y /\ a[2] = mo /\ b # <<>> /\ b[1] = mi /\ b[2] = s % 60
        /\ e # <<>> /\ e[1] = h /\ e[2] = mi % 60 /\ g # <<>> /\ g[1] = d /\ g[2] = h % 24
    BY <1>4, SMT
  <2>2. /\ DateNorm(f[4], b[1], 60) = e /\ DateNorm(f[3], DateNorm(f[4], b[1], 60)[1], 24) = g BY <2>1
  <2>3. MkTime(f, s, f[7] % MsPerSecond, utc) =
          LET hours == DateNorm(f[3], DateNorm(f[4], b[1], 60)[1], 24)
              minutes == DateNorm(f[4], b[1], 60)
          IN  IF a = <<>> \/ b = <<>> \/ minutes = <<>> \/ hours = <<>> THEN NoTime
              ELSE IF Beyond32(a[1]) \/ Beyond32(hours[1]) THEN NoTime
              ELSE Shift(<<BeforeYear(a[1]) + BeforeMonth(a[1], a[2]) + hours[1] - 1,
                           MsPerHour * hours[2] + MsPerMinute * minutes[2] + MsPerSecond * b[2] + (f[7] % MsPerSecond)>>, -z)
    BY DEF MkTime
  <2> HIDE DEF a, b, e, g
  <2>4. MkTime(f, s, f[7] % MsPerSecond, utc) =
          IF a = <<>> \/ b = <<>> \/ e = <<>> \/ g = <<>> THEN NoTime
          ELSE IF Beyond32(a[1]) \/ Beyond32(g[1]) THEN NoTime
          ELSE Shift(<<BeforeYear(a[1]) + BeforeMonth(a[1], a[2]) + g[1] - 1,
                       MsPerHour * g[2] + MsPerMinute * e[2] + MsPerSecond * b[2] + (f[7] % MsPerSecond)>>, -z)
    BY <2>2, <2>3
  <2> QED BY <1>5, <2>1, <2>4, Zenon
<1>7. MakeDateTime(f) = <<day, ms>>
  <2>1. h % 24 \in Int /\ mi % 60 \in Int /\ s % 60 \in Int /\ f[7] % MsPerSecond \in Int
    <3> HIDE DEF s, mi, h
    <3> QED BY <1>1, <1>2, <1>3, SMT DEF MsPerSecond
  <2>2. BeforeYear(y) \in Int /\ BeforeMonth(y, mo) \in Int /\ f[3] \in Int /\ h \div 24 \in Int
    <3>1. f[3] \in Int BY <1>1, <1>2, SMT
    <3> HIDE DEF y, mo, h
    <3>2. BeforeYear(y) \in Int /\ BeforeMonth(y, mo) \in Int
      <4>1. y \in Int /\ mo \in 0..11 BY <1>3, Zenon
      <4> QED BY <4>1, DayTyped
    <3> QED BY <1>1, <1>3, <3>1, <3>2, SMT
  <2>3. MakeDateTime(f) = <<BeforeYear(y) + BeforeMonth(y, mo) + f[3] - 1 + h \div 24,
          (h % 24) * MsPerHour + (mi % 60) * MsPerMinute + (s % 60) * MsPerSecond + (f[7] % MsPerSecond)>>
    BY Zenon DEF MakeDateTime
  <2>4. BeforeYear(y) + BeforeMonth(y, mo) + f[3] - 1 + h \div 24 = day
    <3> HIDE DEF y, mo, h
    <3> QED BY <2>2, SMT
  <2>5. (h % 24) * MsPerHour + (mi % 60) * MsPerMinute + (s % 60) * MsPerSecond + (f[7] % MsPerSecond) = ms
    <3> HIDE DEF h, mi, s
    <3> QED BY <2>1, Times, SMT
  <2> HIDE DEF day, ms
  <2> QED BY <2>3, <2>4, <2>5
<1>8. /\ 402 * (N + 5000) > day /\ 402 * (N + 5000) > -day /\ day \in Int
      /\ ms \in Int /\ 0 <= ms /\ ms < MsPerDay /\ z \in Int /\ -1440 <= z /\ z <= 1440
  <2>1. DayBound(y, mo)
    <3> HIDE DEF y, mo
    <3>1. y \in Int /\ mo \in 0..11 BY <1>3
    <3> QED BY <3>1, DayBounds, Zenon
  <2>2. 402 * (N + 5000) > day /\ 402 * (N + 5000) > -day /\ day \in Int
    <3> HIDE DEF y, mo, d
    <3> QED BY <1>1, <1>3, <2>1, SMT DEF DayBound
  <2>3. ms \in Int /\ 0 <= ms /\ ms < MsPerDay
    <3>1. f[7] \in Int BY <1>1, <1>2, SMT
    <3> HIDE DEF h, mi, s
    <3> QED BY <1>1, <1>3, <3>1, SMT DEF MsPerDay, MsPerHour, MsPerMinute, MsPerSecond
  <2>4. z \in Int /\ -1440 <= z /\ z <= 1440
    <3>1. z = 0 \/ z = Offset BY Zenon DEF ZoneOf
    <3>2. Offset \in Int /\ -1440 <= Offset /\ Offset <= 1440 BY WithinFacts, SMT
    <3> HIDE DEF z
    <3> QED BY <3>1, <3>2, SMT
  <2> HIDE DEF day, ms, z
  <2> QED BY <2>2, <2>3, <2>4
<1> HIDE DEF day, ms, z
<1>9. t \in Time /\ Milli(t) = Milli(<<day, ms>>) + MsPerMinute * (-z)
  <2>1. -z \in Int BY <1>8, SMT
  <2>2. t = Shift(<<day, ms>>, -z) BY <1>7, Zenon DEF z
  <2> QED BY <1>8, <2>1, <2>2, ShiftExact, SMT
<1>10. 2 * t[1] < Cycle[1] - 1 /\ -(2 * t[1]) < Cycle[1] - 1
  <2>1. t[1] \in Int /\ t[2] \in Int /\ 0 <= t[2] /\ t[2] < MsPerDay BY <1>9, Times, Zenon
  <2>2. t[1] * MsPerDay + t[2] = day * MsPerDay + ms - MsPerMinute * z BY <1>8, <1>9, Times, SMT DEF Milli
  <2>3. t[1] - day < 3 /\ day - t[1] < 3 BY <1>8, <2>1, <2>2, SMT DEF MsPerDay, MsPerMinute
  <2>4. Cycle[1] \in Nat /\ 820 * (N + 5000) <= Cycle[1] BY WithinFacts, SMT
  <2> QED BY <1>1, <1>8, <2>1, <2>3, <2>4, SMT
<1>11. TimeToMsec(t) = t BY <1>9, <1>10, NoCycle, Zenon
<1>12. DateNorm(f[6], f[7], MsPerSecond) # <<>> /\ DateNorm(f[6], f[7], MsPerSecond)[1] = s
       /\ DateNorm(f[6], f[7], MsPerSecond)[2] = f[7] % MsPerSecond
  <2> HIDE DEF s
  <2>1. DateNorm(f[6], f[7], MsPerSecond) = <<s, f[7] % MsPerSecond>> BY <1>4, Zenon
  <2> QED BY <2>1, SMT
<1> HIDE DEF s
<1> QED BY <1>6, <1>7, <1>9, <1>11, <1>12, SMT DEF z

---------------------------------------------------------------------------
(* The calendar: the fields of a time, put together, are the time.         *)

LEMMA Centuries ==
  ASSUME NEW y \in Int, NEW b \in Int
  PROVE  BeforeYear(400 * b + y) = DaysOf400 * b + BeforeYear(y)
<1>1. /\ (400 * b + y - 1969) \div 4 = 100 * b + ((y - 1969) \div 4)
      /\ (400 * b + y - 1901) \div 100 = 4 * b + ((y - 1901) \div 100)
      /\ (400 * b + y - 1601) \div 400 = b + ((y - 1601) \div 400) BY SMT
<1> QED BY <1>1, SMT DEF BeforeYear, DaysOf400

LEMMA YearLength ==
  ASSUME NEW y \in Int
  PROVE  /\ Leap(y) => BeforeYear(y + 1) = BeforeYear(y) + 366
         /\ ~Leap(y) => BeforeYear(y + 1) = BeforeYear(y) + 365
BY SMT DEF Leap, BeforeYear

LEMMA YearFound ==
  ASSUME NEW day \in Int
  PROVE  /\ YearOf(day) \in Int
         /\ BeforeYear(YearOf(day)) <= day /\ day < BeforeYear(YearOf(day) + 1)
<1> DEFINE block == day \div DaysOf400
           rest == day % DaysOf400
           near == 1970 + (rest \div 366)
           Is(y) == BeforeYear(y) <= rest /\ rest < BeforeYear(y + 1)
           y0 == CHOOSE y \in near..(near + 1) : Is(y)
<1>1. block \in Int /\ rest \in Int /\ 0 <= rest /\ rest < DaysOf400 /\ day = DaysOf400 * block + rest /\ DaysOf400 \in Nat BY SMT DEF DaysOf400
<1> HIDE DEF block, rest
<1>2. near \in Int /\ 366 * (near - 1970) <= rest /\ rest < 366 * (near - 1970) + 366
      /\ near - 1970 >= 0 /\ near - 1970 < 400 BY <1>1, SMT DEF DaysOf400
<1>3. \E y \in near..(near + 1) : Is(y)
  <2> HIDE DEF near
  <2>1. BeforeYear(near) <= rest BY <1>1, <1>2, SMT DEF BeforeYear
  <2>2. rest < BeforeYear(near + 2) BY <1>1, <1>2, SMT DEF BeforeYear
  <2>3. near + 1 + 1 = near + 2 /\ near \in near..(near + 1) /\ near + 1 \in near..(near + 1) BY <1>2, SMT
  <2>4. BeforeYear(near + 1) \in Int BY <1>2, SMT DEF BeforeYear
  <2>5. rest < BeforeYear(near + 1) \/ BeforeYear(near + 1) <= rest BY <1>1, <2>4, SMT
  <2>6. CASE rest < BeforeYear(near + 1) BY <2>1, <2>3, <2>6
  <2>7. CASE BeforeYear(near + 1) <= rest
    <3>1. Is(near + 1) BY <2>2, <2>3, <2>7
    <3> QED BY <2>3, <3>1
  <2> QED BY <2>5, <2>6, <2>7
<1>4. y0 \in near..(near + 1) /\ Is(y0)
  <2> HIDE DEF Is, near
  <2> QED BY <1>3
<1>5. YearOf(day) = 400 * block + y0 BY Zenon DEF YearOf, block, rest
<1> HIDE DEF y0
<1>6. y0 \in Int /\ y0 + 1 \in Int BY <1>2, <1>4, SMT
<1>7. BeforeYear(400 * block + y0) = DaysOf400 * block + BeforeYear(y0) BY <1>1, <1>6, Centuries
<1>8. BeforeYear(400 * block + (y0 + 1)) = DaysOf400 * block + BeforeYear(y0 + 1) BY <1>1, <1>6, Centuries
<1>9. 400 * block + (y0 + 1) = 400 * block + y0 + 1 /\ 400 * block + y0 \in Int BY <1>1, <1>6, SMT
<1>10. BeforeYear(y0) \in Int /\ BeforeYear(y0 + 1) \in Int BY <1>6, SMT DEF BeforeYear
<1> QED BY <1>1, <1>4, <1>5, <1>7, <1>8, <1>9, <1>10, SMT

LEMMA MonthFound ==
  ASSUME NEW day \in Int
  PROVE  /\ MonthOf(day) \in 0..11
         /\ BeforeYear(YearOf(day)) + BeforeMonth(YearOf(day), MonthOf(day)) <= day
<1> DEFINE y == YearOf(day)
           Is(m) == /\ BeforeYear(y) + BeforeMonth(y, m) <= day
                    /\ m < 11 => day < BeforeYear(y) + BeforeMonth(y, m + 1)
<1>1. y \in Int /\ BeforeYear(y) <= day BY YearFound
<1>2. MonthOf(day) = CHOOSE m \in 0..11 : Is(m) BY Zenon DEF MonthOf
<1> HIDE DEF y
<1>3. BeforeYear(y) \in Int /\ \A m \in 0..11 : BeforeMonth(y, m) \in Int
  <2>1. BeforeYear(y) \in Int BY <1>1, SMT DEF BeforeYear
  <2> QED BY <1>1, <2>1, DayTyped, Zenon
<1>4. BeforeMonth(y, 0) = 0 BY SMT DEF BeforeMonth
<1> DEFINE B(m) == BeforeYear(y) + BeforeMonth(y, m)
<1>5. \A m \in 0..11 : B(m) \in Int BY <1>3, SMT
<1>6. B(0) <= day BY <1>1, <1>3, <1>4, SMT
<1>7. \E m \in 0..11 : B(m) <= day /\ (m < 11 => day < B(m + 1))
  <2> HIDE DEF B
  <2>1. \A m \in 0..10 : m + 1 \in 0..11 /\ m < 11 /\ m \in 0..11 BY SMT
  <2>2. ~(\E m \in 0..11 : B(m) <= day /\ (m < 11 => day < B(m + 1))) =>
          \A m \in 0..10 : B(m) <= day => B(m + 1) <= day BY <1>5, <2>1, SMT
  <2>3. SUFFICES ASSUME \A m \in 0..10 : B(m) <= day => B(m + 1) <= day PROVE B(11) <= day BY <2>2, SMT
  <2>4. B(1) <= day /\ B(2) <= day BY <1>6, <2>3, SMT
  <2>5. B(3) <= day /\ B(4) <= day BY <2>4, <2>3, SMT
  <2>6. B(5) <= day /\ B(6) <= day BY <2>5, <2>3, SMT
  <2>7. B(7) <= day /\ B(8) <= day BY <2>6, <2>3, SMT
  <2>8. B(9) <= day /\ B(10) <= day BY <2>7, <2>3, SMT
  <2> QED BY <2>8, <2>3, SMT
<1>8. \E m \in 0..11 : Is(m) BY <1>7
<1> HIDE DEF Is
<1>9. MonthOf(day) \in 0..11 /\ Is(MonthOf(day)) BY <1>2, <1>8
<1> QED BY <1>9 DEF Is, y

\* Fields as a calendar and a clock have them.
InOrder(f) ==
  /\ f \in [1..7 -> Int] /\ f[2] \in 0..11
  /\ 0 <= f[4] /\ f[4] < 24 /\ 0 <= f[5] /\ f[5] < 60
  /\ 0 <= f[6] /\ f[6] < 60 /\ 0 <= f[7] /\ f[7] < MsPerSecond

LEMMA FieldRanges ==
  ASSUME NEW t \in Time
  PROVE  LET f == FieldsOf(t)
         IN  /\ InOrder(f)
             /\ f[1] = YearOf(t[1]) /\ f[2] = MonthOf(t[1])
             /\ f[3] = t[1] - BeforeYear(f[1]) - BeforeMonth(f[1], f[2]) + 1
             /\ t[2] = MsPerHour * f[4] + MsPerMinute * f[5] + MsPerSecond * f[6] + f[7]
<1> DEFINE f == FieldsOf(t)
           h == t[2] \div MsPerHour
           mi == (t[2] \div MsPerMinute) % 60
           s == (t[2] \div MsPerSecond) % 60
           ms == t[2] % MsPerSecond
           y == YearOf(t[1])
           mo == MonthOf(t[1])
           d == DayOfMonth(t[1])
<1>1. t[1] \in Int /\ t[2] \in Int /\ 0 <= t[2] /\ t[2] < MsPerDay BY Times, Zenon
<1>2. /\ h \in Int /\ 0 <= h /\ h < 24 /\ mi \in Int /\ 0 <= mi /\ mi < 60
      /\ s \in Int /\ 0 <= s /\ s < 60 /\ ms \in Int /\ 0 <= ms /\ ms < MsPerSecond
      /\ t[2] = MsPerHour * h + MsPerMinute * mi + MsPerSecond * s + ms
  <2> DEFINE x == t[2]
             xs == x \div MsPerSecond
             xm == x \div MsPerMinute
  <2>1. x \in Int /\ 0 <= x /\ x < MsPerDay BY <1>1, Zenon
  <2> HIDE DEF x
  <2>2. /\ xs \in Int /\ ms \in Int /\ 0 <= ms /\ ms < MsPerSecond /\ x = MsPerSecond * xs + ms
        /\ xs \div 60 = xm BY <2>1, SMT DEF MsPerSecond, MsPerMinute, x
  <2>3. xm \in Int /\ xm \div 60 = h /\ h \in Int /\ 0 <= h /\ h < 24
    BY <2>1, SMT DEF MsPerDay, MsPerHour, MsPerMinute, x
  <2> HIDE DEF xs, xm, ms, h
  <2>4. s = xs % 60 /\ mi = xm % 60 BY Zenon DEF xs, xm, x
  <2> HIDE DEF s, mi
  <2>5. s \in Int /\ 0 <= s /\ s < 60 /\ xs = 60 * xm + s BY <2>2, <2>4, SMT
  <2>6. mi \in Int /\ 0 <= mi /\ mi < 60 /\ xm = 60 * h + mi BY <2>3, <2>4, SMT
  <2>7. x = MsPerHour * h + MsPerMinute * mi + MsPerSecond * s + ms
    BY <2>2, <2>3, <2>5, <2>6, SMT DEF MsPerHour, MsPerMinute, MsPerSecond
  <2> QED BY <2>2, <2>3, <2>5, <2>6, <2>7, Zenon DEF x
<1>3. y \in Int /\ mo \in 0..11 BY <1>1, YearFound, MonthFound
<1>4. d = t[1] - BeforeYear(y) - BeforeMonth(y, mo) + 1 BY Zenon DEF DayOfMonth
<1>5. f = <<y, mo, d, h, mi, s, ms>> BY Zenon DEF FieldsOf
<1> HIDE DEF h, mi, s, ms, y, mo, d, f
<1>6. BeforeYear(y) \in Int /\ BeforeMonth(y, mo) \in Int BY <1>3, DayTyped
<1>7. d \in Int BY <1>1, <1>4, <1>6, SMT
<1>8. mo \in Int BY <1>3, SMT
<1>9. f \in [1..7 -> Int] BY <1>2, <1>3, <1>5, <1>7, <1>8, SMT
<1>10. f[1] = y /\ f[2] = mo /\ f[3] = d /\ f[4] = h /\ f[5] = mi /\ f[6] = s /\ f[7] = ms BY <1>5, SMT
<1>11. InOrder(f) BY <1>2, <1>3, <1>9, <1>10, SMT DEF InOrder
<1> QED BY <1>2, <1>4, <1>10, <1>11, SMT DEF f, y, mo

\* date.go, dateSetFrom: fields that no argument sets give the time back.
LEMMA FieldsTogether ==
  ASSUME NEW t \in Time
  PROVE  MakeDateTime(FieldsOf(t)) = t
<1> DEFINE f == FieldsOf(t)
<1>1. /\ InOrder(f)
      /\ f[3] = t[1] - BeforeYear(f[1]) - BeforeMonth(f[1], f[2]) + 1
      /\ t[2] = MsPerHour * f[4] + MsPerMinute * f[5] + MsPerSecond * f[6] + f[7] BY FieldRanges, Zenon
<1> HIDE DEF f
<1>2. t[1] \in Int /\ t = <<t[1], t[2]>> BY Times
<1>3. /\ f[1] \in Int /\ f[2] \in Int /\ f[3] \in Int /\ f[4] \in Int /\ f[5] \in Int
      /\ f[6] \in Int /\ f[7] \in Int /\ f[2] \in 0..11 BY <1>1, SMT DEF InOrder
<1>4. /\ f[1] + f[2] \div 12 = f[1] /\ f[2] % 12 = f[2]
      /\ f[6] + f[7] \div MsPerSecond = f[6] /\ f[7] % MsPerSecond = f[7]
      /\ f[5] + f[6] \div 60 = f[5] /\ f[6] % 60 = f[6] /\ f[4] + f[5] \div 60 = f[4] /\ f[5] % 60 = f[5]
      /\ f[4] \div 24 = 0 /\ f[4] % 24 = f[4] BY <1>1, <1>3, SMT DEF InOrder, MsPerSecond
<1>5. BeforeYear(f[1]) \in Int /\ BeforeMonth(f[1], f[2]) \in Int BY <1>3, DayTyped
<1>6. MakeDateTime(f) = <<BeforeYear(f[1]) + BeforeMonth(f[1], f[2]) + f[3] - 1 + 0,
                          f[4] * MsPerHour + f[5] * MsPerMinute + f[6] * MsPerSecond + f[7]>>
  BY <1>4, Zenon DEF MakeDateTime
<1>7. BeforeYear(f[1]) + BeforeMonth(f[1], f[2]) + f[3] - 1 + 0 = t[1] BY <1>1, <1>2, <1>3, <1>5, SMT
<1>8. f[4] * MsPerHour + f[5] * MsPerMinute + f[6] * MsPerSecond + f[7] = t[2] BY <1>1, <1>3, Times, SMT
<1> QED BY <1>2, <1>6, <1>7, <1>8, SMT DEF f

LEMMA ThereAndBack ==
  ASSUME NEW t \in Time, NEW z \in Int
  PROVE  Shift(t, z) \in Time /\ Shift(Shift(t, z), -z) = t
<1>1. t[1] \in Int /\ t[2] \in Int /\ t = <<t[1], t[2]>> BY Times, SMT
<1>2. Shift(t, z) \in Time /\ Milli(Shift(t, z)) = Milli(t) + MsPerMinute * z BY <1>1, ShiftExact
<1> DEFINE u == Shift(t, z)
<1>3. u[1] \in Int /\ u[2] \in Int /\ u = <<u[1], u[2]>> /\ Milli(u) \in Int /\ Milli(t) \in Int BY <1>2, Times, SMT
<1>4. Milli(u) = Milli(t) + MsPerMinute * z BY <1>2
<1> HIDE DEF u
<1>5. -z \in Int OBVIOUS
<1>6. Shift(u, -z) \in Time /\ Milli(Shift(u, -z)) = Milli(u) + MsPerMinute * (-z) BY <1>3, <1>5, ShiftExact
<1>7. Milli(Shift(u, -z)) = Milli(t) BY <1>3, <1>4, <1>6, Times, SMT
<1>8. Shift(u, -z) = t BY <1>6, <1>7, TimesEqual
<1> QED BY <1>2, <1>8 DEF u
---------------------------------------------------------------------------
(* The conversion of arguments.                                            *)

Numeric(N) == {NaN} \cup {Num(n) : n \in (-N)..N}

\* A number, or an object that answers one or throws.
Argument(a, N) == a \in Numeric(N) \/ (a[1] = "conv" /\ a[3] \in Numeric(N) \cup {Thrown})

LEMMA Numbered ==
  ASSUME NEW N, NEW v \in Numeric(N)
  PROVE  /\ v[1] # "conv" /\ v # Thrown
         /\ v # NaN => v = Num(v[2]) /\ v[2] \in (-N)..N
<1>1. CASE v = NaN BY <1>1, SMT DEF NaN, Thrown
<1>2. CASE v # NaN
  <2>1. PICK n \in (-N)..N : v = Num(n) BY <1>2, Zenon DEF Numeric
  <2> QED BY <2>1, SMT DEF Num, Thrown
<1> QED BY <1>1, <1>2

LEMMA Converted ==
  ASSUME NEW N, NEW a, Argument(a, N), NEW st
  PROVE  LET r == ToNumber(a, st)
         IN  /\ r.err \in BOOLEAN
             /\ ~r.err => r = Ok(r.v, r.st) /\ r.v \in Numeric(N) /\ (r.v = NaN <=> IsNaN(a))
             /\ a[1] # "conv" => ~r.err /\ r.v = a /\ r.st = st
<1> DEFINE r == ToNumber(a, st)
<1>1. CASE a[1] # "conv"
  <2>1. r = Ok(a, st) BY <1>1, Zenon DEF ToNumber
  <2>2. r.err = FALSE /\ r.v = a /\ r.st = st BY <2>1, SMT DEF Ok
  <2>3. a \in Numeric(N) BY <1>1, Zenon DEF Argument
  <2> QED BY <1>1, <2>1, <2>2, <2>3, Zenon DEF IsNaN
<1>2. CASE a[1] = "conv"
  <2>1. a \notin Numeric(N) /\ a # NaN BY <1>2, Numbered, Zenon DEF Numeric
  <2>2. a[3] \in Numeric(N) \cup {Thrown} BY <2>1, Zenon DEF Argument
  <2> DEFINE s == [date |-> IF a[4] = <<>> THEN st.date ELSE a[4][1], trace |-> Append(st.trace, a[2])]
             e == (a[3] = Thrown)
  <2>3. r = [err |-> e, v |-> a[3], st |-> s] BY <1>2, Zenon DEF ToNumber
  <2>4. e \in BOOLEAN OBVIOUS
  <2>5. ~e => a[3] \in Numeric(N) BY <2>2
  <2>6. IsNaN(a) <=> a[3] = NaN BY <1>2, <2>1, Zenon DEF IsNaN
  <2> HIDE DEF s, e, r
  <2>7. r.err = e /\ r.v = a[3] /\ r.st = s BY <2>3, Zenon
  <2>8. ~e => r = Ok(r.v, r.st)
    <3>1. SUFFICES ASSUME ~e PROVE r = Ok(a[3], s) BY <2>7
    <3>2. e = FALSE BY <2>4, <3>1
    <3> QED BY <2>3, <3>2, Zenon DEF Ok
  <2> QED BY <1>2, <2>4, <2>5, <2>6, <2>7, <2>8 DEF r
<1> QED BY <1>1, <1>2

\* The first f fields: those of cur, and from field b on the numbers vs.  The
\* first is a year of the constructor, if `two`.
Merged(vs, f, b, cur, two) ==
  [i \in 1..f |-> IF i \in b..(b + Len(vs) - 1)
                  THEN (IF two /\ i = 1 THEN TwoDigit(vs[1][2]) ELSE vs[i - b + 1][2])
                  ELSE cur[i]]

\* Field by field, r is what the code has when m arguments are converted, and q
\* what ECMAScript has.  The code stops at an argument that is NaN.
Alike(r, q, f, m, b, cur, two, args, N) ==
  /\ q.err \in BOOLEAN
  /\ q.err => r = q
  /\ ~q.err =>
       /\ q.v \in Seq(Numeric(N)) /\ Len(q.v) = m
       /\ r.err = FALSE /\ r.st = q.st
       /\ HasNaN(q.v) => (\E j \in 0..(m - 1) : IsNaN(Arg(args, j))) /\ Len(r.v) \in 0..(f - 1)
       /\ ~HasNaN(q.v) => r.v = Merged(q.v, f, b, cur, two)

IsList(s, k) == s \in Seq({s[i] : i \in 1..k}) /\ Len(s) = k

LEMMA MergedSeq ==
  ASSUME NEW vs, NEW f \in Nat, NEW b, NEW cur, NEW two
  PROVE  IsList(Merged(vs, f, b, cur, two), f)
<1> DEFINE M == Merged(vs, f, b, cur, two)
<1>1. M = [i \in 1..f |-> M[i]] BY SMT DEF Merged
<1> HIDE DEF M
<1> QED BY <1>1, SMT DEF M, IsList

LEMMA Appended ==
  ASSUME NEW S, NEW s \in Seq(S), NEW y \in S, NEW m \in Nat, Len(s) = m
  PROVE  Append(s, y)[m + 1] = y /\ \A i \in 1..m : Append(s, y)[i] = s[i]
BY SMT

LEMMA AppendIs ==
  ASSUME NEW k \in Nat, NEW s, IsList(s, k), NEW y
  PROVE  Append(s, y) = [i \in 1..(k + 1) |-> IF i = k + 1 THEN y ELSE s[i]]
<1> DEFINE S == {s[i] : i \in 1..k}
           T == S \cup {y}
           p == Append(s, y)
<1>1. Len(s) = k /\ s \in Seq(S) BY DEF IsList
<1> HIDE DEF S
<1>2. s \in Seq(T) /\ y \in T BY <1>1, SMT
<1> HIDE DEF T
<1>3. p[k + 1] = y /\ \A i \in 1..k : p[i] = s[i] BY <1>1, <1>2, Appended
<1>4. p \in Seq(T) /\ Len(p) = k + 1 BY <1>1, <1>2, SMT
<1> HIDE DEF p
<1>5. p = [i \in 1..(k + 1) |-> p[i]] BY <1>4, SMT
<1>6. \A i \in 1..(k + 1) : p[i] = IF i = k + 1 THEN y ELSE s[i] BY <1>3, SMT
<1>7. p = [i \in 1..(k + 1) |-> IF i = k + 1 THEN y ELSE s[i]] BY <1>5, <1>6, Zenon
<1> QED BY <1>7 DEF p

LEMMA MergedLength ==
  ASSUME NEW vs, NEW b, NEW cur, NEW two
  PROVE  Len(Merged(vs, 7, b, cur, two)) = 7
<1> DEFINE M == Merged(vs, 7, b, cur, two)
<1>1. M = [i \in 1..7 |-> M[i]] BY SMT DEF Merged
<1> HIDE DEF M
<1>2. Len(M) = 7 BY <1>1, SMT
<1> QED BY <1>2 DEF M

\* A field that no argument sets.
LEMMA FieldIs ==
  ASSUME NEW r, NEW f, NEW cur, NEW args, NEW first
  PROVE  Field(r, f, cur, args, first)
           = IF r.err \/ Len(r.v) # f - 1 THEN r
             ELSE IF ~Present(args, first + f - 1) THEN Ok(Append(r.v, cur[f]), r.st)
             ELSE Added(r.v, ToNumber(Arg(args, first + f - 1), r.st))
<1>1. Field(r, f, cur, args, first) =
        Then(r, LAMBDA vals, st :
          IF Len(vals) # f - 1 THEN r
          ELSE IF ~Present(args, first + f - 1) THEN Ok(Append(vals, cur[f]), st)
          ELSE Added(vals, ToNumber(Arg(args, first + f - 1), st)))
  BY Zenon DEF Field
<1>2. @ = IF r.err THEN r
          ELSE IF Len(r.v) # f - 1 THEN r
          ELSE IF ~Present(args, first + f - 1) THEN Ok(Append(r.v, cur[f]), r.st)
          ELSE Added(r.v, ToNumber(Arg(args, first + f - 1), r.st))
  BY Zenon DEF Then
<1> QED BY <1>1, <1>2

LEMMA FieldStays ==
  ASSUME NEW r, NEW f, NEW cur, NEW args, NEW first, r.err \/ Len(r.v) # f - 1
  PROVE  Field(r, f, cur, args, first) = r
<1>1. Field(r, f, cur, args, first)
        = IF r.err \/ Len(r.v) # f - 1 THEN r
          ELSE IF ~Present(args, first + f - 1) THEN Ok(Append(r.v, cur[f]), r.st)
          ELSE Added(r.v, ToNumber(Arg(args, first + f - 1), r.st)) BY FieldIs
<1> QED BY <1>1

LEMMA AlikeOf ==
  ASSUME NEW N, NEW f, NEW m, NEW b, NEW cur, NEW two, NEW args, NEW r, NEW q,
         q.err = FALSE, q.v \in Seq(Numeric(N)), Len(q.v) = m, r.err = FALSE, r.st = q.st,
         HasNaN(q.v) => (\E j \in 0..(m - 1) : IsNaN(Arg(args, j))) /\ Len(r.v) \in 0..(f - 1),
         ~HasNaN(q.v) => r.v = Merged(q.v, f, b, cur, two)
  PROVE  Alike(r, q, f, m, b, cur, two, args, N)
<1>1. q.err \in BOOLEAN /\ ~q.err OBVIOUS
<1> QED BY <1>1, Zenon DEF Alike

LEMMA OkParts ==
  ASSUME NEW v, NEW st
  PROVE  Ok(v, st).err = FALSE /\ Ok(v, st).v = v /\ Ok(v, st).st = st
BY Zenon DEF Ok

LEMMA FieldKept ==
  ASSUME NEW N, NEW f \in 0..6, NEW m \in Nat, NEW b \in 1..7, NEW cur, NEW two, NEW args,
         NEW own, NEW r, NEW q, Alike(r, q, f, m, b, cur, two, args, N),
         ~Present(own, 1 - b + (f + 1) - 1), m = 0 \/ b + m - 1 <= f
  PROVE  Alike(Field(r, f + 1, cur, own, 1 - b), q, f + 1, m, b, cur, two, args, N)
<1> DEFINE r1 == Field(r, f + 1, cur, own, 1 - b)
<1>1. f + 1 - 1 = f /\ f \in Nat /\ f + 1 \in Nat OBVIOUS
<1>2. CASE q.err
  <2>1. r1 = r
    <3>1. r.err BY <1>2, Zenon DEF Alike
    <3> QED BY <3>1, FieldStays
  <2> QED BY <1>2, <2>1, Zenon DEF Alike
<1>3. CASE ~q.err
  <2>1. /\ q.v \in Seq(Numeric(N)) /\ Len(q.v) = m /\ r.err = FALSE /\ r.st = q.st /\ q.err \in BOOLEAN
        /\ HasNaN(q.v) => (\E j \in 0..(m - 1) : IsNaN(Arg(args, j))) /\ Len(r.v) \in 0..(f - 1)
        /\ ~HasNaN(q.v) => r.v = Merged(q.v, f, b, cur, two) BY <1>3, Zenon DEF Alike
  <2>2. r1 = IF Len(r.v) # f THEN r ELSE Ok(Append(r.v, cur[f + 1]), r.st)
    <3>1. r1 = IF r.err \/ Len(r.v) # f + 1 - 1 THEN r
               ELSE IF ~Present(own, 1 - b + (f + 1) - 1) THEN Ok(Append(r.v, cur[f + 1]), r.st)
               ELSE Added(r.v, ToNumber(Arg(own, 1 - b + (f + 1) - 1), r.st)) BY FieldIs
    <3> HIDE DEF r1
    <3> QED BY <1>1, <2>1, <3>1
  <2>3. CASE HasNaN(q.v)
    <3>1. Len(r.v) # f /\ Len(r.v) \in 0..(f + 1 - 1) BY <2>1, <2>3, SMT
    <3>2. r1 = r BY <2>2, <3>1
    <3> HIDE DEF r1
    <3>3. q.err = FALSE /\ r1.err = FALSE /\ r1.st = q.st BY <1>3, <2>1, <3>2
    <3>4. (\E j \in 0..(m - 1) : IsNaN(Arg(args, j))) /\ Len(r1.v) \in 0..(f + 1 - 1) BY <2>1, <2>3, <3>1, <3>2
    <3>5. Alike(r1, q, f + 1, m, b, cur, two, args, N)
      <4> DEFINE k == f + 1
      <4>1. Len(r1.v) \in 0..(k - 1) BY <3>4
      <4> HIDE DEF k
      <4>2. Alike(r1, q, k, m, b, cur, two, args, N) BY <2>1, <2>3, <3>3, <3>4, <4>1, AlikeOf
      <4> QED BY <4>2 DEF k
    <3> QED BY <3>5 DEF r1
  <2>4. CASE ~HasNaN(q.v)
    <3> DEFINE M == Merged(q.v, f, b, cur, two)
               L == Merged(q.v, f + 1, b, cur, two)
    <3>1. Len(M) = f /\ M \in Seq({M[i] : i \in 1..f})
      <4>1. f \in Nat BY <1>1
      <4>2. IsList(M, f) BY <4>1, MergedSeq
      <4> HIDE DEF M
      <4> QED BY <4>2 DEF IsList
    <3>2. r.v = M BY <2>1, <2>4
    <3>3. r1 = Ok(Append(M, cur[f + 1]), q.st) BY <2>1, <2>2, <3>1, <3>2, Zenon
    <3>4. f + 1 \notin b..(b + Len(q.v) - 1)
      <4>1. f + 1 \notin b..(b + m - 1) BY SMT
      <4> QED BY <2>1, <4>1
    <3>5. L = [i \in 1..(f + 1) |-> IF i = f + 1 THEN cur[f + 1] ELSE M[i]]
      BY <3>4, SMT DEF Merged
    <3>6. Append(M, cur[f + 1]) = [i \in 1..(f + 1) |-> IF i = f + 1 THEN cur[f + 1] ELSE M[i]]
      <4> HIDE DEF M
      <4> QED BY <3>1, SMT
    <3> HIDE DEF r1, L, M
    <3>7. r1 = Ok(L, q.st) BY <3>3, <3>5, <3>6
    <3>8. q.err = FALSE /\ r1.err = FALSE /\ r1.st = q.st /\ r1.v = L
      <4> DEFINE s == q.st
      <4>1. r1 = Ok(L, s) BY <3>7
      <4> HIDE DEF s
      <4>2. r1.err = FALSE /\ r1.v = L /\ r1.st = s BY <4>1, Zenon DEF Ok
      <4>3. q.err = FALSE BY <1>3, <2>1
      <4> QED BY <4>2, <4>3 DEF s
    <3>9. r1.v = Merged(q.v, f + 1, b, cur, two) BY <3>8 DEF L
    <3>10. Alike(r1, q, f + 1, m, b, cur, two, args, N) BY <2>1, <2>4, <3>8, <3>9, AlikeOf
    <3> QED BY <3>10 DEF r1
  <2> QED BY <2>3, <2>4
<1> QED BY <1>2, <1>3

\* One number more, and what becomes of the fields.
LEMMA NumberAppended ==
  ASSUME NEW N, NEW m \in Nat, NEW vs \in Seq(Numeric(N)), Len(vs) = m, NEW x \in Numeric(N)
  PROVE  /\ Append(vs, x) \in Seq(Numeric(N)) /\ Len(Append(vs, x)) = m + 1
         /\ HasNaN(Append(vs, x)) <=> HasNaN(vs) \/ x = NaN
<1>1. Append(vs, x) \in Seq(Numeric(N)) /\ Len(Append(vs, x)) = m + 1 BY SMT
<1>2. DOMAIN vs = 1..m /\ DOMAIN Append(vs, x) = 1..(m + 1) BY SMT
<1>3. /\ \A i \in 1..m : Append(vs, x)[i] = vs[i] /\ i \in 1..(m + 1)
      /\ Append(vs, x)[m + 1] = x /\ m + 1 \in 1..(m + 1)
      /\ \A i \in 1..(m + 1) : i \in 1..m \/ i = m + 1 BY SMT
<1>4. HasNaN(Append(vs, x)) <=> HasNaN(vs) \/ x = NaN BY <1>2, <1>3, Zenon DEF HasNaN
<1> QED BY <1>1, <1>4

Grows(vs, x, f, b, cur, two) ==
  Merged(Append(vs, x), f + 1, b, cur, two) = Append(Merged(vs, f, b, cur, two), x[2])

LEMMA MergedGrows ==
  ASSUME NEW S, NEW f \in Nat, NEW b \in Nat, NEW m \in Nat, f + 1 = b + m, b > 0, NEW cur, NEW two, two => f > 0,
         NEW vs \in Seq(S), Len(vs) = m, NEW x \in S
  PROVE  Grows(vs, x, f, b, cur, two)
<1> DEFINE p == Append(vs, x)
           M == Merged(vs, f, b, cur, two)
           L == Merged(p, f + 1, b, cur, two)
           y == x[2]
           body(i) == IF i \in b..(b + Len(p) - 1)
                      THEN (IF two /\ i = 1 THEN TwoDigit(p[1][2]) ELSE p[i - b + 1][2])
                      ELSE cur[i]
           goal(i) == IF i = f + 1 THEN y ELSE M[i]
<1>1. Len(p) = m + 1 /\ p[m + 1] = x /\ \A i \in 1..m : p[i] = vs[i] BY SMT
<1> HIDE DEF p
<1>2. f + 1 \in b..(b + Len(p) - 1) /\ f + 1 - b + 1 = m + 1 /\ (two => f + 1 # 1) BY <1>1, SMT
<1>3. ASSUME NEW i \in 1..f
      PROVE  /\ i \in b..(b + Len(p) - 1) <=> i \in b..(b + Len(vs) - 1)
             /\ i \in b..(b + Len(p) - 1) => i - b + 1 \in 1..m /\ (i = 1 => 1 \in 1..m)
  <2>1. b + Len(p) - 1 = b + m /\ b + Len(vs) - 1 = b + m - 1 BY <1>1, SMT
  <2> DEFINE k == b + Len(p) - 1
             j == b + Len(vs) - 1
  <2>2. k = b + m /\ j = b + m - 1 BY <2>1
  <2> HIDE DEF k, j
  <2>3. i \in b..k <=> i \in b..j BY <2>2, SMT
  <2>4. i \in b..k => i - b + 1 \in 1..m /\ (i = 1 => 1 \in 1..m) BY <2>2, SMT
  <2> QED BY <2>3, <2>4 DEF k, j
<1>4. ASSUME NEW i \in 1..(f + 1) PROVE body(i) = goal(i)
  <2>1. CASE i = f + 1
    <3>1. body(i) = y
      <4>1. i \in b..(b + Len(p) - 1) /\ i - b + 1 = m + 1 /\ (two => i # 1) BY <1>2, <2>1
      <4>2. body(i) = p[m + 1][2] BY <4>1, Zenon
      <4> HIDE DEF body
      <4> QED BY <1>1, <4>2
    <3> HIDE DEF body, y
    <3> QED BY <2>1, <3>1, Zenon
  <2>2. CASE i # f + 1
    <3>1. i \in 1..f BY <2>2, SMT
    <3>2. M[i] = IF i \in b..(b + Len(vs) - 1)
                 THEN (IF two /\ i = 1 THEN TwoDigit(vs[1][2]) ELSE vs[i - b + 1][2])
                 ELSE cur[i] BY <3>1, Zenon DEF Merged
    <3> HIDE DEF M
    <3>3. body(i) = M[i]
      <4>1. i \in b..(b + Len(p) - 1) <=> i \in b..(b + Len(vs) - 1) BY <1>3, <3>1
      <4>2. CASE i \in b..(b + Len(p) - 1)
        <5>1. i - b + 1 \in 1..m /\ (i = 1 => 1 \in 1..m) BY <1>3, <3>1, <4>2
        <5>2. p[i - b + 1] = vs[i - b + 1] /\ (i = 1 => p[1] = vs[1]) BY <1>1, <5>1
        <5> QED BY <3>2, <4>1, <4>2, <5>2, Zenon
      <4>3. CASE i \notin b..(b + Len(p) - 1)
        <5>1. M[i] = cur[i] BY <3>2, <4>1, <4>3, Zenon
        <5>2. body(i) = cur[i] BY <4>3, Zenon
        <5> HIDE DEF body
        <5> QED BY <5>1, <5>2
      <4> QED BY <4>2, <4>3
    <3> HIDE DEF body
    <3> QED BY <2>2, <3>3, Zenon
  <2> QED BY <2>1, <2>2
<1>5. L = [i \in 1..(f + 1) |-> goal(i)]
  <2>1. L = [i \in 1..(f + 1) |-> body(i)] BY Zenon DEF Merged
  <2> HIDE DEF body, goal
  <2> QED BY <1>4, <2>1, Zenon
<1>6. Append(M, y) = [i \in 1..(f + 1) |-> goal(i)]
  <2>1. IsList(M, f) BY MergedSeq
  <2> HIDE DEF M, y
  <2>2. Append(M, y) = [i \in 1..(f + 1) |-> IF i = f + 1 THEN y ELSE M[i]] BY <2>1, AppendIs
  <2> QED BY <2>2
<1>7. L = Append(M, y) BY <1>5, <1>6
<1> QED BY <1>7 DEF p, Grows

\* What the conversion of the argument a comes to.
Outcome(c, a, st, N) ==
  /\ c.err \in BOOLEAN
  /\ ~c.err => c = Ok(c.v, c.st) /\ c.v \in Numeric(N) /\ (c.v = NaN <=> IsNaN(a))
  /\ a[1] # "conv" => ~c.err /\ c.v = a /\ c.st = st

\* What the code and ECMAScript do with it.
CodeAdds(r, c, f) == IF Len(r.v) # f THEN r ELSE IF c.err THEN c ELSE Ok(IF c.v = NaN THEN r.v ELSE Append(r.v, c.v[2]), c.st)
JsAdds(q, c) == IF c.err THEN c ELSE Ok(Append(q.v, c.v), c.st)

\* An argument after one that is NaN is not an object whose conversion is seen.
Unseen(args, m) == \A j \in 0..(m - 1) : IsNaN(Arg(args, j)) => Arg(args, m)[1] # "conv"

\* The numbers that ECMAScript has come to hold NaN, or do not.
Broken(q) == q.err = FALSE /\ HasNaN(q.v)
AllNumbers(q) == q.err = FALSE /\ ~HasNaN(q.v)

Holds(r, v, st) == r.err = FALSE /\ r.v = v /\ r.st = st

LEMMA OkIs ==
  ASSUME NEW v, NEW st, NEW r, r = Ok(v, st)
  PROVE  Holds(r, v, st)
BY Zenon DEF Ok, Holds

LEMMA AlikeBroken ==
  ASSUME NEW N, NEW f, NEW m, NEW b, NEW cur, NEW two, NEW args, NEW r, NEW q,
         Alike(r, q, f, m, b, cur, two, args, N), Broken(q)
  PROVE  /\ q.v \in Seq(Numeric(N)) /\ Len(q.v) = m /\ r.err = FALSE /\ r.st = q.st
         /\ (\E j \in 0..(m - 1) : IsNaN(Arg(args, j))) /\ Len(r.v) \in 0..(f - 1)
BY Zenon DEF Alike, Broken

WholeParts(r, q, f, m, b, cur, two, N) ==
  /\ q.v \in Seq(Numeric(N)) /\ Len(q.v) = m /\ r.err = FALSE /\ r.st = q.st
  /\ r.v = Merged(q.v, f, b, cur, two)

LEMMA AlikeWhole ==
  ASSUME NEW N, NEW f, NEW m, NEW b, NEW cur, NEW two, NEW args, NEW r, NEW q,
         Alike(r, q, f, m, b, cur, two, args, N), AllNumbers(q)
  PROVE  WholeParts(r, q, f, m, b, cur, two, N)
BY Zenon DEF Alike, AllNumbers, WholeParts

NoError(q) == q.err = FALSE

LEMMA AlikeSame ==
  ASSUME NEW N, NEW f, NEW m, NEW b, NEW cur, NEW two, NEW args, NEW r, NEW q,
         Alike(r, q, f, m, b, cur, two, args, N), NoError(q)
  PROVE  NoError(r) /\ r.st = q.st
BY Zenon DEF Alike, NoError

\* A number that is NaN, and one that is not.
GivesNaN(c) == c.err = FALSE /\ c.v = NaN
GivesNumber(c) == c.err = FALSE /\ c.v # NaN

LEMMA BrokenOf ==
  ASSUME NEW N, NEW f, NEW m, NEW b, NEW cur, NEW two, NEW args, NEW r, NEW q, NEW vs, NEW s, NEW rv,
         Holds(q, vs, s), Holds(r, rv, s), vs \in Seq(Numeric(N)), Len(vs) = m, HasNaN(vs),
         \E j \in 0..(m - 1) : IsNaN(Arg(args, j)), Len(rv) \in 0..(f - 1)
  PROVE  Alike(r, q, f, m, b, cur, two, args, N)
<1>1. /\ q.err = FALSE /\ q.v \in Seq(Numeric(N)) /\ Len(q.v) = m /\ HasNaN(q.v)
      /\ r.err = FALSE /\ r.st = q.st /\ Len(r.v) \in 0..(f - 1) BY DEF Holds
<1> QED BY <1>1, AlikeOf

LEMMA WholeOf ==
  ASSUME NEW N, NEW f, NEW m, NEW b, NEW cur, NEW two, NEW args, NEW r, NEW q, NEW vs, NEW s, NEW rv,
         Holds(q, vs, s), Holds(r, rv, s), vs \in Seq(Numeric(N)), Len(vs) = m, ~HasNaN(vs),
         rv = Merged(vs, f, b, cur, two)
  PROVE  Alike(r, q, f, m, b, cur, two, args, N)
<1>1. /\ q.err = FALSE /\ q.v \in Seq(Numeric(N)) /\ Len(q.v) = m /\ ~HasNaN(q.v)
      /\ r.err = FALSE /\ r.st = q.st /\ r.v = Merged(q.v, f, b, cur, two) BY DEF Holds
<1> QED BY <1>1, AlikeOf

\* The code has stopped already.
LEMMA AddsAfterNaN ==
  ASSUME NEW N, NEW f \in Nat, NEW m \in Nat, NEW b, NEW cur, NEW two, NEW args, NEW r, NEW q,
         Alike(r, q, f, m, b, cur, two, args, N), Broken(q),
         NEW c, Outcome(c, Arg(args, m), q.st, N), Unseen(args, m)
  PROVE  Alike(CodeAdds(r, c, f), JsAdds(q, c), f + 1, m + 1, b, cur, two, args, N)
<1> DEFINE vs == q.v
           s == q.st
           rv == r.v
           x == c.v
           r1 == CodeAdds(r, c, f)
           q1 == JsAdds(q, c)
           k == f + 1
           l == m + 1
<1>1. /\ vs \in Seq(Numeric(N)) /\ Len(vs) = m /\ r.err = FALSE /\ r.st = s
      /\ (\E j \in 0..(m - 1) : IsNaN(Arg(args, j))) /\ Len(rv) \in 0..(f - 1) BY AlikeBroken
<1>2. HasNaN(vs) BY DEF Broken
<1>3. PICK j \in 0..(m - 1) : IsNaN(Arg(args, j)) BY <1>1
<1>4. Arg(args, m)[1] # "conv" BY <1>3 DEF Unseen
<1>5. ~c.err /\ c.st = s /\ x \in Numeric(N) BY <1>4, Zenon DEF Outcome
<1>6. r1 = r
  <2>1. Len(rv) # f BY <1>1, SMT
  <2> QED BY <2>1, Zenon DEF CodeAdds
<1>7. q1 = Ok(Append(vs, x), s) BY <1>5, Zenon DEF JsAdds
<1>8. Holds(r1, rv, s)
  <2> HIDE DEF r1, s
  <2> QED BY <1>1, <1>6 DEF Holds
<1> HIDE DEF vs, s, rv, x, r1, q1
<1>9. Holds(q1, Append(vs, x), s) BY <1>7, OkIs
<1>10. Append(vs, x) \in Seq(Numeric(N)) /\ Len(Append(vs, x)) = l /\ HasNaN(Append(vs, x))
  BY <1>1, <1>2, <1>5, NumberAppended
<1>11. j \in 0..(l - 1) /\ Len(rv) \in 0..(k - 1)
  <2>1. j \in 0..(m + 1 - 1) BY SMT
  <2>2. Len(rv) \in 0..(f + 1 - 1) BY <1>1, SMT
  <2> QED BY <2>1, <2>2
<1> HIDE DEF k, l
<1>12. \E i \in 0..(l - 1) : IsNaN(Arg(args, i)) BY <1>3, <1>11
<1>13. Alike(r1, q1, k, l, b, cur, two, args, N) BY <1>8, <1>9, <1>10, <1>11, <1>12, BrokenOf
<1> QED BY <1>13 DEF r1, q1, k, l

\* The number is NaN: the code stops.
LEMMA AddsNaN ==
  ASSUME NEW N, NEW f \in Nat, NEW m \in Nat, NEW b, NEW cur, NEW two, NEW args, NEW r, NEW q,
         Alike(r, q, f, m, b, cur, two, args, N), AllNumbers(q),
         NEW c, Outcome(c, Arg(args, m), q.st, N), GivesNaN(c)
  PROVE  Alike(CodeAdds(r, c, f), JsAdds(q, c), f + 1, m + 1, b, cur, two, args, N)
<1> DEFINE vs == q.v
           M == Merged(vs, f, b, cur, two)
           x == c.v
           s == c.st
           r1 == CodeAdds(r, c, f)
           q1 == JsAdds(q, c)
           k == f + 1
           l == m + 1
<1>1. /\ vs \in Seq(Numeric(N)) /\ Len(vs) = m /\ r.err = FALSE /\ r.st = q.st
      /\ r.v = M
  <2>1. WholeParts(r, q, f, m, b, cur, two, N) BY AlikeWhole
  <2> QED BY <2>1 DEF WholeParts
<1>2. x \in Numeric(N) /\ x = NaN /\ IsNaN(Arg(args, m)) BY Zenon DEF Outcome, GivesNaN
<1>3. Len(M) = f
  <2>1. IsList(M, f) BY MergedSeq
  <2> QED BY <2>1 DEF IsList
<1>4. r1 = Ok(M, s)
  <2> HIDE DEF M
  <2> QED BY <1>1, <1>3, Zenon DEF CodeAdds, GivesNaN
<1>5. q1 = Ok(Append(vs, x), s) BY Zenon DEF JsAdds, GivesNaN
<1> HIDE DEF vs, M, x, s, r1, q1
<1>6. Holds(r1, M, s) BY <1>4, OkIs
<1>7. Holds(q1, Append(vs, x), s) BY <1>5, OkIs
<1>8. Append(vs, x) \in Seq(Numeric(N)) /\ Len(Append(vs, x)) = l /\ HasNaN(Append(vs, x))
  BY <1>1, <1>2, NumberAppended
<1>9. m \in 0..(l - 1) /\ Len(M) \in 0..(k - 1)
  <2>1. m \in 0..(m + 1 - 1) /\ f \in 0..(f + 1 - 1) BY SMT
  <2> QED BY <1>3, <2>1
<1> HIDE DEF k, l
<1>10. \E j \in 0..(l - 1) : IsNaN(Arg(args, j)) BY <1>2, <1>9
<1>11. Alike(r1, q1, k, l, b, cur, two, args, N) BY <1>6, <1>7, <1>8, <1>9, <1>10, BrokenOf
<1> QED BY <1>11 DEF r1, q1, k, l

\* One number more on both sides.
LEMMA AddsNumber ==
  ASSUME NEW N, NEW f \in Nat, NEW m \in Nat, NEW b \in Nat, b > 0, f + 1 = b + m,
         NEW cur, NEW two, two => f > 0, NEW args, NEW r, NEW q,
         Alike(r, q, f, m, b, cur, two, args, N), AllNumbers(q),
         NEW c, Outcome(c, Arg(args, m), q.st, N), GivesNumber(c)
  PROVE  Alike(CodeAdds(r, c, f), JsAdds(q, c), f + 1, m + 1, b, cur, two, args, N)
<1> DEFINE vs == q.v
           M == Merged(vs, f, b, cur, two)
           x == c.v
           y == c.v[2]
           s == c.st
           r1 == CodeAdds(r, c, f)
           q1 == JsAdds(q, c)
           k == f + 1
           l == m + 1
           p == Append(M, y)
<1>1. /\ vs \in Seq(Numeric(N)) /\ Len(vs) = m /\ r.err = FALSE /\ r.st = q.st
      /\ r.v = M
  <2>1. WholeParts(r, q, f, m, b, cur, two, N) BY AlikeWhole
  <2> QED BY <2>1 DEF WholeParts
<1>2. x \in Numeric(N) /\ x # NaN /\ ~HasNaN(vs) BY Zenon DEF Outcome, GivesNumber, AllNumbers
<1>3. Len(M) = f
  <2>1. IsList(M, f) BY MergedSeq
  <2> QED BY <2>1 DEF IsList
<1>4. r1 = Ok(p, s)
  <2> HIDE DEF M
  <2> QED BY <1>1, <1>3, Zenon DEF CodeAdds, GivesNumber
<1>5. q1 = Ok(Append(vs, x), s) BY Zenon DEF JsAdds, GivesNumber
<1>6. Merged(Append(vs, x), k, b, cur, two) = p
  <2> HIDE DEF vs, x
  <2> DEFINE S == Numeric(N)
  <2>1. vs \in Seq(S) /\ Len(vs) = m /\ x \in S BY <1>1, <1>2
  <2> HIDE DEF S
  <2>2. Grows(vs, x, f, b, cur, two) BY <2>1, MergedGrows
  <2> QED BY <2>2 DEF x, Grows
<1> HIDE DEF vs, M, x, y, s, r1, q1, p
<1>7. Holds(r1, p, s) BY <1>4, OkIs
<1>8. Holds(q1, Append(vs, x), s) BY <1>5, OkIs
<1>9. Append(vs, x) \in Seq(Numeric(N)) /\ Len(Append(vs, x)) = l /\ ~HasNaN(Append(vs, x))
  BY <1>1, <1>2, NumberAppended
<1> HIDE DEF k, l
<1>10. Alike(r1, q1, k, l, b, cur, two, args, N) BY <1>6, <1>7, <1>8, <1>9, WholeOf
<1> QED BY <1>10 DEF r1, q1, k, l

\* The conversion throws: so do both.
LEMMA AddsThrow ==
  ASSUME NEW N, NEW f \in Nat, NEW m, NEW b, NEW cur, NEW two, NEW args, NEW r, NEW q,
         Alike(r, q, f, m, b, cur, two, args, N), AllNumbers(q), NEW c, c.err = TRUE
  PROVE  Alike(CodeAdds(r, c, f), JsAdds(q, c), f + 1, m + 1, b, cur, two, args, N)
<1> DEFINE M == Merged(q.v, f, b, cur, two)
<1>1. /\ q.v \in Seq(Numeric(N)) /\ Len(q.v) = m /\ r.err = FALSE /\ r.st = q.st
      /\ r.v = M
  <2>1. WholeParts(r, q, f, m, b, cur, two, N) BY AlikeWhole
  <2> QED BY <2>1 DEF WholeParts
<1>2. Len(M) = f
  <2>1. IsList(M, f) BY MergedSeq
  <2> QED BY <2>1 DEF IsList
<1> HIDE DEF M
<1>3. CodeAdds(r, c, f) = c BY <1>1, <1>2, Zenon DEF CodeAdds
<1>4. JsAdds(q, c) = c BY Zenon DEF JsAdds
<1>5. Alike(c, c, f + 1, m + 1, b, cur, two, args, N)
  <2> DEFINE k == f + 1
             l == m + 1
  <2> HIDE DEF k, l
  <2>1. c.err \in BOOLEAN BY Zenon
  <2>2. Alike(c, c, k, l, b, cur, two, args, N) BY <2>1, Zenon DEF Alike
  <2> QED BY <2>2 DEF k, l
<1> QED BY <1>3, <1>4, <1>5

\* The field f + 1 is what the argument m sets.
Sets(own, args, f, b, m, n, N) ==
  /\ f + 1 = b + m /\ m < n
  /\ Present(own, 1 - b + (f + 1) - 1) /\ Arg(own, m) = Arg(args, m) /\ Argument(Arg(args, m), N)
  /\ Unseen(args, m)

FieldAs(r, f, cur, own, b, args, m) ==
  Field(r, f + 1, cur, own, 1 - b) = CodeAdds(r, ToNumber(Arg(args, m), r.st), f)

LEMMA FieldAdds ==
  ASSUME NEW N, NEW f \in 0..6, NEW m \in Nat, NEW b \in 1..7, NEW n \in 1..7, NEW args, NEW own,
         Sets(own, args, f, b, m, n, N), NEW cur, NEW r, NoError(r)
  PROVE  FieldAs(r, f, cur, own, b, args, m)
<1>1. f + 1 - 1 = f /\ 1 - b + (f + 1) - 1 = m BY SMT DEF Sets
<1>2. Present(own, 1 - b + (f + 1) - 1) /\ Arg(own, m) = Arg(args, m) BY Zenon DEF Sets
<1> DEFINE r1 == Field(r, f + 1, cur, own, 1 - b)
           c == ToNumber(Arg(args, m), r.st)
<1>3. r1 = IF r.err \/ Len(r.v) # f + 1 - 1 THEN r
           ELSE IF ~Present(own, 1 - b + (f + 1) - 1) THEN Ok(Append(r.v, cur[f + 1]), r.st)
           ELSE Added(r.v, ToNumber(Arg(own, 1 - b + (f + 1) - 1), r.st)) BY FieldIs
<1> HIDE DEF r1
<1>4. r1 = IF Len(r.v) # f THEN r ELSE Added(r.v, c) BY <1>1, <1>2, <1>3 DEF NoError
<1> HIDE DEF c
<1>5. Added(r.v, c) = IF c.err THEN c ELSE Ok(IF c.v = NaN THEN r.v ELSE Append(r.v, c.v[2]), c.st)
  BY Zenon DEF Added, Then
<1>6. r1 = CodeAdds(r, c, f) BY <1>4, <1>5, Zenon DEF CodeAdds
<1> QED BY <1>6 DEF r1, c, FieldAs

LEMMA ConvertAdds ==
  ASSUME NEW m, NEW n, NEW args, NEW q, ~(m >= n), NoError(q)
  PROVE  Convert(q, n, args, m) = JsAdds(q, ToNumber(Arg(args, m), q.st))
<1> DEFINE c == ToNumber(Arg(args, m), q.st)
<1>1. Convert(q, n, args, m) = With(q.v, c) BY Zenon DEF Convert, Then, NoError
<1> HIDE DEF c
<1>2. With(q.v, c) = JsAdds(q, c) BY Zenon DEF With, Then, JsAdds
<1> QED BY <1>1, <1>2 DEF c

\* A field that the argument m sets.
LEMMA FieldConverted ==
  ASSUME NEW N, NEW f \in 0..6, NEW m \in Nat, NEW b \in 1..7, NEW cur, NEW two, NEW args, NEW n \in 1..7,
         NEW own, NEW r, NEW q, Alike(r, q, f, m, b, cur, two, args, N), two => f > 0,
         Sets(own, args, f, b, m, n, N)
  PROVE  Alike(Field(r, f + 1, cur, own, 1 - b), Convert(q, n, args, m), f + 1, m + 1, b, cur, two, args, N)
<1> DEFINE r1 == Field(r, f + 1, cur, own, 1 - b)
           q1 == Convert(q, n, args, m)
<1>1. CASE q.err
  <2>1. r1 = r
    <3>1. r.err BY <1>1, Zenon DEF Alike
    <3> QED BY <3>1, FieldStays
  <2>2. q1 = q
    <3>1. ~(m >= n) BY SMT DEF Sets
    <3> QED BY <1>1, <3>1, Zenon DEF Convert, Then
  <2>3. r = q /\ q.err \in BOOLEAN BY <1>1, Zenon DEF Alike
  <2> DEFINE k == f + 1
             l == m + 1
  <2> HIDE DEF k, l
  <2>4. Alike(r, q, k, l, b, cur, two, args, N) BY <1>1, <2>3, Zenon DEF Alike
  <2> QED BY <2>1, <2>2, <2>4 DEF k, l
<1>2. CASE ~q.err
  <2> DEFINE c == ToNumber(Arg(args, m), q.st)
  <2>1. NoError(q)
    <3>1. q.err \in BOOLEAN BY Zenon DEF Alike
    <3> QED BY <1>2, <3>1 DEF NoError
  <2>10. NoError(r) /\ r.st = q.st BY <2>1, AlikeSame
  <2>2. Outcome(c, Arg(args, m), q.st, N)
    <3>1. Argument(Arg(args, m), N) BY Zenon DEF Sets
    <3>2. /\ c.err \in BOOLEAN
          /\ ~c.err => c = Ok(c.v, c.st) /\ c.v \in Numeric(N) /\ (c.v = NaN <=> IsNaN(Arg(args, m)))
          /\ Arg(args, m)[1] # "conv" => ~c.err /\ c.v = Arg(args, m) /\ c.st = q.st BY <3>1, Converted
    <3> HIDE DEF c
    <3> QED BY <3>2 DEF Outcome
  <2>3. r1 = CodeAdds(r, c, f)
    <3>1. FieldAs(r, f, cur, own, b, args, m) BY <2>10, FieldAdds
    <3>2. r1 = CodeAdds(r, ToNumber(Arg(args, m), r.st), f) BY <3>1, Zenon DEF FieldAs
    <3> QED BY <2>10, <3>2
  <2>4. q1 = JsAdds(q, c)
    <3>1. ~(m >= n) BY SMT DEF Sets
    <3> QED BY <2>1, <3>1, ConvertAdds, Zenon
  <2>5. f \in Nat /\ b \in Nat /\ b > 0 /\ f + 1 = b + m
    <3>1. f + 1 = b + m BY Zenon DEF Sets
    <3> QED BY <3>1, SMT
  <2>6. Unseen(args, m) BY Zenon DEF Sets
  <2> HIDE DEF c, r1, q1
  <2> SUFFICES Alike(CodeAdds(r, c, f), JsAdds(q, c), f + 1, m + 1, b, cur, two, args, N)
    BY <2>3, <2>4, Zenon DEF r1, q1
  <2>7. CASE HasNaN(q.v)
    <3>1. Broken(q) BY <2>1, <2>7 DEF Broken, NoError
    <3>2. Alike(CodeAdds(r, c, f), JsAdds(q, c), f + 1, m + 1, b, cur, two, args, N)
      BY <2>2, <2>5, <2>6, <3>1, AddsAfterNaN
    <3> QED BY <3>2
  <2>8. CASE ~HasNaN(q.v)
    <3>1. AllNumbers(q) BY <2>1, <2>8 DEF AllNumbers, NoError
    <3>2. c.err \in BOOLEAN BY <2>2, Zenon DEF Outcome
    <3>3. CASE c.err = TRUE
      <4>1. Alike(CodeAdds(r, c, f), JsAdds(q, c), f + 1, m + 1, b, cur, two, args, N)
        BY <2>5, <3>1, <3>3, AddsThrow
      <4> QED BY <4>1
    <3>4. CASE c.err = FALSE /\ c.v = NaN
      <4>1. GivesNaN(c) BY <3>4 DEF GivesNaN
      <4>2. Alike(CodeAdds(r, c, f), JsAdds(q, c), f + 1, m + 1, b, cur, two, args, N)
        BY <2>2, <2>5, <3>1, <4>1, AddsNaN
      <4> QED BY <4>2
    <3>5. CASE c.err = FALSE /\ c.v # NaN
      <4>1. GivesNumber(c) BY <3>5 DEF GivesNumber
      <4>2. Alike(CodeAdds(r, c, f), JsAdds(q, c), f + 1, m + 1, b, cur, two, args, N)
        BY <2>2, <2>5, <3>1, <4>1, AddsNumber
      <4> QED BY <4>2
    <3> QED BY <3>2, <3>3, <3>4, <3>5
  <2> QED BY <2>7, <2>8
<1> QED BY <1>1, <1>2
---------------------------------------------------------------------------
(* The setter chain.                                                       *)

\* How many arguments are converted with the first f fields, when n are read
\* from field b on.
Read(f, b, n) == IF f < b THEN 0 ELSE IF f - b + 1 < n THEN f - b + 1 ELSE n

\* The arguments own, the first n of args, set the fields from b on.
Reads(own, args, b, n, N) ==
  /\ \A f \in 1..7 : Present(own, f - b) <=> f - b \in 0..(n - 1)
  /\ \A i \in 0..(n - 1) :
       /\ Arg(own, i) = Arg(args, i) /\ Argument(Arg(args, i), N)
       /\ \A j \in 0..(i - 1) : IsNaN(Arg(args, j)) => Arg(args, i)[1] # "conv"

LEMMA FieldRead ==
  ASSUME NEW N, NEW b \in 1..7, NEW n \in 1..7, NEW cur, NEW two \in BOOLEAN,
         NEW args, NEW own, Reads(own, args, b, n, N), NEW R, NEW Q,
         \A i \in 0..6 : Q[i + 1] = Convert(Q[i], n, args, i),
         NEW f \in 0..6, two => f > 0,
         R[f + 1] = Field(R[f], f + 1, cur, own, 1 - b),
         Alike(R[f], Q[Read(f, b, n)], f, Read(f, b, n), b, cur, two, args, N)
  PROVE  Alike(R[f + 1], Q[Read(f + 1, b, n)], f + 1, Read(f + 1, b, n), b, cur, two, args, N)
<1> DEFINE m == Read(f, b, n)
<1>1. 1 - b + (f + 1) - 1 = f + 1 - b /\ f + 1 \in 1..7 BY SMT
<1>2. Present(own, 1 - b + (f + 1) - 1) <=> f + 1 - b \in 0..(n - 1)
  <2>1. \A g \in 1..7 : Present(own, g - b) <=> g - b \in 0..(n - 1) BY Zenon DEF Reads
  <2>2. Present(own, f + 1 - b) <=> f + 1 - b \in 0..(n - 1) BY <1>1, <2>1
  <2> QED BY <1>1, <2>2
<1>3. CASE f + 1 - b \in 0..(n - 1)
  <2>1. m = f + 1 - b /\ Read(f + 1, b, n) = m + 1 /\ m \in Nat /\ m < n /\ m \in 0..6 /\ m \in 0..(n - 1)
    BY <1>3, SMT DEF Read
  <2> HIDE DEF m
  <2>2. Q[m + 1] = Convert(Q[m], n, args, m) BY <2>1
  <2>3. /\ Arg(own, m) = Arg(args, m) /\ Argument(Arg(args, m), N)
        /\ \A j \in 0..(m - 1) : IsNaN(Arg(args, j)) => Arg(args, m)[1] # "conv"
    BY <2>1, Zenon DEF Reads
  <2>4. Alike(R[f], Q[m], f, m, b, cur, two, args, N) BY Zenon DEF m
  <2>5. Sets(own, args, f, b, m, n, N)
    <3>1. Present(own, 1 - b + (f + 1) - 1) BY <1>2, <1>3
    <3>2. f + 1 = b + m BY <2>1, SMT
    <3> QED BY <2>1, <2>3, <3>1, <3>2, Zenon DEF Sets, Unseen
  <2>6. Alike(Field(R[f], f + 1, cur, own, 1 - b), Convert(Q[m], n, args, m), f + 1, m + 1, b, cur, two, args, N)
    BY <2>1, <2>4, <2>5, FieldConverted
  <2> QED BY <2>1, <2>2, <2>6
<1>4. CASE f + 1 - b \notin 0..(n - 1)
  <2>1. Read(f + 1, b, n) = m /\ m \in Nat /\ (m = 0 \/ b + m - 1 <= f) BY <1>4, SMT DEF Read
  <2> HIDE DEF m
  <2>2. ~Present(own, 1 - b + (f + 1) - 1) BY <1>2, <1>4
  <2>3. Alike(R[f], Q[m], f, m, b, cur, two, args, N) BY Zenon DEF m
  <2>4. Alike(Field(R[f], f + 1, cur, own, 1 - b), Q[m], f + 1, m, b, cur, two, args, N)
    BY <2>1, <2>2, <2>3, FieldKept
  <2> QED BY <2>1, <2>4
<1> QED BY <1>3, <1>4

\* date.go, dateSetFrom: what the seven fields come to.
LEMMA FieldsRead ==
  ASSUME NEW N, NEW b \in 1..7, NEW n \in 1..7, b + n <= 8, NEW cur, NEW two \in BOOLEAN,
         NEW args, NEW own, Reads(own, args, b, n, N), NEW R, NEW Q,
         \A i \in 0..6 : Q[i + 1] = Convert(Q[i], n, args, i),
         \A f \in 1..6 : R[f + 1] = Field(R[f], f + 1, cur, own, 1 - b),
         Alike(R[1], Q[Read(1, b, n)], 1, Read(1, b, n), b, cur, two, args, N)
  PROVE  Alike(R[7], Q[7], 7, n, b, cur, two, args, N)
<1> DEFINE A(f) == Alike(R[f], Q[Read(f, b, n)], f, Read(f, b, n), b, cur, two, args, N)
<1>1. ASSUME NEW f \in 1..6, A(f) PROVE A(f + 1)
  <2>1. f \in 0..6 /\ (two => f > 0) /\ R[f + 1] = Field(R[f], f + 1, cur, own, 1 - b) BY SMT
  <2> QED BY <1>1, <2>1, FieldRead, Zenon
<1>2. A(1) OBVIOUS
<1> HIDE DEF A
<1>3. A(2) /\ A(3) /\ A(4)
  <2>1. A(1 + 1) BY <1>1, <1>2, SMT
  <2>2. A(2) BY <2>1, SMT
  <2>3. A(2 + 1) BY <1>1, <2>2, SMT
  <2>4. A(3) BY <2>3, SMT
  <2>5. A(3 + 1) BY <1>1, <2>4, SMT
  <2> QED BY <2>2, <2>4, <2>5, SMT
<1>4. A(7)
  <2>1. A(4 + 1) BY <1>1, <1>3, SMT
  <2>2. A(5) BY <2>1, SMT
  <2>3. A(5 + 1) BY <1>1, <2>2, SMT
  <2>4. A(6) BY <2>3, SMT
  <2>5. A(6 + 1) BY <1>1, <2>4, SMT
  <2> QED BY <2>5, SMT
<1>5. Read(7, b, n) = n BY SMT DEF Read
<1>6. Q[n] = Q[7]
  <2>1. \A i \in 0..6 : i >= n => Q[i + 1] = Q[i] BY Zenon DEF Convert
  <2>2. (n <= 6 => Q[6 + 1] = Q[6]) /\ (n <= 5 => Q[5 + 1] = Q[5]) /\ (n <= 4 => Q[4 + 1] = Q[4])
        /\ (n <= 3 => Q[3 + 1] = Q[3]) /\ (n <= 2 => Q[2 + 1] = Q[2]) /\ (n <= 1 => Q[1 + 1] = Q[1])
    BY <2>1, SMT
  <2> QED BY <2>2, SMT
<1> QED BY <1>4, <1>5, <1>6, Zenon DEF A

LEMMA MergedBounded ==
  ASSUME NEW N, Within(N), DatesAssumption, NEW b \in 1..7, NEW n \in 1..7, b + n <= 8,
         NEW cur \in [1..7 -> (-N)..N], NEW two \in BOOLEAN,
         NEW vs \in Seq(Numeric(N)), Len(vs) = n, ~HasNaN(vs)
  PROVE  Merged(vs, 7, b, cur, two) \in [1..7 -> (-N)..N]
<1>1. \A i \in 1..n : vs[i][2] \in (-N)..N
  <2>1. SUFFICES ASSUME NEW i \in 1..n PROVE vs[i][2] \in (-N)..N OBVIOUS
  <2>2. i \in DOMAIN vs /\ vs[i] \in Numeric(N) BY SMT
  <2>3. vs[i] # NaN BY <2>2, Zenon DEF HasNaN
  <2> QED BY <2>2, <2>3, Numbered, Zenon
<1>2. TwoDigit(vs[1][2]) \in (-N)..N
  <2>1. vs[1][2] \in (-N)..N BY <1>1, SMT
  <2>2. N \in Nat /\ N >= 300000 BY SMT DEF Within
  <2> DEFINE x == vs[1][2]
  <2>3. x \in Int /\ -N <= x /\ x <= N BY <2>1, <2>2, SMT
  <2> HIDE DEF x
  <2>4. ASSUME x \in 0..99 PROVE TwoDigit(x) \in (-N)..N
    <3>1. TwoDigit(x) = x + 1900 BY <2>4, SMT DEF TwoDigit
    <3>2. 0 <= x /\ x <= 99 BY <2>4, SMT
    <3> QED BY <2>2, <2>3, <3>1, <3>2, SMT
  <2>5. ASSUME x \notin 0..99 PROVE TwoDigit(x) \in (-N)..N
    <3>1. TwoDigit(x) = x BY <2>5, SMT DEF TwoDigit
    <3> QED BY <2>2, <2>3, <3>1, SMT
  <2>6. TwoDigit(x) \in (-N)..N BY <2>4, <2>5
  <2> QED BY <2>6 DEF x
<1>3. ASSUME NEW i \in 1..7
      PROVE  (IF i \in b..(b + Len(vs) - 1)
              THEN (IF two /\ i = 1 THEN TwoDigit(vs[1][2]) ELSE vs[i - b + 1][2])
              ELSE cur[i]) \in (-N)..N
  <2>1. i \in b..(b + Len(vs) - 1) => i - b + 1 \in 1..n BY SMT
  <2>2. cur[i] \in (-N)..N OBVIOUS
  <2> QED BY <1>1, <1>2, <2>1, <2>2, Zenon
<1> QED BY <1>3, Zenon DEF Merged

\* ECMAScript's answer, from the arguments as numbers.
Together(q, b, cur, two, utc) ==
  Then(q, LAMBDA vs, s :
    Ok(IF HasNaN(vs) THEN NoTime ELSE Shift(MakeDateTime(Merged(vs, 7, b, cur, two)), -ZoneOf(utc)), s))

\* A time of the fields that is not NaN: within int64.
Exact(t) == t \in Time /\ TimeToMsec(t) = t

\* Numbers and times as they should be.
Sound(q, n, b, cur, two, utc, args, N) ==
  ~q.err =>
    /\ q.v \in Seq(Numeric(N)) /\ Len(q.v) = n
    /\ HasNaN(q.v) => \E j \in 0..(n - 1) : IsNaN(Arg(args, j))
    /\ ~HasNaN(q.v) => Exact(Shift(MakeDateTime(Merged(q.v, 7, b, cur, two)), -ZoneOf(utc)))

\* The end of dateSetFrom.
Finish(r, utc) ==
  Then(r, LAMBDA f, s :
    LET seconds == DateNorm(f[6], f[7], MsPerSecond)
    IN  Ok(IF Len(f) < 7 \/ seconds = <<>> THEN NoTime ELSE MkTime(f, seconds[1], seconds[2], utc), s))

LEMMA Finished ==
  ASSUME NEW N, Within(N), DatesAssumption, NEW b \in 1..7, NEW n \in 1..7, b + n <= 8,
         NEW cur \in [1..7 -> (-N)..N], NEW two \in BOOLEAN, NEW utc \in BOOLEAN, NEW args,
         NEW r, NEW q, Alike(r, q, 7, n, b, cur, two, args, N)
  PROVE  /\ Finish(r, utc) = Together(q, b, cur, two, utc)
         /\ ~q.err /\ ~HasNaN(q.v) => Exact(Shift(MakeDateTime(Merged(q.v, 7, b, cur, two)), -ZoneOf(utc)))
<1>1. CASE q.err
  <2>1. r = q BY <1>1, Zenon DEF Alike
  <2> QED BY <1>1, <2>1, Zenon DEF Finish, Together, Then
<1>2. CASE ~q.err
  <2>1. /\ q.v \in Seq(Numeric(N)) /\ Len(q.v) = n /\ r.err = FALSE /\ r.st = q.st
        /\ HasNaN(q.v) => Len(r.v) \in 0..(7 - 1)
        /\ ~HasNaN(q.v) => r.v = Merged(q.v, 7, b, cur, two) BY <1>2, Zenon DEF Alike
  <2> DEFINE g == r.v
             x == DateNorm(g[6], g[7], MsPerSecond)
             M == Merged(q.v, 7, b, cur, two)
             t == Shift(MakeDateTime(M), -ZoneOf(utc))
  <2>2. Finish(r, utc) = Ok(IF Len(g) < 7 \/ x = <<>> THEN NoTime ELSE MkTime(g, x[1], x[2], utc), q.st)
    BY <2>1, Zenon DEF Finish, Then
  <2>3. Together(q, b, cur, two, utc) = Ok(IF HasNaN(q.v) THEN NoTime ELSE t, q.st)
    BY <1>2, Zenon DEF Together, Then
  <2>4. CASE HasNaN(q.v)
    <3>1. Len(g) < 7
      <4>1. Len(g) \in 0..(7 - 1) BY <2>1, <2>4, Zenon
      <4> DEFINE l == Len(g)
      <4>2. l \in 0..(7 - 1) BY <4>1
      <4> HIDE DEF l
      <4>3. l < 7 BY <4>2, SMT
      <4> QED BY <4>3 DEF l
    <3> HIDE DEF g, t
    <3> QED BY <1>2, <2>2, <2>3, <2>4, <3>1, Zenon
  <2>5. CASE ~HasNaN(q.v)
    <3>1. N \in Nat BY WithinFacts
    <3>2. M \in [1..7 -> (-N)..N] BY <2>1, <2>5, MergedBounded, Zenon
    <3>3. g = M BY <2>1, <2>5
    <3>4. Len(M) = 7 BY MergedLength
    <3> HIDE DEF M, g
    <3>5. /\ DateNorm(M[6], M[7], MsPerSecond) # <<>>
          /\ MkTime(M, DateNorm(M[6], M[7], MsPerSecond)[1], DateNorm(M[6], M[7], MsPerSecond)[2], utc) = t
          /\ t \in Time /\ TimeToMsec(t) = t
      BY <3>2, MkTimeExact
    <3>6. ~(Len(g) < 7) BY <3>3, <3>4, SMT
    <3>7. Exact(t) BY <3>5, Zenon DEF Exact
    <3> HIDE DEF t
    <3>8. Finish(r, utc) = Together(q, b, cur, two, utc) BY <2>2, <2>3, <2>5, <3>3, <3>5, <3>6, Zenon
    <3> QED BY <3>7, <3>8 DEF t, M
  <2> QED BY <2>4, <2>5
<1> QED BY <1>1, <1>2

\* The arguments as numbers, one by one.
Chain(Q, n, args, st) ==
  /\ Q[0] = Ok(<<>>, st) /\ Q[7] = Numbers(args, n, st)
  /\ \A i \in 0..6 : Q[i + 1] = Convert(Q[i], n, args, i)

LEMMA OneByOne ==
  ASSUME NEW n, NEW args, NEW st
  PROVE  \E Q : Chain(Q, n, args, st)
<1> DEFINE q0 == Ok(<<>>, st)
           q1 == Convert(q0, n, args, 0)
           q2 == Convert(q1, n, args, 1)
           q3 == Convert(q2, n, args, 2)
           q4 == Convert(q3, n, args, 3)
           q5 == Convert(q4, n, args, 4)
           q6 == Convert(q5, n, args, 5)
           q7 == Convert(q6, n, args, 6)
           Q == [i \in 0..7 |-> <<q0, q1, q2, q3, q4, q5, q6, q7>>[i + 1]]
<1>1. q7 = Numbers(args, n, st) BY Zenon DEF Numbers
<1>2. /\ q1 = Convert(q0, n, args, 0) /\ q2 = Convert(q1, n, args, 1) /\ q3 = Convert(q2, n, args, 2)
      /\ q4 = Convert(q3, n, args, 3) /\ q5 = Convert(q4, n, args, 4) /\ q6 = Convert(q5, n, args, 5)
      /\ q7 = Convert(q6, n, args, 6) OBVIOUS
<1>3. q0 = Ok(<<>>, st) OBVIOUS
<1> HIDE DEF q0, q1, q2, q3, q4, q5, q6, q7
<1>4. /\ Q[0] = q0 /\ Q[1] = q1 /\ Q[2] = q2 /\ Q[3] = q3 /\ Q[4] = q4 /\ Q[5] = q5 /\ Q[6] = q6 /\ Q[7] = q7
  BY SMT
<1> HIDE DEF Q
<1>5. \A i \in 0..6 : Q[i + 1] = Convert(Q[i], n, args, i)
  <2>1. SUFFICES ASSUME NEW i \in 0..6 PROVE Q[i + 1] = Convert(Q[i], n, args, i) OBVIOUS
  <2>2. i = 0 \/ i = 1 \/ i = 2 \/ i = 3 \/ i = 4 \/ i = 5 \/ i = 6 BY SMT
  <2>3. 0 + 1 = 1 /\ 1 + 1 = 2 /\ 2 + 1 = 3 /\ 3 + 1 = 4 /\ 4 + 1 = 5 /\ 5 + 1 = 6 /\ 6 + 1 = 7 BY SMT
  <2> QED BY <1>2, <1>4, <2>2, <2>3, Zenon
<1>6. Chain(Q, n, args, st) BY <1>1, <1>3, <1>4, <1>5, Zenon DEF Chain
<1> QED BY <1>6

\* date.go, dateSetFrom: what it answers when its first field is as it should be.
LEMMA SetFromExact ==
  ASSUME NEW N, Within(N), DatesAssumption, NEW b \in 1..7, NEW n \in 1..7, b + n <= 8,
         NEW cur \in [1..7 -> (-N)..N], NEW two \in BOOLEAN, NEW utc \in BOOLEAN,
         NEW args, NEW own, Reads(own, args, b, n, N), NEW Q,
         \A i \in 0..6 : Q[i + 1] = Convert(Q[i], n, args, i),
         NEW vals, NEW st,
         Alike(Field(Ok(vals, st), 1, cur, own, 1 - b), Q[Read(1, b, n)], 1, Read(1, b, n), b, cur, two, args, N)
  PROVE  /\ DateSetFrom(vals, cur, own, 1 - b, utc, st) = Together(Q[7], b, cur, two, utc)
         /\ Sound(Q[7], n, b, cur, two, utc, args, N)
<1> DEFINE r1 == Field(Ok(vals, st), 1, cur, own, 1 - b)
           r2 == Field(r1, 2, cur, own, 1 - b)
           r3 == Field(r2, 3, cur, own, 1 - b)
           r4 == Field(r3, 4, cur, own, 1 - b)
           r5 == Field(r4, 5, cur, own, 1 - b)
           r6 == Field(r5, 6, cur, own, 1 - b)
           r7 == Field(r6, 7, cur, own, 1 - b)
           R == [i \in 1..7 |-> <<r1, r2, r3, r4, r5, r6, r7>>[i]]
<1>1. DateSetFrom(vals, cur, own, 1 - b, utc, st) = Finish(r7, utc) BY Zenon DEF DateSetFrom, Finish
<1>2. /\ r2 = Field(r1, 2, cur, own, 1 - b) /\ r3 = Field(r2, 3, cur, own, 1 - b)
      /\ r4 = Field(r3, 4, cur, own, 1 - b) /\ r5 = Field(r4, 5, cur, own, 1 - b)
      /\ r6 = Field(r5, 6, cur, own, 1 - b) /\ r7 = Field(r6, 7, cur, own, 1 - b) OBVIOUS
<1>3. Alike(r1, Q[Read(1, b, n)], 1, Read(1, b, n), b, cur, two, args, N) OBVIOUS
<1> HIDE DEF r1, r2, r3, r4, r5, r6, r7
<1>4. R[1] = r1 /\ R[2] = r2 /\ R[3] = r3 /\ R[4] = r4 /\ R[5] = r5 /\ R[6] = r6 /\ R[7] = r7 BY SMT
<1> HIDE DEF R
<1>5. \A f \in 1..6 : R[f + 1] = Field(R[f], f + 1, cur, own, 1 - b)
  <2>1. SUFFICES ASSUME NEW f \in 1..6 PROVE R[f + 1] = Field(R[f], f + 1, cur, own, 1 - b) OBVIOUS
  <2>2. f = 1 \/ f = 2 \/ f = 3 \/ f = 4 \/ f = 5 \/ f = 6 BY SMT
  <2>3. 1 + 1 = 2 /\ 2 + 1 = 3 /\ 3 + 1 = 4 /\ 4 + 1 = 5 /\ 5 + 1 = 6 /\ 6 + 1 = 7 BY SMT
  <2> QED BY <1>2, <1>4, <2>2, <2>3, Zenon
<1>6. Alike(R[7], Q[7], 7, n, b, cur, two, args, N) BY <1>3, <1>4, <1>5, FieldsRead
<1>7. Alike(r7, Q[7], 7, n, b, cur, two, args, N) BY <1>4, <1>6
<1>8. /\ Finish(r7, utc) = Together(Q[7], b, cur, two, utc)
      /\ ~Q[7].err /\ ~HasNaN(Q[7].v) => Exact(Shift(MakeDateTime(Merged(Q[7].v, 7, b, cur, two)), -ZoneOf(utc)))
  BY <1>7, Finished
<1>9. ~Q[7].err => Q[7].v \in Seq(Numeric(N)) /\ Len(Q[7].v) = n /\ (HasNaN(Q[7].v) => \E j \in 0..(n - 1) : IsNaN(Arg(args, j))) BY <1>7, Zenon DEF Alike
<1> QED BY <1>1, <1>8, <1>9, Zenon DEF Sound
---------------------------------------------------------------------------
(* The setters.                                                            *)

\* A day whose fields are counted: that of a date, in its zone.
Near(d) == d \in Int /\ d <= MaxDay + 2 /\ -(MaxDay + 2) <= d

LEMMA YearNear ==
  ASSUME NEW d \in Int, Near(d), NEW y \in Int, BeforeYear(y) <= d, d < BeforeYear(y + 1)
  PROVE  /\ -300000 <= y /\ y <= 300000
         /\ 0 <= d - BeforeYear(y) /\ d - BeforeYear(y) < 367
<1>1. d <= 100000002 /\ -100000002 <= d BY SMT DEF Near, MaxDay
<1>2. y <= 300000 BY <1>1, SMT DEF BeforeYear
<1>3. -300000 <= y BY <1>1, SMT DEF BeforeYear
<1>4. BeforeYear(y) \in Int /\ BeforeYear(y + 1) - BeforeYear(y) <= 366
  <2>1. BeforeYear(y) \in Int BY SMT DEF BeforeYear
  <2> QED BY <2>1, YearLength, SMT
<1>5. BeforeYear(y + 1) \in Int BY SMT DEF BeforeYear
<1> QED BY <1>2, <1>3, <1>4, <1>5, SMT

\* Not a cent more than the setter chain is exact for.
LEMMA FieldsNear ==
  ASSUME NEW N, Within(N), DatesAssumption, NEW t \in Time, Near(t[1])
  PROVE  FieldsOf(t) \in [1..7 -> (-N)..N]
<1> DEFINE f == FieldsOf(t)
           y == YearOf(t[1])
           d == t[1]
<1>1. N \in Int /\ N >= 300000 BY SMT DEF Within
<1>2. /\ InOrder(f) /\ f[1] = y /\ f[3] = d - BeforeYear(f[1]) - BeforeMonth(f[1], f[2]) + 1
  BY FieldRanges, Zenon
<1>3. d \in Int /\ Near(d) BY Times
<1> HIDE DEF d
<1>4. y \in Int /\ BeforeYear(y) <= d /\ d < BeforeYear(y + 1) BY <1>3, YearFound, Zenon DEF d
<1> HIDE DEF f, y
<1>5. -300000 <= y /\ y <= 300000 /\ 0 <= d - BeforeYear(y) /\ d - BeforeYear(y) < 367
  BY <1>3, <1>4, YearNear
<1>6. f \in [1..7 -> Int] /\ f[2] \in 0..11 BY <1>2, SMT DEF InOrder
<1>7. DayBound(y, f[2]) BY <1>4, <1>6, DayBounds, Zenon
<1>8. f[3] \in Int /\ -400 <= f[3] /\ f[3] <= 400
  <2> DEFINE x == BeforeYear(y)
             z == BeforeMonth(y, f[2])
             v == f[3]
  <2>1. /\ x \in Int /\ z \in Int /\ 0 <= z /\ z <= 335 BY <1>7, SMT DEF DayBound
  <2>2. v = d - x - z + 1 BY <1>2
  <2>3. 0 <= d - x /\ d - x < 367 BY <1>5
  <2> HIDE DEF x, z, v
  <2>4. v \in Int /\ -400 <= v /\ v <= 400 BY <1>3, <2>1, <2>2, <2>3, SMT
  <2> QED BY <2>4 DEF v
<1>9. \A i \in 1..7 : f[i] \in Int /\ -N <= f[i] /\ f[i] <= N
  <2>1. /\ f[1] \in Int /\ -N <= f[1] /\ f[1] <= N BY <1>1, <1>2, <1>4, <1>5, SMT
  <2>2. /\ f[3] \in Int /\ -N <= f[3] /\ f[3] <= N BY <1>1, <1>8, SMT
  <2>3. /\ f[2] \in Int /\ -N <= f[2] /\ f[2] <= N /\ f[4] \in Int /\ -N <= f[4] /\ f[4] <= N
    BY <1>1, <1>2, SMT DEF InOrder
  <2>4. /\ f[5] \in Int /\ -N <= f[5] /\ f[5] <= N /\ f[6] \in Int /\ -N <= f[6] /\ f[6] <= N
    BY <1>1, <1>2, SMT DEF InOrder
  <2>5. /\ f[7] \in Int /\ -N <= f[7] /\ f[7] <= N BY <1>1, <1>2, SMT DEF InOrder, MsPerSecond
  <2>6. \A i \in 1..7 : i = 1 \/ i = 2 \/ i = 3 \/ i = 4 \/ i = 5 \/ i = 6 \/ i = 7 BY SMT
  <2> QED BY <2>1, <2>2, <2>3, <2>4, <2>5, <2>6, Zenon
<1>10. f \in [1..7 -> (-N)..N] BY <1>1, <1>6, <1>9, SMT
<1> QED BY <1>10 DEF f

\* How many arguments a setter reads that sets up to `most` fields.
Count(args, most) == IF args = <<>> THEN 1 ELSE IF Len(args) > most THEN most ELSE Len(args)

LEMMA SetterReads ==
  ASSUME NEW N \in Nat, NEW S, \A a \in S : Argument(a, N), NEW args \in Seq(S), EndsAtNaN(args),
         NEW b \in 1..7, NEW most \in 1..7, b + most <= 8,
         NEW own, (own = args /\ b + most = 8) \/ own = LimitArgs(args, most)
  PROVE  /\ Count(args, most) \in 1..7 /\ b + Count(args, most) <= 8
         /\ Reads(own, args, b, Count(args, most), N)
<1> DEFINE n == Count(args, most)
           k == Len(args)
<1>1. k \in Nat /\ (args = <<>> <=> k = 0) BY SMT
<1>2. n = (IF k = 0 THEN 1 ELSE IF k > most THEN most ELSE k) BY <1>1, Zenon DEF Count
<1>3. n \in 1..7 /\ b + n <= 8 /\ n >= 1
  <2> HIDE DEF n, k
  <2> QED BY <1>1, <1>2, SMT
<1>4. /\ (Len(own) = k /\ (k <= most \/ b + most = 8)) \/ (k > most /\ Len(own) = most)
      /\ \A i \in 1..most : i <= k => own[i] = args[i]
      /\ k <= most => own = args
  <2>1. CASE own = args /\ b + most = 8 BY <1>1, <2>1
  <2>2. CASE own = LimitArgs(args, most) /\ k > most
    <3>1. own = SubSeq(args, 1, most)
      <4>1. most > 0 BY SMT
      <4> QED BY <2>2, <4>1, Zenon DEF LimitArgs
    <3> QED BY <1>1, <2>2, <3>1, SMT
  <2>3. CASE own = LimitArgs(args, most) /\ ~(k > most)
    <3>1. own = args BY <2>3, Zenon DEF LimitArgs
    <3>2. k <= most BY <1>1, <2>3, SMT
    <3> QED BY <3>1, <3>2
  <2> QED BY <2>1, <2>2, <2>3
<1>5. \A f \in 1..7 : Present(own, f - b) <=> f - b \in 0..(n - 1)
  <2>1. SUFFICES ASSUME NEW f \in 1..7 PROVE Present(own, f - b) <=> f - b \in 0..(n - 1) BY Zenon
  <2> DEFINE l == Len(own)
             i == f - b
  <2>2. Present(own, i) <=> (i = 0 \/ (i > 0 /\ i < l)) BY Zenon DEF Present
  <2>3. (l = k /\ (k <= most \/ b + most = 8)) \/ (k > most /\ l = most) BY <1>4
  <2> HIDE DEF l, n, k, i
  <2>4. i \in Int /\ i + b <= 7 BY SMT DEF i
  <2>5. (i = 0 \/ (i > 0 /\ i < l)) <=> i \in 0..(n - 1) BY <1>1, <1>2, <2>3, <2>4, SMT
  <2> QED BY <2>2, <2>5 DEF i
<1>6. ASSUME NEW i \in 0..(n - 1)
      PROVE  /\ Arg(own, i) = Arg(args, i) /\ Argument(Arg(args, i), N)
             /\ \A j \in 0..(i - 1) : IsNaN(Arg(args, j)) => Arg(args, i)[1] # "conv"
  <2>1. i \in Nat /\ i < n /\ i + 1 \in 1..most /\ (k > 0 => i < k)
    <3> HIDE DEF n, k
    <3> QED BY <1>1, <1>2, <1>6, SMT
  <2>2. NaN[1] # "conv" /\ NaN \in Numeric(N) BY SMT DEF NaN, Numeric
  <2>3. CASE i < k
    <3>1. i < Len(own) /\ own[i + 1] = args[i + 1] BY <1>1, <1>4, <2>1, <2>3, SMT
    <3>2. Arg(own, i) = args[i + 1] /\ Arg(args, i) = args[i + 1] BY <2>3, <3>1, Zenon DEF Arg
    <3>3. args[i + 1] \in S BY <2>1, <2>3, SMT
    <3>4. ASSUME NEW j \in 0..(i - 1), IsNaN(Arg(args, j)) PROVE args[i + 1][1] # "conv"
      <4>1. j \in Nat /\ j < k /\ j + 1 \in 1..k /\ i + 1 \in ((j + 1) + 1)..k /\ j < i BY <1>1, <2>1, <2>3, SMT
      <4>2. Arg(args, j) = args[j + 1] BY <4>1, Zenon DEF Arg
      <4>3. j + 1 \in DOMAIN args BY <4>1, SMT
      <4> QED BY <3>4, <4>1, <4>2, <4>3, Zenon DEF EndsAtNaN
    <3> QED BY <3>2, <3>3, <3>4
  <2>4. CASE ~(i < k)
    <3>1. k = 0 /\ i = 0 BY <1>1, <1>2, <2>1, <2>4, SMT
    <3>2. own = args /\ Arg(args, i) = NaN
      <4>1. Arg(args, i) = NaN BY <2>4, Zenon DEF Arg
      <4>2. k <= most
        <5> HIDE DEF k
        <5> QED BY <3>1, SMT
      <4> QED BY <1>4, <4>1, <4>2
    <3>3. Argument(NaN, N) BY <2>2, Zenon DEF Argument
    <3> QED BY <2>2, <3>2, <3>3
  <2> QED BY <2>3, <2>4
<1>7. Reads(own, args, b, n, N)
  <2> HIDE DEF n
  <2> QED BY <1>5, <1>6, Zenon DEF Reads
<1> QED BY <1>3, <1>7

\* The arguments of a call, and those that set the fields from b on.
Arguments(args, N) ==
  /\ \E S : args \in Seq(S) /\ \A a \in S : Argument(a, N)
  /\ EndsAtNaN(args)
Limited(own, args, b, most) ==
  /\ b \in 1..7 /\ most \in 1..7 /\ b + most <= 8
  /\ (own = args /\ b + most = 8) \/ own = LimitArgs(args, most)

LEMMA LimitedReads ==
  ASSUME NEW N, Within(N), DatesAssumption, NEW args, Arguments(args, N), NEW own, NEW b, NEW most,
         Limited(own, args, b, most)
  PROVE  /\ b \in 1..7 /\ Count(args, most) \in 1..7 /\ b + Count(args, most) <= 8
         /\ Reads(own, args, b, Count(args, most), N)
<1>1. N \in Nat BY WithinFacts
<1>2. PICK S : args \in Seq(S) /\ \A a \in S : Argument(a, N) BY Zenon DEF Arguments
<1>3. EndsAtNaN(args) BY Zenon DEF Arguments
<1>4. /\ b \in 1..7 /\ most \in 1..7 /\ b + most <= 8
      /\ (own = args /\ b + most = 8) \/ own = LimitArgs(args, most) BY Zenon DEF Limited
<1> QED BY <1>1, <1>2, <1>3, <1>4, SetterReads

\* A date of the program: none, or within a hundred million days of 1970.
IsDate(t) == t = NoTime \/ (t \in Time /\ InRange(t))

\* date.go, TimeClip: a date, or none.
LEMMA Clips ==
  ASSUME NEW t \in Time
  PROVE  TimeClip(t) = IF InRange(t) THEN t ELSE NoTime
<1>1. t[1] \in Int /\ MaxDay \in Int /\ t = <<t[1], t[2]>> BY Times, SMT
<1>2. InRange(t) <=> t[1] \in (-MaxDay)..(MaxDay - 1) \/ t = <<MaxDay, 0>>
  <2>1. t = <<MaxDay, 0>> => t[1] = MaxDay BY SMT
  <2>2. MaxDay >= 0 BY SMT DEF MaxDay
  <2> DEFINE d == t[1]
             last == (t = <<MaxDay, 0>>)
             m == MaxDay
  <2>3. d \in Int /\ m \in Int /\ m >= 0 /\ (last => d = m) BY <1>1, <2>1, <2>2
  <2>4. InRange(t) <=> d >= -m /\ (d < m \/ last) BY Zenon DEF InRange
  <2> HIDE DEF d, m, last
  <2>5. (d >= -m /\ (d < m \/ last)) <=> d \in (-m)..(m - 1) \/ last BY <2>3, SMT
  <2> QED BY <2>4, <2>5 DEF d, m, last
<1> QED BY <1>2, Zenon DEF TimeClip

\* date.go, setTimeMs.
LEMMA Clipped ==
  ASSUME NEW t \in Time, NEW s
  PROVE  SetTimeMs(t, s) = Ok(TimeClip(t), [s EXCEPT !.date = TimeClip(t)])
<1>1. CASE InRange(t)
  <2>1. TimeClip(t) = t BY <1>1, Clips, Zenon
  <2> QED BY <1>1, <2>1, Zenon DEF SetTimeMs
<1>2. CASE ~InRange(t)
  <2>1. TimeClip(t) = NoTime BY <1>2, Clips, Zenon
  <2> QED BY <1>2, <2>1, Zenon DEF SetTimeMs
<1> QED BY <1>1, <1>2

LEMMA ZoneTyped ==
  ASSUME NEW N, Within(N), DatesAssumption, NEW utc
  PROVE  ZoneOf(utc) \in Int /\ -1440 <= ZoneOf(utc) /\ ZoneOf(utc) <= 1440
<1>1. ZoneOf(utc) = 0 \/ ZoneOf(utc) = Offset BY Zenon DEF ZoneOf
<1>2. Offset \in Int /\ -1440 <= Offset /\ Offset <= 1440 BY WithinFacts, SMT
<1> QED BY <1>1, <1>2, SMT

\* date.go: a date in its zone has fields that are counted.
LEMMA LocalNear ==
  ASSUME NEW N, Within(N), DatesAssumption, NEW t \in Time, InRange(t), NEW utc
  PROVE  Shift(t, ZoneOf(utc)) \in Time /\ Near(Shift(t, ZoneOf(utc))[1])
<1> DEFINE z == ZoneOf(utc)
           u == Shift(t, z)
<1>1. z \in Int /\ -1440 <= z /\ z <= 1440 BY ZoneTyped
<1> HIDE DEF z
<1>2. t[1] \in Int /\ t[2] \in Int /\ 0 <= t[2] /\ t[2] < MsPerDay /\ t = <<t[1], t[2]>> BY Times, Zenon
<1>3. u \in Time /\ Milli(u) = Milli(t) + MsPerMinute * z BY <1>1, <1>2, ShiftExact
<1>4. t[1] <= MaxDay /\ -MaxDay <= t[1]
  <2>1. t = <<MaxDay, 0>> => t[1] = MaxDay BY SMT
  <2> QED BY <1>2, <2>1, Times, SMT DEF InRange
<1> HIDE DEF u
<1>5. u[1] \in Int /\ u[2] \in Int /\ 0 <= u[2] /\ u[2] < MsPerDay BY <1>3, Times, Zenon
<1>6. u[1] * MsPerDay + u[2] = t[1] * MsPerDay + t[2] + MsPerMinute * z BY <1>3 DEF Milli
<1>7. u[1] - t[1] <= 2 /\ t[1] - u[1] <= 2
  <2> DEFINE a == u[1]
             b == u[2]
             c == t[1]
             d == t[2]
  <2>1. /\ a \in Int /\ b \in Int /\ c \in Int /\ d \in Int /\ 0 <= b /\ b < MsPerDay /\ 0 <= d /\ d < MsPerDay
        /\ a * MsPerDay + b = c * MsPerDay + d + MsPerMinute * z BY <1>2, <1>5, <1>6
  <2> HIDE DEF a, b, c, d
  <2>2. a - c <= 2 /\ c - a <= 2 BY <1>1, <2>1, SMT DEF MsPerDay, MsPerMinute
  <2> QED BY <2>2 DEF a, c
<1>8. Near(u[1]) BY <1>2, <1>4, <1>5, <1>7, Times, SMT DEF Near
<1> QED BY <1>3, <1>8 DEF u, z

LEMMA Beginning ==
  ASSUME NEW N, NEW b, NEW cur, NEW two, NEW args, NEW st
  PROVE  Alike(Ok(<<>>, st), Ok(<<>>, st), 0, 0, b, cur, two, args, N)
<1> DEFINE r == Ok(<<>>, st)
           e == <<>>
<1>1. r.err = FALSE /\ r.v = e /\ r.st = st BY Zenon DEF Ok
<1>2. e \in Seq(Numeric(N)) /\ Len(e) = 0 /\ ~HasNaN(e) BY SMT DEF HasNaN
<1>3. Merged(e, 0, b, cur, two) = e BY SMT DEF Merged
<1>4. FALSE \in BOOLEAN OBVIOUS
<1> HIDE DEF r, e
<1>5. Alike(r, r, 0, 0, b, cur, two, args, N) BY <1>1, <1>2, <1>3, <1>4, Zenon DEF Alike
<1> QED BY <1>5 DEF r

\* date.go, dateSetFullYear: fields before and after those of the arguments are
\* the date's own.
LEMMA SetterFields ==
  ASSUME NEW N, Within(N), DatesAssumption, NEW args, Arguments(args, N), NEW own, NEW b, NEW most,
         Limited(own, args, b, most), NEW t \in Time, Near(t[1]), NEW utc \in BOOLEAN, NEW st
  PROVE  LET n == Count(args, most)
             q == Numbers(args, n, st)
         IN  /\ DateSetFullYear(t, own, 1 - b, utc, st) = Together(q, b, FieldsOf(t), FALSE, utc)
             /\ Sound(q, n, b, FieldsOf(t), FALSE, utc, args, N)
<1> DEFINE n == Count(args, most)
           q == Numbers(args, n, st)
           cur == FieldsOf(t)
           r0 == Ok(<<>>, st)
           r1 == Field(r0, 1, cur, own, 1 - b)
           R == [i \in 0..1 |-> IF i = 0 THEN r0 ELSE r1]
<1>1. b \in 1..7 BY LimitedReads
<1>2. n \in 1..7 /\ b + n <= 8 /\ Reads(own, args, b, n, N) BY LimitedReads
<1>3. cur \in [1..7 -> (-N)..N] BY FieldsNear
<1> HIDE DEF n, cur
<1>18. PICK Q : Chain(Q, n, args, st) BY OneByOne
<1>4. /\ Q[0] = Ok(<<>>, st) /\ Q[7] = Numbers(args, n, st)
      /\ \A i \in 0..6 : Q[i + 1] = Convert(Q[i], n, args, i) BY <1>18, Zenon DEF Chain
<1>5. Alike(r0, r0, 0, 0, b, cur, FALSE, args, N) BY Beginning
<1>6. r1 = Field(r0, 0 + 1, cur, own, 1 - b)
  <2>1. 0 + 1 = 1 BY SMT
  <2> QED BY <2>1
<1>7. DateSetFullYear(t, own, 1 - b, utc, st) = DateSetFrom(<<>>, cur, own, 1 - b, utc, st)
  BY Zenon DEF DateSetFullYear, cur
<1>8. r1 = Field(Ok(<<>>, st), 1, cur, own, 1 - b) OBVIOUS
<1> HIDE DEF r0, r1
<1>9. R[0] = r0 /\ R[0 + 1] = r1 BY SMT
<1> HIDE DEF R
<1>10. Read(0, b, n) = 0 /\ 0 + 1 = 1 /\ 0 \in 0..6 BY <1>1, SMT DEF Read
<1>11. Alike(R[0], Q[Read(0, b, n)], 0, Read(0, b, n), b, cur, FALSE, args, N)
  <2>1. Q[0] = r0 BY <1>4 DEF r0
  <2> QED BY <1>5, <1>9, <1>10, <2>1, Zenon
<1>12. R[0 + 1] = Field(R[0], 0 + 1, cur, own, 1 - b) BY <1>6, <1>9, Zenon
<1>13. FALSE \in BOOLEAN OBVIOUS
<1>14. Alike(R[0 + 1], Q[Read(0 + 1, b, n)], 0 + 1, Read(0 + 1, b, n), b, cur, FALSE, args, N)
  BY <1>1, <1>2, <1>4, <1>10, <1>11, <1>12, <1>13, FieldRead, Zenon
<1>15. Alike(r1, Q[Read(1, b, n)], 1, Read(1, b, n), b, cur, FALSE, args, N) BY <1>9, <1>10, <1>14, Zenon
<1>16. Alike(Field(Ok(<<>>, st), 1, cur, own, 1 - b), Q[Read(1, b, n)], 1, Read(1, b, n), b, cur, FALSE, args, N)
  BY <1>8, <1>15, Zenon
<1>17. /\ DateSetFrom(<<>>, cur, own, 1 - b, utc, st) = Together(Q[7], b, cur, FALSE, utc)
       /\ Sound(Q[7], n, b, cur, FALSE, utc, args, N)
  BY <1>1, <1>2, <1>3, <1>4, <1>13, <1>16, SetFromExact, Zenon
<1> QED BY <1>4, <1>7, <1>17, Zenon DEF n, cur, q

LEMMA TimeIsOne ==
  ASSUME NEW t \in Time
  PROVE  t # NoTime
<1>1. t = <<t[1], t[2]>> BY Times, Zenon
<1>2. Len(<<t[1], t[2]>>) = 2 /\ Len(NoTime) = 1 BY SMT DEF NoTime
<1> QED BY <1>1, <1>2

\* The end of the setters, and of those of ECMAScript.
SetTo(p) == Then(p, LAMBDA r, s : IF r = NoTime THEN Unsets(s) ELSE SetTimeMs(TimeToMsec(r), s))
JsSetTo(q, b, n, t, utc) ==
  Then(q, LAMBDA vs, s :
    LET fields == [i \in 1..7 |-> IF i \in b..(b + n - 1) THEN vs[i - b + 1][2] ELSE FieldsOf(t)[i]]
        u == IF HasNaN(vs) THEN NoTime ELSE TimeClip(Shift(MakeDateTime(fields), -ZoneOf(utc)))
    IN  Ok(u, [s EXCEPT !.date = u]))

LEMMA BothSet ==
  ASSUME NEW q, NEW n, NEW b, NEW t, NEW utc, NEW args, NEW N, Sound(q, n, b, FieldsOf(t), FALSE, utc, args, N)
  PROVE  SetTo(Together(q, b, FieldsOf(t), FALSE, utc)) = JsSetTo(q, b, n, t, utc)
<1> DEFINE cur == FieldsOf(t)
           u == Shift(MakeDateTime(Merged(q.v, 7, b, cur, FALSE)), -ZoneOf(utc))
           fields == [i \in 1..7 |-> IF i \in b..(b + n - 1) THEN q.v[i - b + 1][2] ELSE cur[i]]
           x == Shift(MakeDateTime(fields), -ZoneOf(utc))
           p == Together(q, b, cur, FALSE, utc)
<1>1. CASE q.err
  <2>1. p = q BY <1>1, Zenon DEF Together, Then
  <2>2. SetTo(p) = q BY <1>1, <2>1, Zenon DEF SetTo, Then
  <2>3. JsSetTo(q, b, n, t, utc) = q BY <1>1, Zenon DEF JsSetTo, Then
  <2> QED BY <2>2, <2>3
<1>2. CASE ~q.err
  <2>1. Len(q.v) = n /\ (~HasNaN(q.v) => Exact(u)) BY <1>2, Zenon DEF Sound
  <2>2. p = Ok(IF HasNaN(q.v) THEN NoTime ELSE u, q.st) BY <1>2, Zenon DEF Together, Then
  <2>3. JsSetTo(q, b, n, t, utc) = Ok(IF HasNaN(q.v) THEN NoTime ELSE TimeClip(x),
                                      [q.st EXCEPT !.date = IF HasNaN(q.v) THEN NoTime ELSE TimeClip(x)])
    BY <1>2, Zenon DEF JsSetTo, Then
  <2>4. x = u
    <3>1. \A i \in 1..7 : (IF i \in b..(b + Len(q.v) - 1)
                            THEN (IF FALSE /\ i = 1 THEN TwoDigit(q.v[1][2]) ELSE q.v[i - b + 1][2])
                            ELSE cur[i]) = IF i \in b..(b + n - 1) THEN q.v[i - b + 1][2] ELSE cur[i]
      BY <2>1, Zenon
    <3>2. Merged(q.v, 7, b, cur, FALSE) = fields BY <3>1, Zenon DEF Merged
    <3> QED BY <3>2
  <2> HIDE DEF x, u, p
  <2>5. CASE HasNaN(q.v)
    <3>1. p = Ok(NoTime, q.st) BY <2>2, <2>5, Zenon
    <3>2. p.err = FALSE /\ p.v = NoTime /\ p.st = q.st BY <3>1, Zenon DEF Ok
    <3>3. SetTo(p) = Unsets(q.st) BY <3>2, Zenon DEF SetTo, Then
    <3> QED BY <2>3, <2>5, <3>3, Zenon DEF Unsets, p
  <2>6. CASE ~HasNaN(q.v)
    <3>1. u \in Time /\ TimeToMsec(u) = u BY <2>1, <2>6, Zenon DEF Exact
    <3>2. p = Ok(u, q.st) BY <2>2, <2>6, Zenon
    <3>3. p.err = FALSE /\ p.v = u /\ p.st = q.st BY <3>2, Zenon DEF Ok
    <3>4. u # NoTime BY <3>1, TimeIsOne
    <3>5. SetTo(p) = SetTimeMs(u, q.st) BY <3>1, <3>3, <3>4, Zenon DEF SetTo, Then
    <3>6. SetTimeMs(u, q.st) = Ok(TimeClip(u), [q.st EXCEPT !.date = TimeClip(u)]) BY <3>1, Clipped
    <3>7. JsSetTo(q, b, n, t, utc) = Ok(TimeClip(u), [q.st EXCEPT !.date = TimeClip(u)])
      BY <2>3, <2>4, <2>6, Zenon
    <3> QED BY <3>5, <3>6, <3>7 DEF p
  <2> QED BY <2>5, <2>6
<1> QED BY <1>1, <1>2

LEMMA ConvertOne ==
  ASSUME NEW r, ~r.err, NEW n, NEW args, NEW i, ~(i >= n),
         NEW c, c = ToNumber(Arg(args, i), r.st)
  PROVE  Convert(r, n, args, i) = IF c.err THEN c ELSE Ok(Append(r.v, c.v), c.st)
<1>1. Convert(r, n, args, i) = With(r.v, c) BY Zenon DEF Convert, Then
<1>2. With(r.v, c) = IF c.err THEN c ELSE Ok(Append(r.v, c.v), c.st) BY Zenon DEF With, Then
<1> QED BY <1>1, <1>2

\* Arguments that are numbers change nothing.
NoConverter(args) == \A i \in 0..6 : Arg(args, i)[1] # "conv"
Unmoved(q, st) == q.err = FALSE /\ q.st = st

LEMMA Quiet ==
  ASSUME NEW n, NEW args, NEW st, NoConverter(args)
  PROVE  Unmoved(Numbers(args, n, st), st)
<1>8. PICK Q : Chain(Q, n, args, st) BY OneByOne
<1>1. /\ Q[0] = Ok(<<>>, st) /\ Q[7] = Numbers(args, n, st)
      /\ \A i \in 0..6 : Q[i + 1] = Convert(Q[i], n, args, i) BY <1>8, Zenon DEF Chain
<1> DEFINE P(i) == Q[i].err = FALSE /\ Q[i].st = st
<1>2. P(0)
  <2> DEFINE e == <<>>
             r == Q[0]
  <2>1. r = Ok(e, st) BY <1>1
  <2> HIDE DEF e, r
  <2>2. r.err = FALSE /\ r.st = st BY <2>1, Zenon DEF Ok
  <2> QED BY <2>2 DEF r
<1>3. ASSUME NEW i \in 0..6, P(i) PROVE P(i + 1)
  <2> DEFINE r == Q[i]
             w == Q[i + 1]
             a == Arg(args, i)
             c == ToNumber(a, r.st)
  <2>1. w = Convert(r, n, args, i) BY <1>1
  <2>2. r.err = FALSE /\ r.st = st BY <1>3
  <2>3. c = Ok(a, r.st) BY Zenon DEF ToNumber, NoConverter
  <2> HIDE DEF w, r, a, c
  <2>4. c.err = FALSE /\ c.v = a /\ c.st = r.st BY <2>3, Zenon DEF Ok
  <2>5. CASE i >= n
    <3>1. w = r BY <2>1, <2>5, Zenon DEF Convert
    <3> QED BY <2>2, <3>1 DEF w
  <2>6. CASE ~(i >= n)
    <3>1. ~r.err BY <2>2
    <3>2. c = ToNumber(Arg(args, i), r.st) BY Zenon DEF a, c
    <3>3. Convert(r, n, args, i) = IF c.err THEN c ELSE Ok(Append(r.v, c.v), c.st)
      BY <2>6, <3>2, <3>1, ConvertOne
    <3>4. w = Ok(Append(r.v, c.v), c.st) BY <2>1, <2>4, <3>3, Zenon
    <3>5. w.err = FALSE /\ w.st = st BY <2>2, <2>4, <3>4, Zenon DEF Ok
    <3> QED BY <3>5 DEF w
  <2> QED BY <2>5, <2>6
<1> HIDE DEF P
<1>4. P(0 + 1) /\ P(1 + 1) /\ P(2 + 1) /\ P(3 + 1) /\ P(4 + 1) /\ P(5 + 1) /\ P(6 + 1)
  <2>1. 0 + 1 = 1 /\ 1 + 1 = 2 /\ 2 + 1 = 3 /\ 3 + 1 = 4 /\ 4 + 1 = 5 /\ 5 + 1 = 6 BY SMT
  <2>2. 0 \in 0..6 /\ 1 \in 0..6 /\ 2 \in 0..6 /\ 3 \in 0..6 /\ 4 \in 0..6 /\ 5 \in 0..6 /\ 6 \in 0..6 BY SMT
  <2> QED BY <1>2, <1>3, <2>1, <2>2, Zenon
<1>5. 6 + 1 = 7 BY SMT
<1>6. P(7) BY <1>4, <1>5, Zenon
<1> QED BY <1>1, <1>6, Zenon DEF P, Unmoved

LEMMA NumbersOne ==
  ASSUME NEW args, NEW st, NEW c, c = ToNumber(Arg(args, 0), st)
  PROVE  Numbers(args, 1, st) = IF c.err THEN c ELSE Ok(<<c.v>>, c.st)
<1>8. PICK Q : Chain(Q, 1, args, st) BY OneByOne
<1>1. /\ Q[0] = Ok(<<>>, st) /\ Q[7] = Numbers(args, 1, st)
      /\ \A i \in 0..6 : Q[i + 1] = Convert(Q[i], 1, args, i) BY <1>8, Zenon DEF Chain
<1>2. \A i \in 1..6 : Q[i + 1] = Q[i]
  <2>1. \A i \in 1..6 : i \in 0..6 /\ i >= 1 BY SMT
  <2>2. \A i \in 1..6 : Convert(Q[i], 1, args, i) = Q[i] BY <2>1, Zenon DEF Convert
  <2> QED BY <1>1, <2>1, <2>2
<1>3. Q[7] = Q[1]
  <2>1. 1 + 1 = 2 /\ 2 + 1 = 3 /\ 3 + 1 = 4 /\ 4 + 1 = 5 /\ 5 + 1 = 6 /\ 6 + 1 = 7 BY SMT
  <2>2. 1 \in 1..6 /\ 2 \in 1..6 /\ 3 \in 1..6 /\ 4 \in 1..6 /\ 5 \in 1..6 /\ 6 \in 1..6 BY SMT
  <2> QED BY <1>2, <2>1, <2>2, Zenon
<1>4. Q[1] = IF c.err THEN c ELSE Ok(<<c.v>>, c.st)
  <2> DEFINE e == <<>>
             r == Ok(e, st)
  <2>1. r.err = FALSE /\ r.v = e /\ r.st = st BY Zenon DEF Ok
  <2>2. Append(e, c.v) = <<c.v>> BY SMT
  <2>3. ~(0 >= 1) /\ 0 \in 0..6 /\ 0 + 1 = 1 BY SMT
  <2>4. Q[1] = Convert(r, 1, args, 0) BY <1>1, <2>3, Zenon
  <2> HIDE DEF e, r
  <2>5. ~r.err /\ c = ToNumber(Arg(args, 0), r.st) BY <2>1
  <2>6. Convert(r, 1, args, 0) = IF c.err THEN c ELSE Ok(Append(r.v, c.v), c.st) BY <2>3, <2>5, ConvertOne
  <2> QED BY <2>1, <2>2, <2>4, <2>6
<1> QED BY <1>1, <1>3, <1>4

\* date.go, setMilliseconds: the milliseconds of a date, whatever its zone.
LEMMA MakeMillis ==
  ASSUME NEW f, InOrder(f), NEW v \in Int,
         NEW g \in [1..7 -> Int], g = [i \in 1..7 |-> IF i = 7 THEN v ELSE f[i]]
  PROVE  /\ MakeDateTime(g) \in Time
         /\ Milli(MakeDateTime(g)) = (BeforeYear(f[1]) + BeforeMonth(f[1], f[2]) + f[3] - 1) * MsPerDay
                                     + MsPerHour * f[4] + MsPerMinute * f[5] + MsPerSecond * f[6] + v
<1> DEFINE s == f[6] + v \div MsPerSecond
           mi == f[5] + s \div 60
           h == f[4] + mi \div 60
           x == v % MsPerSecond
           day == BeforeYear(f[1]) + BeforeMonth(f[1], f[2]) + f[3] - 1
           ms == (h % 24) * MsPerHour + (mi % 60) * MsPerMinute + (s % 60) * MsPerSecond + x
<1>1. g[1] = f[1] /\ g[2] = f[2] /\ g[3] = f[3] /\ g[4] = f[4] /\ g[5] = f[5] /\ g[6] = f[6] /\ g[7] = v BY SMT
<1>2. /\ f[1] \in Int /\ f[2] \in 0..11 /\ f[3] \in Int /\ f[4] \in Int /\ f[5] \in Int /\ f[6] \in Int
  BY SMT DEF InOrder
<1>3. f[1] + f[2] \div 12 = f[1] /\ f[2] % 12 = f[2]
  <2>1. f[2] \in Int /\ 0 <= f[2] /\ f[2] <= 11 BY <1>2, SMT
  <2> QED BY <1>2, <2>1, SMT
<1>4. MakeDateTime(g) = <<day + h \div 24, ms>>
  <2>1. MakeDateTime(g) = <<BeforeYear(f[1] + f[2] \div 12) + BeforeMonth(f[1] + f[2] \div 12, f[2] % 12) + f[3] - 1 + h \div 24, ms>>
    BY <1>1, Zenon DEF MakeDateTime
  <2> QED BY <1>3, <2>1, Zenon
<1>5. day \in Int
  <2>1. BeforeYear(f[1]) \in Int /\ BeforeMonth(f[1], f[2]) \in Int BY <1>2, DayTyped
  <2> QED BY <1>2, <2>1, SMT
<1> HIDE DEF day
<1>6. /\ x \in Int /\ 0 <= x /\ x < MsPerSecond /\ s \in Int
      /\ MsPerSecond * s + x = MsPerSecond * f[6] + v 
  <2> DEFINE k == v \div MsPerSecond
             f6 == f[6]
  <2>1. k \in Int /\ x \in 0..(MsPerSecond - 1) /\ v = MsPerSecond * k + x BY Times, FloorDivision, Zenon
  <2>2. f6 \in Int /\ s = f6 + k BY <1>2
  <2> HIDE DEF x, k, s, f6
  <2>3. /\ x \in Int /\ 0 <= x /\ x < MsPerSecond /\ s \in Int
        /\ MsPerSecond * s + x = MsPerSecond * f6 + v BY <2>1, <2>2, SMT DEF MsPerSecond
  <2> QED BY <2>3 DEF f6
<1> HIDE DEF x, s
<1>7. /\ mi \in Int /\ s % 60 \in Int /\ 0 <= s % 60 /\ s % 60 < 60 /\ 60 * mi + (s % 60) = 60 * f[5] + s
  BY <1>2, <1>6, SMT
<1> HIDE DEF mi
<1>8. /\ h \in Int /\ mi % 60 \in Int /\ 0 <= mi % 60 /\ mi % 60 < 60 /\ 60 * h + (mi % 60) = 60 * f[4] + mi
  BY <1>2, <1>7, SMT
<1> HIDE DEF h
<1>9. /\ h \div 24 \in Int /\ h % 24 \in Int /\ 0 <= h % 24 /\ h % 24 < 24 /\ 24 * (h \div 24) + (h % 24) = h
  BY <1>8, SMT
<1> DEFINE s0 == s % 60
           m0 == mi % 60
           h0 == h % 24
           d0 == h \div 24
           f4 == f[4]
           f5 == f[5]
           f6 == f[6]
<1>10. /\ s0 \in Int /\ 0 <= s0 /\ s0 < 60 /\ m0 \in Int /\ 0 <= m0 /\ m0 < 60
       /\ h0 \in Int /\ 0 <= h0 /\ h0 < 24 /\ d0 \in Int /\ f4 \in Int /\ f5 \in Int /\ f6 \in Int
       /\ MsPerSecond * s + x = MsPerSecond * f6 + v /\ 60 * mi + s0 = 60 * f5 + s
       /\ 60 * h + m0 = 60 * f4 + mi /\ 24 * d0 + h0 = h
       /\ ms = h0 * MsPerHour + m0 * MsPerMinute + s0 * MsPerSecond + x
  BY <1>2, <1>6, <1>7, <1>8, <1>9, Zenon
<1> HIDE DEF s0, m0, h0, ms
<1>11. MakeDateTime(g) = <<day + d0, ms>> BY <1>4
<1> HIDE DEF d0, f4, f5, f6
<1>12. ms \in Int /\ 0 <= ms /\ ms < MsPerDay
  BY <1>6, <1>10, SMT DEF MsPerSecond, MsPerMinute, MsPerHour, MsPerDay
<1>13. d0 * MsPerDay + ms = MsPerHour * f4 + MsPerMinute * f5 + MsPerSecond * f6 + v
  BY <1>6, <1>7, <1>8, <1>10, SMT DEF MsPerSecond, MsPerMinute, MsPerHour, MsPerDay
<1>14. MakeDateTime(g) \in Time BY <1>5, <1>10, <1>11, <1>12, Times, SMT DEF Time
<1>15. Milli(MakeDateTime(g)) = (day + d0) * MsPerDay + ms BY <1>11, SMT DEF Milli
<1>16. Milli(MakeDateTime(g)) = day * MsPerDay + MsPerHour * f4 + MsPerMinute * f5 + MsPerSecond * f6 + v
  BY <1>5, <1>10, <1>12, <1>13, <1>15, SMT DEF MsPerSecond, MsPerMinute, MsPerHour, MsPerDay
<1> QED BY <1>14, <1>16 DEF day, f4, f5, f6

LEMMA MillisSet ==
  ASSUME NEW t \in Time, Whole(t), NEW z \in Int, NEW v \in Int,
         NEW g, g = [i \in 1..7 |-> IF i = 7 THEN v ELSE FieldsOf(Shift(t, z))[i]],
         NEW ms, ms = Milliseconds(t) + v
  PROVE  /\ Shift(MakeDateTime(g), -z) = <<t[1] + (ms \div MsPerDay), ms % MsPerDay>>
         /\ Shift(MakeDateTime(g), -z) \in Time
<1> DEFINE u == Shift(t, z)
           f == FieldsOf(u)
           w == MakeDateTime(g)
           r == <<t[1] + (ms \div MsPerDay), ms % MsPerDay>>
<1>1. t[1] \in Int /\ t[2] \in Int /\ 0 <= t[2] /\ t[2] < MsPerDay /\ t = <<t[1], t[2]>> BY Times, Zenon
<1>2. u \in Time /\ Milli(u) = Milli(t) + MsPerMinute * z BY <1>1, ShiftExact
<1> HIDE DEF u
<1>3. /\ InOrder(f)
      /\ f[3] = u[1] - BeforeYear(f[1]) - BeforeMonth(f[1], f[2]) + 1
      /\ u[2] = MsPerHour * f[4] + MsPerMinute * f[5] + MsPerSecond * f[6] + f[7] BY <1>2, FieldRanges, Zenon
<1>4. g = [i \in 1..7 |-> IF i = 7 THEN v ELSE f[i]] BY DEF u
<1> HIDE DEF f
<1>5. g \in [1..7 -> Int]
  <2>1. \A i \in 1..7 : f[i] \in Int BY <1>3, SMT DEF InOrder
  <2> QED BY <1>4, <2>1, SMT
<1>6. /\ w \in Time
      /\ Milli(w) = (BeforeYear(f[1]) + BeforeMonth(f[1], f[2]) + f[3] - 1) * MsPerDay
                    + MsPerHour * f[4] + MsPerMinute * f[5] + MsPerSecond * f[6] + v
  BY <1>3, <1>4, <1>5, MakeMillis
<1> HIDE DEF w
<1>7. /\ f[1] \in Int /\ f[2] \in 0..11 /\ f[3] \in Int /\ f[4] \in Int /\ f[5] \in Int /\ f[6] \in Int /\ f[7] \in Int
      /\ 0 <= f[7] /\ f[7] < MsPerSecond
  BY <1>3, SMT DEF InOrder
<1>8. u[1] \in Int /\ u[2] \in Int /\ 0 <= u[2] /\ u[2] < MsPerDay BY <1>2, Times, Zenon
<1>9. BeforeYear(f[1]) + BeforeMonth(f[1], f[2]) + f[3] - 1 = u[1]
  <2>1. BeforeYear(f[1]) \in Int /\ BeforeMonth(f[1], f[2]) \in Int BY <1>7, DayTyped
  <2> QED BY <1>3, <1>7, <1>8, <2>1, SMT
<1>10. Milli(w) = u[1] * MsPerDay + (MsPerHour * f[4] + MsPerMinute * f[5] + MsPerSecond * f[6]) + v
  <2> DEFINE a == f[4]
             b == f[5]
             c == f[6]
             d == u[1]
             e == BeforeYear(f[1]) + BeforeMonth(f[1], f[2]) + f[3] - 1
  <2>1. Milli(w) = e * MsPerDay + MsPerHour * a + MsPerMinute * b + MsPerSecond * c + v BY <1>6
  <2>2. e = d /\ a \in Int /\ b \in Int /\ c \in Int /\ d \in Int BY <1>7, <1>8, <1>9
  <2> HIDE DEF a, b, c, d, e
  <2>3. Milli(w) = d * MsPerDay + (MsPerHour * a + MsPerMinute * b + MsPerSecond * c) + v
    BY <2>1, <2>2, SMT DEF MsPerDay, MsPerHour, MsPerMinute, MsPerSecond
  <2> QED BY <2>3 DEF a, b, c, d
<1>11. Milli(w) = Milli(u) - f[7] + v
  <2> DEFINE a == MsPerHour * f[4] + MsPerMinute * f[5] + MsPerSecond * f[6]
             b == u[2]
             c == f[7]
             d == u[1] * MsPerDay
  <2>1. Milli(w) = d + a + v /\ b = a + c /\ Milli(u) = d + b BY <1>3, <1>10, Zenon DEF Milli
  <2>2. b \in Int /\ c \in Int BY <1>7, <1>8
  <2>3. d \in Int BY <1>8, Times, SMT
  <2>4. a \in Int BY <1>7, Times, SMT
  <2> HIDE DEF a, b, c, d
  <2>5. Milli(w) = Milli(u) - c + v BY <2>1, <2>2, <2>3, <2>4, SMT
  <2> QED BY <2>5 DEF c
<1>12. f[7] = t[2] % MsPerSecond
  <2> DEFINE a == t[1]
             b == t[2]
             c == u[1]
             d == u[2]
             q == f[7]
             k == 3600 * f[4] + 60 * f[5] + f[6]
  <2>1. q = d % MsPerSecond /\ d = MsPerSecond * k + q /\ k \in Int
    <3> DEFINE x == f[4]
               y == f[5]
               j == f[6]
    <3>1. x \in Int /\ y \in Int /\ j \in Int /\ q \in Int /\ 0 <= q /\ q < MsPerSecond
          /\ d = MsPerHour * x + MsPerMinute * y + MsPerSecond * j + q /\ k = 3600 * x + 60 * y + j
      BY <1>3, <1>7
    <3> HIDE DEF x, y, j, d, q, k
    <3> QED BY <3>1, SMT DEF MsPerHour, MsPerMinute, MsPerSecond
  <2>2. c * MsPerDay + d = a * MsPerDay + b + MsPerMinute * z BY <1>2, Zenon DEF Milli
  <2>3. a \in Int /\ b \in Int /\ c \in Int /\ d \in Int /\ q \in Int /\ 0 <= q /\ q < MsPerSecond BY <1>1, <1>7, <1>8
  <2> HIDE DEF a, b, c, d, q, k
  <2>4. b = MsPerSecond * (86400 * (c - a) + k - 60 * z) + q BY <2>1, <2>2, <2>3, SMT DEF MsPerDay, MsPerMinute, MsPerSecond
  <2>5. q = b % MsPerSecond BY <2>1, <2>3, <2>4, SMT DEF MsPerSecond
  <2> QED BY <2>5 DEF b, q
<1>13. Milliseconds(t) = t[2] - f[7]
  <2> DEFINE past == t[2] % MsPerSecond
  <2>1. t[1] >= 0 \/ past = 0 BY <1>1, TimeIsOne, Zenon DEF Whole
  <2> QED BY <1>12, <2>1, Zenon DEF Milliseconds
<1>14. ms \in Int /\ ms = t[2] - f[7] + v BY <1>1, <1>7, <1>13, SMT
<1>15. /\ ms \div MsPerDay \in Int /\ ms % MsPerDay \in 0..(MsPerDay - 1)
       /\ ms = MsPerDay * (ms \div MsPerDay) + (ms % MsPerDay) BY <1>14, Times, FloorDivision, Zenon
<1>16. r \in Time /\ Milli(r) = t[1] * MsPerDay + ms
  <2> DEFINE a == ms \div MsPerDay
             b == ms % MsPerDay
  <2>1. a \in Int /\ b \in 0..(MsPerDay - 1) /\ ms = MsPerDay * a + b BY <1>15
  <2>2. r = <<t[1] + a, b>> OBVIOUS
  <2> HIDE DEF a, b, r
  <2>3. t[1] + a \in Int BY <1>1, <2>1, SMT
  <2>4. r \in Time BY <2>1, <2>2, <2>3, Zenon DEF Time
  <2>5. Milli(r) = (t[1] + a) * MsPerDay + b BY <2>2, SMT DEF Milli
  <2>6. b \in Int BY <2>1, Times, SMT
  <2> DEFINE d == t[1]
             y == Milli(r)
  <2>7. d \in Int /\ y = (d + a) * MsPerDay + b /\ a \in Int /\ ms = MsPerDay * a + b BY <1>1, <2>1, <2>5
  <2> HIDE DEF d, y
  <2>8. y = d * MsPerDay + ms BY <2>6, <2>7, SMT DEF MsPerDay
  <2> QED BY <2>4, <2>8 DEF r, d, y
<1>17. Shift(w, -z) \in Time /\ Milli(Shift(w, -z)) = Milli(w) + MsPerMinute * (-z)
  <2>1. w[1] \in Int /\ w[2] \in Int /\ w = <<w[1], w[2]>> /\ -z \in Int BY <1>6, Times, SMT
  <2> QED BY <2>1, ShiftExact
<1>18. Milli(Shift(w, -z)) = Milli(r)
  <2> DEFINE a == Milli(Shift(w, -z))
             b == Milli(w)
             c == Milli(u)
             d == Milli(t)
             e == Milli(r)
             q == f[7]
             x == t[1] * MsPerDay
             y == t[2]
  <2>1. /\ a = b + MsPerMinute * (-z) /\ b = c - q + v /\ c = d + MsPerMinute * z /\ e = x + ms
        /\ ms = y - q + v /\ d = x + y BY <1>2, <1>11, <1>14, <1>16, <1>17, Zenon DEF Milli
  <2>2. x \in Int /\ y \in Int /\ q \in Int BY <1>1, <1>7, Times, SMT
  <2> HIDE DEF a, b, c, d, e, q, x, y
  <2>3. a = e BY <2>1, <2>2, SMT DEF MsPerMinute
  <2> QED BY <2>3 DEF a, e
<1> HIDE DEF r
<1>19. Shift(w, -z) = r BY <1>16, <1>17, <1>18, TimesEqual
<1> QED BY <1>17, <1>19 DEF r, w

\* The setters of ECMAScript, with their tables looked up.
LEMMA JsSetterSets ==
  ASSUME NEW m, NEW utc, NEW args, NEW st, NEW t, t # NoTime,
         \/ st.date # NoTime /\ t = Shift(st.date, ZoneOf(utc))
         \/ st.date = NoTime /\ m = "setFullYear" /\ t = <<0, 0>>
  PROVE  LET n == Count(args, FieldCount[m])
         IN  JsSetter(m, utc, args, st) = JsSetTo(Numbers(args, n, st), FirstField[m], n, t, utc)
<1> DEFINE b == FirstField[m]
           n == Count(args, FieldCount[m])
           q == Numbers(args, n, st)
           t0 == IF st.date = NoTime /\ m = "setFullYear" THEN <<0, 0>> ELSE
                 IF st.date = NoTime THEN NoTime ELSE Shift(st.date, ZoneOf(utc))
<1>1. t0 = t
  <2>1. CASE st.date # NoTime /\ t = Shift(st.date, ZoneOf(utc)) BY <2>1, Zenon
  <2>2. CASE st.date = NoTime /\ m = "setFullYear" /\ t = <<0, 0>> BY <2>2, Zenon
  <2> QED BY <2>1, <2>2
<1> HIDE DEF t0
<1>2. JsSetter(m, utc, args, st) =
        Then(q, LAMBDA vs, s :
          IF t0 = NoTime THEN Ok(NoTime, s)
          ELSE LET fields == [i \in 1..7 |-> IF i \in b..(b + n - 1) THEN vs[i - b + 1][2] ELSE FieldsOf(t0)[i]]
                   u == IF HasNaN(vs) THEN NoTime ELSE TimeClip(Shift(MakeDateTime(fields), -ZoneOf(utc)))
               IN  Ok(u, [s EXCEPT !.date = u]))
  BY Zenon DEF JsSetter, Count, t0
<1> HIDE DEF q, n
<1>3. CASE q.err
  <2>1. JsSetter(m, utc, args, st) = q BY <1>2, <1>3, Zenon DEF Then
  <2>2. JsSetTo(q, b, n, t, utc) = q BY <1>3, Zenon DEF JsSetTo, Then
  <2> QED BY <2>1, <2>2 DEF q, n
<1>4. CASE ~q.err
  <2> DEFINE vs == q.v
             s == q.st
             fields == [i \in 1..7 |-> IF i \in b..(b + n - 1) THEN vs[i - b + 1][2] ELSE FieldsOf(t)[i]]
             u == IF HasNaN(vs) THEN NoTime ELSE TimeClip(Shift(MakeDateTime(fields), -ZoneOf(utc)))
             answer == Ok(u, [s EXCEPT !.date = u])
  <2>1. JsSetter(m, utc, args, st) = answer BY <1>1, <1>2, <1>4, Zenon DEF Then
  <2>2. JsSetTo(q, b, n, t, utc) = answer BY <1>4, Zenon DEF JsSetTo, Then
  <2> HIDE DEF answer
  <2>3. JsSetter(m, utc, args, st) = JsSetTo(q, b, n, t, utc) BY <2>1, <2>2
  <2> QED BY <2>3 DEF q, n
<1> QED BY <1>3, <1>4

LEMMA JsSetterUnset ==
  ASSUME NEW m, m # "setFullYear", NEW utc, NEW args, NEW st, st.date = NoTime
  PROVE  JsSetter(m, utc, args, st) = Then(Numbers(args, Count(args, FieldCount[m]), st), LAMBDA vs, s : Ok(NoTime, s))
<1> DEFINE n == Count(args, FieldCount[m])
           q == Numbers(args, n, st)
           answer == Then(q, LAMBDA vs, s : Ok(NoTime, s))
           t0 == IF st.date = NoTime /\ m = "setFullYear" THEN <<0, 0>> ELSE
                 IF st.date = NoTime THEN NoTime ELSE Shift(st.date, ZoneOf(utc))
<1>1. t0 = NoTime BY Zenon
<1> HIDE DEF t0
<1>2. JsSetter(m, utc, args, st) =
        Then(q, LAMBDA vs, s :
          IF t0 = NoTime THEN Ok(NoTime, s)
          ELSE LET fields == [i \in 1..7 |-> IF i \in FirstField[m]..(FirstField[m] + n - 1)
                                             THEN vs[i - FirstField[m] + 1][2] ELSE FieldsOf(t0)[i]]
                   u == IF HasNaN(vs) THEN NoTime ELSE TimeClip(Shift(MakeDateTime(fields), -ZoneOf(utc)))
               IN  Ok(u, [s EXCEPT !.date = u]))
  BY Zenon DEF JsSetter, Count, t0
<1> HIDE DEF q
<1>3. CASE q.err
  <2>1. JsSetter(m, utc, args, st) = q BY <1>2, <1>3, Zenon DEF Then
  <2>2. answer = q BY <1>3, Zenon DEF Then
  <2> QED BY <2>1, <2>2 DEF q
<1>4. CASE ~q.err
  <2>1. JsSetter(m, utc, args, st) = Ok(NoTime, q.st) BY <1>1, <1>2, <1>4, Zenon DEF Then
  <2>2. answer = Ok(NoTime, q.st) BY <1>4, Zenon DEF Then
  <2> QED BY <2>1, <2>2 DEF q
<1> QED BY <1>3, <1>4

LEMMA Epoch ==
  <<0, 0>> \in Time /\ Near(<<0, 0>>[1])
<1>1. <<0, 0>> \in Time
  <2>1. 0 \in Int /\ 0 \in 0..(MsPerDay - 1) BY Times, SMT
  <2> QED BY <2>1, Zenon DEF Time
<1>2. Near(<<0, 0>>[1]) BY SMT DEF Near, MaxDay
<1> QED BY <1>1, <1>2

\* The method m sets up to `most` fields, from b on, of the time t.
Tables(m, b, most) == b = FirstField[m] /\ most = FieldCount[m]
SetsFrom(t, m, st, utc) ==
  \/ st.date # NoTime /\ t = Shift(st.date, ZoneOf(utc))
  \/ st.date = NoTime /\ m = "setFullYear" /\ t = <<0, 0>>

\* date.go, dateSetter and the setters of the year: a date set.
LEMMA DateSet ==
  ASSUME NEW N, Within(N), DatesAssumption, NEW args, Arguments(args, N), NEW m, NEW b, NEW most,
         Tables(m, b, most), NEW own, Limited(own, args, b, most),
         NEW utc \in BOOLEAN, NEW st, IsDate(st.date), NEW t, SetsFrom(t, m, st, utc)
  PROVE  SetTo(DateSetFullYear(t, own, 1 - b, utc, st)) = JsSetter(m, utc, args, st)
<1> DEFINE n == Count(args, most)
           q == Numbers(args, n, st)
<1>1. t \in Time /\ Near(t[1]) BY LocalNear, Epoch DEF IsDate, SetsFrom
<1>2. t # NoTime BY <1>1, TimeIsOne
<1>3. /\ DateSetFullYear(t, own, 1 - b, utc, st) = Together(q, b, FieldsOf(t), FALSE, utc)
      /\ Sound(q, n, b, FieldsOf(t), FALSE, utc, args, N)
  BY <1>1, SetterFields, Zenon
<1>4. JsSetter(m, utc, args, st) = JsSetTo(q, b, n, t, utc) BY <1>2, JsSetterSets DEF SetsFrom, Tables
<1> HIDE DEF q, n
<1>5. SetTo(Together(q, b, FieldsOf(t), FALSE, utc)) = JsSetTo(q, b, n, t, utc) BY <1>3, BothSet, Zenon
<1> QED BY <1>3, <1>4, <1>5

\* The date is none.
UnsetTo(p) == Then(p, LAMBDA t, s : IF t = NoTime THEN Unsets(s) ELSE Ok(NoTime, s))
Unset(st) == st.date = NoTime /\ [st EXCEPT !.date = NoTime] = st

\* date.go, dateSetter: a date that is unset stays so.
LEMMA DateUnset ==
  ASSUME NEW N, Within(N), DatesAssumption, NEW args, Arguments(args, N), Settles(args, NoTime),
         NEW m, m # "setFullYear", NEW b, NEW most, Tables(m, b, most), NEW own, Limited(own, args, b, most),
         NEW utc \in BOOLEAN, NEW st, Unset(st)
  PROVE  UnsetTo(DateSetFullYear(<<0, 0>>, own, 1 - b, utc, st)) = JsSetter(m, utc, args, st)
<1> DEFINE n == Count(args, most)
           q == Numbers(args, n, st)
           cur == FieldsOf(<<0, 0>>)
           p == Together(q, b, cur, FALSE, utc)
           x == Shift(MakeDateTime(Merged(q.v, 7, b, cur, FALSE)), -ZoneOf(utc))
           left == UnsetTo(p)
<1>1. /\ DateSetFullYear(<<0, 0>>, own, 1 - b, utc, st) = p /\ Sound(q, n, b, cur, FALSE, utc, args, N)
  <2>1. <<0, 0>> \in Time /\ Near(<<0, 0>>[1]) BY Epoch
  <2> DEFINE t == <<0, 0>>
  <2>2. t \in Time /\ Near(t[1]) BY <2>1
  <2> HIDE DEF t
  <2>3. /\ DateSetFullYear(t, own, 1 - b, utc, st) = Together(q, b, FieldsOf(t), FALSE, utc)
        /\ Sound(q, n, b, FieldsOf(t), FALSE, utc, args, N)
    BY <2>2, SetterFields, Zenon
  <2> QED BY <2>3 DEF t
<1>2. st.date = NoTime BY DEF Unset
<1>3. JsSetter(m, utc, args, st) = Then(q, LAMBDA vs, s : Ok(NoTime, s)) BY <1>2, JsSetterUnset, Zenon DEF Tables
<1>5. (\E S : args \in Seq(S)) /\ most \in 1..7 BY Zenon DEF Arguments, Limited
<1>4. ASSUME ~q.err, HasNaN(q.v) PROVE [q.st EXCEPT !.date = NoTime] = q.st
  <2>1. PICK j \in 0..(n - 1) : IsNaN(Arg(args, j)) BY <1>1, <1>4, Zenon DEF Sound
  <2>2. NoConverter(args)
    <3>1. NaN[1] # "conv" BY SMT DEF NaN
    <3>2. CASE \E i \in DOMAIN args : IsNaN(args[i])
      <4>1. \A i \in DOMAIN args : args[i][1] # "conv" BY <3>2, Zenon DEF Settles
      <4>2. \A i \in 0..6 : i < Len(args) => i + 1 \in DOMAIN args BY <1>5, SMT
      <4> QED BY <3>1, <4>1, <4>2, Zenon DEF Arg, NoConverter
    <3>3. CASE ~(\E i \in DOMAIN args : IsNaN(args[i]))
      <4>1. ~(j < Len(args))
        <5>1. j < Len(args) => j + 1 \in DOMAIN args BY <1>5, SMT
        <5> QED BY <2>1, <3>3, <5>1, Zenon DEF Arg
      <4>2. Len(args) = 0
        <5> DEFINE k == Len(args)
        <5>1. k \in Nat /\ (args = <<>> <=> k = 0) BY <1>5, SMT
        <5>2. n = (IF k = 0 THEN 1 ELSE IF k > most THEN most ELSE k) BY <5>1, Zenon DEF Count
        <5>3. j \in 0..(n - 1) /\ ~(j < k) BY <4>1
        <5> HIDE DEF k, n
        <5>4. k = 0 BY <1>5, <5>1, <5>2, <5>3, SMT
        <5> QED BY <5>4 DEF k
      <4>3. \A i \in 0..6 : ~(i < Len(args)) BY <4>2, SMT
      <4> QED BY <3>1, <4>3, Zenon DEF Arg, NoConverter
    <3> QED BY <3>2, <3>3
  <2>3. q.st = st
    <3> HIDE DEF n
    <3>1. Unmoved(Numbers(args, n, st), st) BY <2>2, Quiet, Zenon
    <3> QED BY <3>1, Zenon DEF Unmoved
  <2>4. [st EXCEPT !.date = NoTime] = st BY Zenon DEF Unset
  <2> QED BY <2>3, <2>4
<1> HIDE DEF q, n, cur, x, p
<1>6. left = Then(q, LAMBDA vs, s : Ok(NoTime, s))
  <2>1. CASE q.err
    <3>1. p = q BY <2>1, Zenon DEF Together, Then, p
    <3> QED BY <2>1, <3>1, Zenon DEF Then, UnsetTo
  <2>2. CASE ~q.err
    <3>1. p = Ok(IF HasNaN(q.v) THEN NoTime ELSE x, q.st) BY <2>2, Zenon DEF Together, Then, p, x
    <3>2. Then(q, LAMBDA vs, s : Ok(NoTime, s)) = Ok(NoTime, q.st) BY <2>2, Zenon DEF Then
    <3>3. CASE HasNaN(q.v)
      <4>1. p = Ok(NoTime, q.st) BY <3>1, <3>3, Zenon
      <4>2. p.err = FALSE /\ p.v = NoTime /\ p.st = q.st BY <4>1, Zenon DEF Ok
      <4>3. left = Unsets(q.st) BY <4>2, Zenon DEF Then, UnsetTo
      <4>4. Unsets(q.st) = Ok(NoTime, q.st) BY <1>4, <2>2, <3>3, Zenon DEF Unsets
      <4> QED BY <3>2, <4>3, <4>4
    <3>4. CASE ~HasNaN(q.v)
      <4>1. p = Ok(x, q.st) BY <3>1, <3>4, Zenon
      <4>2. p.err = FALSE /\ p.v = x /\ p.st = q.st BY <4>1, Zenon DEF Ok
      <4>3. x \in Time BY <1>1, <2>2, <3>4, Zenon DEF Sound, Exact, x
      <4>4. x # NoTime BY <4>3, TimeIsOne
      <4>5. left = Ok(NoTime, q.st) BY <4>2, <4>4, Zenon DEF Then, UnsetTo
      <4> QED BY <3>2, <4>5
    <3> QED BY <3>3, <3>4
  <2> QED BY <2>1, <2>2
<1> QED BY <1>1, <1>3, <1>6

LEMMA FirstArgument ==
  ASSUME NEW N, Within(N), DatesAssumption, NEW args, Arguments(args, N)
  PROVE  Argument(Arg(args, 0), N) /\ Count(args, 1) = 1
<1>1. PICK S : args \in Seq(S) /\ \A a \in S : Argument(a, N) BY Zenon DEF Arguments
<1> DEFINE k == Len(args)
<1>2. k \in Nat /\ (args = <<>> <=> k = 0) BY <1>1, SMT
<1>3. Argument(NaN, N) BY Zenon DEF Argument, Numeric
<1>4. k > 0 => args[0 + 1] \in S BY <1>1, <1>2, SMT
<1>5. Arg(args, 0) = IF 0 < k THEN args[0 + 1] ELSE NaN BY Zenon DEF Arg
<1>6. Count(args, 1) = IF k = 0 THEN 1 ELSE IF k > 1 THEN 1 ELSE k BY <1>2, Zenon DEF Count
<1> HIDE DEF k
<1>7. Count(args, 1) = 1 BY <1>2, <1>6, SMT
<1>8. 0 < k => k > 0 BY <1>2, SMT
<1> QED BY <1>1, <1>3, <1>4, <1>5, <1>7, <1>8, Zenon

\* date.go, setTime: a number of milliseconds.
LEMMA TimeSet ==
  ASSUME NEW N, Within(N), DatesAssumption, NEW args, Arguments(args, N), NEW st
  PROVE  SetTime(args, st) = JsSetTime(args, st)
<1> DEFINE a == Arg(args, 0)
           c == ToNumber(a, st)
           x == c.v[2]
           t == <<x \div MsPerDay, x % MsPerDay>>
<1>1. Argument(a, N) BY FirstArgument
<1>2. c.err \in BOOLEAN /\ (~c.err => c.v \in Numeric(N)) BY <1>1, Converted, Zenon
<1>3. SetTime(args, st) = IF c.err THEN c ELSE IF c.v = NaN THEN Unsets(c.st) ELSE SetTimeMs(t, c.st)
  BY Zenon DEF SetTime, Then
<1>4. JsSetTime(args, st) = IF c.err THEN c ELSE Ok(IF c.v = NaN THEN NoTime ELSE TimeClip(t),
                                                   [c.st EXCEPT !.date = IF c.v = NaN THEN NoTime ELSE TimeClip(t)])
  BY Zenon DEF JsSetTime, Then
<1>5. CASE c.err BY <1>3, <1>4, <1>5, Zenon
<1>6. CASE ~c.err /\ c.v = NaN
  <2> HIDE DEF c, t
  <2> QED BY <1>3, <1>4, <1>6, Zenon DEF Unsets
<1>7. CASE ~c.err /\ c.v # NaN
  <2>1. N \in Nat BY WithinFacts
  <2>2. x \in Int
    <3>1. x \in (-N)..N BY <1>2, <1>7, Numbered, Zenon
    <3> HIDE DEF x
    <3> QED BY <2>1, <3>1, SMT
  <2> HIDE DEF x
  <2>3. x \div MsPerDay \in Int /\ x % MsPerDay \in 0..(MsPerDay - 1) BY <2>2, Times, FloorDivision, Zenon
  <2>4. t \in Time BY <2>3, Zenon DEF Time
  <2> HIDE DEF t, c
  <2>5. SetTimeMs(t, c.st) = Ok(TimeClip(t), [c.st EXCEPT !.date = TimeClip(t)]) BY <2>4, Clipped, Zenon
  <2> QED BY <1>3, <1>4, <1>7, <2>5, Zenon
<1> QED BY <1>5, <1>6, <1>7

\* date.go, setMilliseconds.
LEMMA MillisecondsSet ==
  ASSUME NEW N, Within(N), DatesAssumption, NEW args, Arguments(args, N), NEW utc \in BOOLEAN,
         NEW st, IsDate(st.date), Whole(st.date)
  PROVE  SetMilliseconds(args, st) = JsSetter("setMilliseconds", utc, args, st)
<1> DEFINE m == "setMilliseconds"
           a == Arg(args, 0)
           c == ToNumber(a, st)
           tv == st.date
           x == c.v[2]
           ms == Milliseconds(tv) + x
           r == <<tv[1] + (ms \div MsPerDay), ms % MsPerDay>>
           q == Numbers(args, 1, st)
           w == <<c.v>>
<1>1. Argument(a, N) /\ Count(args, 1) = 1 BY FirstArgument
<1>2. c.err \in BOOLEAN /\ (~c.err => c.v \in Numeric(N)) BY <1>1, Converted, Zenon
<1>3. q = IF c.err THEN c ELSE Ok(w, c.st) BY NumbersOne
<1>4. FirstField[m] = 7 /\ FieldCount[m] = 1 /\ m # "setFullYear" BY SMT DEF FirstField, FieldCount
<1>5. SetMilliseconds(args, st) = IF c.err THEN c ELSE IF tv = NoTime THEN Ok(NoTime, c.st)
        ELSE IF c.v = NaN THEN Unsets(c.st) ELSE SetTimeMs(r, c.st)
  BY Zenon DEF SetMilliseconds, Then
<1> HIDE DEF m
<1>6. CASE tv = NoTime
  <2>1. JsSetter(m, utc, args, st) = Then(q, LAMBDA vs, s : Ok(NoTime, s))
    <3>1. st.date = NoTime /\ m # "setFullYear" BY <1>4, <1>6
    <3>2. JsSetter(m, utc, args, st) = Then(Numbers(args, Count(args, FieldCount[m]), st), LAMBDA vs, s : Ok(NoTime, s))
      BY <3>1, JsSetterUnset, Zenon
    <3> QED BY <1>1, <1>4, <3>2, Zenon
  <2> HIDE DEF q, c
  <2>2. CASE c.err
    <3>1. q = c /\ q.err BY <1>3, <2>2
    <3>2. JsSetter(m, utc, args, st) = c BY <2>1, <3>1, Zenon DEF Then
    <3> QED BY <1>5, <2>2, <3>2 DEF m
  <2>3. CASE ~c.err
    <3>1. q = Ok(w, c.st) BY <1>3, <2>3
    <3>2. q.err = FALSE /\ q.st = c.st BY <3>1, Zenon DEF Ok
    <3>3. JsSetter(m, utc, args, st) = Ok(NoTime, c.st) BY <2>1, <3>2, Zenon DEF Then
    <3> QED BY <1>5, <1>6, <2>3, <3>3 DEF m
  <2> QED BY <2>2, <2>3
<1>7. CASE tv # NoTime
  <2> DEFINE z == ZoneOf(utc)
             u == Shift(tv, z)
             fields == [i \in 1..7 |-> IF i \in 7..(7 + 1 - 1) THEN w[i - 7 + 1][2] ELSE FieldsOf(u)[i]]
             d == Shift(MakeDateTime(fields), -z)
  <2>1. tv \in Time /\ InRange(tv) BY <1>7, Zenon DEF IsDate
  <2>2. u # NoTime
    <3>1. u \in Time BY <2>1, LocalNear
    <3> QED BY <3>1, TimeIsOne
  <2>3. JsSetter(m, utc, args, st) = JsSetTo(q, 7, 1, u, utc)
    <3>1. st.date # NoTime /\ u = Shift(st.date, ZoneOf(utc)) BY <1>7
    <3> HIDE DEF u
    <3>2. JsSetter(m, utc, args, st)
            = JsSetTo(Numbers(args, Count(args, FieldCount[m]), st), FirstField[m], Count(args, FieldCount[m]), u, utc)
      BY <2>2, <3>1, JsSetterSets, Zenon
    <3> QED BY <1>1, <1>4, <3>2, Zenon
  <2>4. JsSetTo(q, 7, 1, u, utc) =
          IF q.err THEN q ELSE
          Ok(IF HasNaN(q.v) THEN NoTime
             ELSE TimeClip(Shift(MakeDateTime([i \in 1..7 |-> IF i \in 7..(7 + 1 - 1) THEN q.v[i - 7 + 1][2] ELSE FieldsOf(u)[i]]), -z)),
             [q.st EXCEPT !.date = IF HasNaN(q.v) THEN NoTime
             ELSE TimeClip(Shift(MakeDateTime([i \in 1..7 |-> IF i \in 7..(7 + 1 - 1) THEN q.v[i - 7 + 1][2] ELSE FieldsOf(u)[i]]), -z))])
    <3> HIDE DEF q, u
    <3> QED BY Zenon DEF JsSetTo, Then
  <2>5. CASE c.err
    <3> HIDE DEF q, c
    <3>1. q = c /\ q.err BY <1>3, <2>5
    <3>2. JsSetter(m, utc, args, st) = c BY <2>3, <2>4, <3>1, Zenon
    <3> QED BY <1>5, <2>5, <3>2 DEF m
  <2>6. CASE ~c.err
    <3>1. q = Ok(w, c.st) BY <1>3, <2>6
    <3>2. q.err = FALSE /\ q.v = w /\ q.st = c.st
      <4> HIDE DEF q, w, c
      <4> QED BY <3>1, Zenon DEF Ok
    <3>3. JsSetter(m, utc, args, st) = Ok(IF HasNaN(w) THEN NoTime ELSE TimeClip(d),
                                           [c.st EXCEPT !.date = IF HasNaN(w) THEN NoTime ELSE TimeClip(d)])
      <4> HIDE DEF q, w, u, z, c
      <4> QED BY <2>3, <2>4, <3>2, Zenon
    <3>4. HasNaN(w) <=> c.v = NaN
      <4> HIDE DEF c
      <4> QED BY SMT DEF HasNaN
    <3>5. CASE c.v = NaN
      <4> HIDE DEF d, c, w, r, tv
      <4> QED BY <1>5, <1>7, <2>6, <3>3, <3>4, <3>5, Zenon DEF Unsets, m
    <3>6. CASE c.v # NaN
      <4>1. x \in (-N)..N BY <1>2, <2>6, <3>6, Numbered, Zenon
      <4>2. N \in Nat BY WithinFacts
      <4> HIDE DEF x
      <4>3. x \in Int BY <4>1, <4>2, SMT
      <4>4. fields = [i \in 1..7 |-> IF i = 7 THEN x ELSE FieldsOf(u)[i]]
        <5>1. \A i \in 1..7 : (i \in 7..(7 + 1 - 1) <=> i = 7) /\ (i = 7 => i - 7 + 1 = 1) BY SMT
        <5>2. w[1][2] = x BY SMT DEF x
        <5> HIDE DEF w, u, x
        <5>3. \A i \in 1..7 : (IF i \in 7..(7 + 1 - 1) THEN w[i - 7 + 1][2] ELSE FieldsOf(u)[i])
                              = IF i = 7 THEN x ELSE FieldsOf(u)[i] BY <5>1, <5>2, Zenon
        <5> QED BY <5>3, Zenon
      <4>5. z \in Int BY ZoneTyped
      <4>6. d = r /\ d \in Time
        <5>1. Whole(tv) OBVIOUS
        <5> HIDE DEF fields, tv, z, x
        <5>2. fields = [i \in 1..7 |-> IF i = 7 THEN x ELSE FieldsOf(Shift(tv, z))[i]] BY <4>4
        <5>3. ms = Milliseconds(tv) + x OBVIOUS
        <5> HIDE DEF ms
        <5>4. Shift(MakeDateTime(fields), -z) = <<tv[1] + (ms \div MsPerDay), ms % MsPerDay>>
              /\ Shift(MakeDateTime(fields), -z) \in Time
          BY <2>1, <4>3, <4>5, <5>1, <5>2, <5>3, MillisSet
        <5> QED BY <5>4
      <4> HIDE DEF d, r, c, w, tv
      <4>7. SetTimeMs(r, c.st) = Ok(TimeClip(d), [c.st EXCEPT !.date = TimeClip(d)]) BY <4>6, Clipped, Zenon
      <4> QED BY <1>5, <1>7, <2>6, <3>3, <3>4, <3>6, <4>7, Zenon DEF m
    <3> QED BY <3>5, <3>6
  <2> QED BY <2>5, <2>6
<1> QED BY <1>6, <1>7

\* date.go, the setters: each answers, sets and converts as ECMAScript's does.
\* The arguments are numbers to N, or objects that answer them; nothing that
\* converts follows an argument that is NaN (README.md).
THEOREM SettersAsInJavaScript ==
  ASSUME NEW N, Within(N), DatesAssumption, NEW args, Arguments(args, N), NEW m \in Methods, NEW utc \in BOOLEAN,
         NEW st, IsDate(st.date), st.date = NoTime => Unset(st), Settles(args, st.date),
         m = "setMilliseconds" => Whole(st.date)
  PROVE  Setter(m, utc, args, st) = IF m = "setTime" THEN JsSetTime(args, st) ELSE JsSetter(m, utc, args, st)
<1>1. CASE m = "setTime"
  <2>1. Setter(m, utc, args, st) = SetTime(args, st) BY <1>1, Zenon DEF Setter
  <2> QED BY <1>1, <2>1, TimeSet, Zenon
<1>2. CASE m = "setMilliseconds"
  <2>1. Setter(m, utc, args, st) = SetMilliseconds(args, st) BY <1>2, Zenon DEF Setter
  <2>2. SetMilliseconds(args, st) = JsSetter("setMilliseconds", utc, args, st) BY <1>2, MillisecondsSet, Zenon
  <2>3. m # "setTime" BY <1>2, SMT
  <2> QED BY <1>2, <2>1, <2>2, <2>3, Zenon
<1>3. LimitArgs(args, 0) = args
  <2>1. ~(0 > 0) BY SMT
  <2> QED BY <2>1, Zenon DEF LimitArgs
<1>4. ASSUME m # "setFullYear", NEW b, NEW most, NEW limit, Tables(m, b, most), Limited(LimitArgs(args, limit), args, b, most)
      PROVE  DateSetter(1 - b, limit, utc, args, st) = JsSetter(m, utc, args, st)
  <2> DEFINE own == LimitArgs(args, limit)
  <2>1. CASE st.date # NoTime
    <3> DEFINE t == Local(st.date, utc)
               p == DateSetFullYear(t, own, 1 - b, utc, st)
    <3>1. DateSetter(1 - b, limit, utc, args, st) = SetTo(p) BY <2>1, Zenon DEF DateSetter, SetTo, Then
    <3> HIDE DEF own
    <3>2. SetsFrom(t, m, st, utc) BY <2>1, Zenon DEF SetsFrom, Local
    <3> HIDE DEF t
    <3>3. Tables(m, b, most) /\ Limited(own, args, b, most) BY <1>4 DEF own
    <3>4. SetTo(DateSetFullYear(t, own, 1 - b, utc, st)) = JsSetter(m, utc, args, st) BY <3>2, <3>3, DateSet
    <3> QED BY <3>1, <3>4
  <2>2. CASE st.date = NoTime
    <3> DEFINE p == DateSetFullYear(<<0, 0>>, own, 1 - b, utc, st)
               left == UnsetTo(p)
    <3>1. DateSetter(1 - b, limit, utc, args, st) = left BY <2>2, Zenon DEF DateSetter, Then, UnsetTo
    <3>2. Settles(args, NoTime) /\ Unset(st) BY <2>2
    <3> HIDE DEF own
    <3>3. Tables(m, b, most) /\ Limited(own, args, b, most) /\ m # "setFullYear" BY <1>4 DEF own
    <3>4. left = JsSetter(m, utc, args, st) BY <3>2, <3>3, DateUnset
    <3> QED BY <3>1, <3>4
  <2> QED BY <2>1, <2>2
<1>5. CASE m = "setSeconds"
  <2>1. Setter(m, utc, args, st) = DateSetter(1 - 6, 0, utc, args, st)
    <3>1. -5 = 1 - 6 BY SMT
    <3> QED BY <1>5, <3>1, Zenon DEF Setter
  <2>2. Tables(m, 6, 2) BY <1>5, SMT DEF Tables, FirstField, FieldCount
  <2>3. Limited(LimitArgs(args, 0), args, 6, 2) BY <1>3, SMT DEF Limited
  <2> QED BY <1>4, <1>5, <2>1, <2>2, <2>3
<1>6. CASE m = "setMinutes"
  <2>1. Setter(m, utc, args, st) = DateSetter(1 - 5, 0, utc, args, st)
    <3>1. -4 = 1 - 5 BY SMT
    <3> QED BY <1>6, <3>1, Zenon DEF Setter
  <2>2. Tables(m, 5, 3) BY <1>6, SMT DEF Tables, FirstField, FieldCount
  <2>3. Limited(LimitArgs(args, 0), args, 5, 3) BY <1>3, SMT DEF Limited
  <2> QED BY <1>4, <1>6, <2>1, <2>2, <2>3
<1>7. CASE m = "setHours"
  <2>1. Setter(m, utc, args, st) = DateSetter(1 - 4, 0, utc, args, st)
    <3>1. -3 = 1 - 4 BY SMT
    <3> QED BY <1>7, <3>1, Zenon DEF Setter
  <2>2. Tables(m, 4, 4) BY <1>7, SMT DEF Tables, FirstField, FieldCount
  <2>3. Limited(LimitArgs(args, 0), args, 4, 4) BY <1>3, SMT DEF Limited
  <2> QED BY <1>4, <1>7, <2>1, <2>2, <2>3
<1>8. CASE m = "setDate"
  <2>1. Setter(m, utc, args, st) = DateSetter(1 - 3, 1, utc, args, st)
    <3>1. -2 = 1 - 3 BY SMT
    <3> QED BY <1>8, <3>1, Zenon DEF Setter
  <2>2. Tables(m, 3, 1) BY <1>8, SMT DEF Tables, FirstField, FieldCount
  <2>3. Limited(LimitArgs(args, 1), args, 3, 1) BY SMT DEF Limited
  <2> QED BY <1>4, <1>8, <2>1, <2>2, <2>3
<1>9. CASE m = "setMonth"
  <2>1. Setter(m, utc, args, st) = DateSetter(1 - 2, 2, utc, args, st)
    <3>1. -1 = 1 - 2 BY SMT
    <3> QED BY <1>9, <3>1, Zenon DEF Setter
  <2>2. Tables(m, 2, 2) BY <1>9, SMT DEF Tables, FirstField, FieldCount
  <2>3. Limited(LimitArgs(args, 2), args, 2, 2) BY SMT DEF Limited
  <2> QED BY <1>4, <1>9, <2>1, <2>2, <2>3
<1>10. CASE m = "setFullYear"
  <2> DEFINE own == LimitArgs(args, 3)
             t == IF st.date = NoTime THEN <<0, 0>> ELSE Local(st.date, utc)
             p == DateSetFullYear(t, own, 1 - 1, utc, st)
  <2>1. Setter(m, utc, args, st) = SetTo(p)
    <3>1. 0 = 1 - 1 BY SMT
    <3>2. Setter(m, utc, args, st) = SetFullYear(utc, args, st) BY <1>10, Zenon DEF Setter
    <3>3. SetFullYear(utc, args, st) = SetTo(DateSetFullYear(t, own, 0, utc, st))
      BY Zenon DEF SetFullYear, SetTo, Then
    <3> QED BY <3>1, <3>2, <3>3, Zenon
  <2>2. Tables(m, 1, 3) BY <1>10, SMT DEF Tables, FirstField, FieldCount
  <2>3. Limited(own, args, 1, 3) BY SMT DEF Limited
  <2>4. SetsFrom(t, m, st, utc) BY <1>10, Zenon DEF SetsFrom, Local
  <2> HIDE DEF own, t
  <2>5. SetTo(p) = JsSetter(m, utc, args, st) BY <2>2, <2>3, <2>4, DateSet
  <2> QED BY <1>10, <2>1, <2>5
<1> QED BY <1>1, <1>2, <1>5, <1>6, <1>7, <1>8, <1>9, <1>10 DEF Methods
---------------------------------------------------------------------------
(* The constructor and Date.UTC.                                           *)

LEMMA EpochFields ==
  FieldsOf(<<0, 0>>) = <<1970, 0, 1, 0, 0, 0, 0>>
<1> DEFINE y == YearOf(0)
           m == MonthOf(0)
<1>1. y = 1970
  <2>1. y \in Int /\ BeforeYear(y) <= 0 /\ 0 < BeforeYear(y + 1)
    <3>1. 0 \in Int OBVIOUS
    <3> QED BY <3>1, YearFound, Zenon
  <2> HIDE DEF y
  <2>2. y <= 1970 BY <2>1, SMT DEF BeforeYear
  <2>3. y >= 1970 BY <2>1, SMT DEF BeforeYear
  <2> QED BY <2>1, <2>2, <2>3, SMT
<1>2. m \in 0..11 /\ BeforeYear(y) + BeforeMonth(y, m) <= 0
  <2>1. 0 \in Int OBVIOUS
  <2> QED BY <2>1, MonthFound, Zenon
<1>3. BeforeYear(1970) = 0 BY SMT DEF BeforeYear
<1>4. m = 0 /\ BeforeMonth(1970, 0) = 0
  <2>1. ~Leap(1970) BY SMT DEF Leap
  <2>2. BeforeMonth(1970, m) <= 0
    <3>1. BeforeYear(1970) + BeforeMonth(1970, m) <= 0 BY <1>1, <1>2
    <3>2. BeforeMonth(1970, m) \in Int
      <4>1. y \in Int /\ m \in 0..11 BY <1>1, <1>2, SMT
      <4> HIDE DEF y
      <4>2. BeforeMonth(y, m) \in Int BY <4>1, DayTyped, Zenon
      <4> QED BY <1>1, <4>2, SMT
    <3> QED BY <1>3, <3>1, <3>2, SMT
  <2> HIDE DEF m
  <2>3. m = 0 BY <1>2, <2>1, <2>2, SMT DEF BeforeMonth
  <2>4. BeforeMonth(1970, 0) = 0 BY <2>1, SMT DEF BeforeMonth
  <2> QED BY <2>3, <2>4
<1>5. DayOfMonth(0) = 1
  <2>1. DayOfMonth(0) = 0 - BeforeYear(1970) - BeforeMonth(1970, 0) + 1 BY <1>1, <1>4, SMT DEF DayOfMonth
  <2> QED BY <1>3, <1>4, <2>1, SMT
<1> HIDE DEF y, m
<1>6. 0 \div MsPerHour = 0 /\ (0 \div MsPerMinute) % 60 = 0 /\ (0 \div MsPerSecond) % 60 = 0 /\ 0 % MsPerSecond = 0
  BY SMT DEF MsPerHour, MsPerMinute, MsPerSecond
<1>7. <<0, 0>>[1] = 0 /\ <<0, 0>>[2] = 0 OBVIOUS
<1> QED BY <1>1, <1>4, <1>5, <1>6, <1>7, SMT DEF FieldsOf, y, m

\* value.go: the year of a constructor, once converted.
LEMMA YearRead ==
  ASSUME NEW N, Within(N), DatesAssumption, NEW args, Arguments(args, N), NEW st, NEW cur,
         NEW c, c = ToNumber(Arg(args, 0), st), NEW n \in 1..7, NEW q, q = Convert(Ok(<<>>, st), n, args, 0)
  PROVE  /\ c.err \in BOOLEAN
         /\ c.err => Alike(c, q, 1, 1, 1, cur, TRUE, args, N)
         /\ ~c.err /\ c.v = NaN => Alike(Ok(<<>>, c.st), q, 1, 1, 1, cur, TRUE, args, N)
         /\ ~c.err /\ c.v # NaN => Alike(Ok(<<TwoDigit(c.v[2])>>, c.st), q, 1, 1, 1, cur, TRUE, args, N)
<1> DEFINE e == <<>>
           r0 == Ok(e, st)
           w == <<c.v>>
<1>1. q = IF c.err THEN c ELSE Ok(w, c.st)
  <2>1. r0.err = FALSE /\ r0.v = e /\ r0.st = st BY Zenon DEF Ok
  <2>2. Append(e, c.v) = w BY SMT
  <2>3. ~(0 >= n) BY SMT
  <2> HIDE DEF e, r0, w
  <2>4. ~r0.err /\ c = ToNumber(Arg(args, 0), r0.st) BY <2>1
  <2>5. Convert(r0, n, args, 0) = IF c.err THEN c ELSE Ok(Append(r0.v, c.v), c.st) BY <2>3, <2>4, ConvertOne
  <2> QED BY <2>1, <2>2, <2>5 DEF r0, e
<1>2. Argument(Arg(args, 0), N) BY FirstArgument
<1>3. c.err \in BOOLEAN /\ (~c.err => c.v \in Numeric(N) /\ (c.v = NaN <=> IsNaN(Arg(args, 0))))
  <2> DEFINE x == ToNumber(Arg(args, 0), st)
  <2>1. x.err \in BOOLEAN /\ (~x.err => x.v \in Numeric(N) /\ (x.v = NaN <=> IsNaN(Arg(args, 0))))
    BY <1>2, Converted
  <2>2. c = x OBVIOUS
  <2> HIDE DEF x
  <2> QED BY <2>1, <2>2
<1>4. ASSUME c.err PROVE Alike(c, q, 1, 1, 1, cur, TRUE, args, N)
  <2>1. q = c BY <1>1, <1>4
  <2> QED BY <1>3, <1>4, <2>1, Zenon DEF Alike
<1>5. ASSUME ~c.err
      PROVE  /\ q.err = FALSE /\ q.v = w /\ q.st = c.st
             /\ w \in Seq(Numeric(N)) /\ Len(w) = 1 /\ (HasNaN(w) <=> c.v = NaN)
  <2>1. q = Ok(w, c.st) BY <1>1, <1>5
  <2>2. w \in Seq(Numeric(N)) /\ Len(w) = 1 BY <1>3, <1>5, SMT
  <2>3. HasNaN(w) <=> c.v = NaN BY SMT DEF HasNaN
  <2> HIDE DEF w
  <2>4. q.err = FALSE /\ q.v = w /\ q.st = c.st BY <2>1, SMT DEF Ok
  <2> QED BY <2>2, <2>3, <2>4
<1>6. FALSE \in BOOLEAN OBVIOUS
<1>7. ASSUME ~c.err, c.v = NaN PROVE Alike(Ok(<<>>, c.st), q, 1, 1, 1, cur, TRUE, args, N)
  <2> DEFINE r == Ok(e, c.st)
  <2>1. Len(e) \in 0..(1 - 1) /\ 0 \in 0..(1 - 1) BY SMT
  <2> HIDE DEF e
  <2>2. r.err = FALSE /\ r.v = e /\ r.st = c.st BY Zenon DEF Ok
  <2>3. IsNaN(Arg(args, 0)) BY <1>3, <1>7
  <2> HIDE DEF r, w
  <2>4. Alike(r, q, 1, 1, 1, cur, TRUE, args, N) BY <1>5, <1>6, <1>7, <2>1, <2>2, <2>3, Zenon DEF Alike
  <2> QED BY <2>4 DEF r, e
<1>8. ASSUME ~c.err, c.v # NaN PROVE Alike(Ok(<<TwoDigit(c.v[2])>>, c.st), q, 1, 1, 1, cur, TRUE, args, N)
  <2> DEFINE p == <<TwoDigit(c.v[2])>>
             r == Ok(p, c.st)
  <2>1. Merged(w, 1, 1, cur, TRUE) = p
    <3>1. \A i \in 1..1 : i = 1 /\ 1 \in 1..(1 + Len(w) - 1) BY SMT
    <3>2. w[1] = c.v BY SMT
    <3> DEFINE body(i) == IF i \in 1..(1 + Len(w) - 1)
                          THEN (IF TRUE /\ i = 1 THEN TwoDigit(w[1][2]) ELSE w[i - 1 + 1][2]) ELSE cur[i]
    <3>3. Merged(w, 1, 1, cur, TRUE) = [i \in 1..1 |-> body(i)] BY Zenon DEF Merged
    <3> DEFINE x == TwoDigit(c.v[2])
    <3>4. \A i \in 1..1 : body(i) = x BY <3>1, <3>2, Zenon
    <3> HIDE DEF body, x
    <3>5. [i \in 1..1 |-> body(i)] = <<x>> BY <3>4, SMT
    <3> QED BY <3>3, <3>5 DEF x
  <2> HIDE DEF p
  <2>2. r.err = FALSE /\ r.v = p /\ r.st = c.st BY Zenon DEF Ok
  <2> HIDE DEF r, w
  <2>3. Alike(r, q, 1, 1, 1, cur, TRUE, args, N) BY <1>5, <1>6, <1>8, <2>1, <2>2, Zenon DEF Alike
  <2> QED BY <2>3 DEF r, p
<1> QED BY <1>3, <1>4, <1>7, <1>8

\* A chain that has stopped stays where it is.
LEMMA Stopped ==
  ASSUME NEW N, NEW n \in 1..7, NEW cur, NEW args, Reads(args, args, 1, n, N), NEW st, NEW Q, Chain(Q, n, args, st),
         NEW r, r.err \/ r.v = <<>>, Alike(r, Q[1], 1, 1, 1, cur, TRUE, args, N)
  PROVE  Alike(r, Q[7], 7, n, 1, cur, TRUE, args, N)
<1> DEFINE R == [i \in 1..7 |-> r]
<1>1. \A f \in 1..7 : R[f] = r OBVIOUS
<1> HIDE DEF R
<1>2. ASSUME NEW f \in 1..6 PROVE Field(r, f + 1, cur, args, 1 - 1) = r
  <2>1. CASE r.err BY <2>1, FieldStays
  <2>2. CASE ~r.err /\ r.v = <<>>
    <3>1. Len(r.v) # f + 1 - 1
      <4>1. Len(<<>>) = 0 /\ f + 1 - 1 # 0 BY SMT
      <4> QED BY <2>2, <4>1
    <3> QED BY <2>2, <3>1, FieldStays
  <2> QED BY <2>1, <2>2
<1>3. \A f \in 1..6 : R[f + 1] = Field(R[f], f + 1, cur, args, 1 - 1)
  <2>1. \A f \in 1..6 : f \in 1..7 /\ f + 1 \in 1..7 BY SMT
  <2> QED BY <1>1, <1>2, <2>1, Zenon
<1>4. Read(1, 1, n) = 1 /\ 1 \in 1..7 /\ 7 \in 1..7 /\ 1 + n <= 8 BY SMT DEF Read
<1>5. Alike(R[1], Q[Read(1, 1, n)], 1, Read(1, 1, n), 1, cur, TRUE, args, N) BY <1>1, <1>4, Zenon
<1>6. \A i \in 0..6 : Q[i + 1] = Convert(Q[i], n, args, i) BY Zenon DEF Chain
<1>7. TRUE \in BOOLEAN OBVIOUS
<1>8. Alike(R[7], Q[7], 7, n, 1, cur, TRUE, args, N) BY <1>3, <1>4, <1>5, <1>6, <1>7, FieldsRead
<1> QED BY <1>1, <1>4, <1>8, Zenon

\* The end of makeDate, and of ECMAScript's constructor.
MakeTo(p) ==
  Then(p, LAMBDA t, s : Ok(IF t # NoTime /\ InRange(TimeToMsec(t)) THEN TimeToMsec(t) ELSE NoTime, s))
FirstFields == <<1970, 0, 1, 0, 0, 0, 0>>
JsFields(vs, n) == [i \in 1..7 |-> IF i <= n THEN vs[i][2] ELSE FirstFields[i]]
JsYear(f) == IF f[1] >= 0 /\ f[1] <= 99 THEN 1900 + f[1] ELSE f[1]
JsMade(vs, n, utc) ==
  TimeClip(Shift(MakeDateTime([JsFields(vs, n) EXCEPT ![1] = JsYear(JsFields(vs, n))]), -ZoneOf(utc)))
JsMakeTo(q, n, utc) == Then(q, LAMBDA vs, s : IF HasNaN(vs) THEN Ok(NoTime, s) ELSE Ok(JsMade(vs, n, utc), s))

LEMMA JsMakes ==
  ASSUME NEW S, NEW args \in Seq(S), NEW utc, NEW st
  PROVE  JsMake(args, utc, st) = JsMakeTo(Numbers(args, Count(args, 7), st), Count(args, 7), utc)
<1> DEFINE n == IF Len(args) > 7 THEN 7 ELSE IF args = <<>> THEN 1 ELSE Len(args)
           k == Len(args)
<1>1. n = Count(args, 7)
  <2>1. k \in Nat /\ (args = <<>> <=> k = 0) BY SMT
  <2>2. Count(args, 7) = IF k = 0 THEN 1 ELSE IF k > 7 THEN 7 ELSE k BY <2>1, Zenon DEF Count
  <2>3. n = IF k > 7 THEN 7 ELSE IF k = 0 THEN 1 ELSE k BY <2>1, Zenon
  <2> HIDE DEF n, k
  <2> QED BY <2>1, <2>2, <2>3, SMT
<1> DEFINE q == Numbers(args, n, st)
<1>2. JsMake(args, utc, st) = JsMakeTo(q, n, utc)
  <2>1. JsMake(args, utc, st) = Then(q, LAMBDA vs, s :
          IF HasNaN(vs) THEN Ok(NoTime, s) ELSE Ok(JsMade(vs, n, utc), s))
    BY SMT DEF JsMake, JsMade, JsFields, JsYear, FirstFields
  <2> QED BY <2>1, Zenon DEF JsMakeTo
<1> HIDE DEF n
<1> QED BY <1>1, <1>2

LEMMA BothMake ==
  ASSUME NEW N \in Nat, NEW q, NEW n \in 1..7, NEW utc, NEW args,
         Sound(q, n, 1, FieldsOf(<<0, 0>>), TRUE, utc, args, N)
  PROVE  MakeTo(Together(q, 1, FieldsOf(<<0, 0>>), TRUE, utc)) = JsMakeTo(q, n, utc)
<1> DEFINE cur == FieldsOf(<<0, 0>>)
           M == Merged(q.v, 7, 1, cur, TRUE)
           u == Shift(MakeDateTime(M), -ZoneOf(utc))
           p == Together(q, 1, cur, TRUE, utc)
<1>1. cur = FirstFields BY EpochFields DEF FirstFields
<1> HIDE DEF cur
<1>2. CASE q.err
  <2>1. p = q BY <1>2, Zenon DEF Together, Then
  <2> HIDE DEF p
  <2>2. MakeTo(p) = q BY <1>2, <2>1, Zenon DEF MakeTo, Then
  <2>3. JsMakeTo(q, n, utc) = q BY <1>2, Zenon DEF JsMakeTo, Then
  <2> QED BY <2>2, <2>3 DEF p, cur
<1>3. CASE ~q.err
  <2>1. q.v \in Seq(Numeric(N)) /\ Len(q.v) = n /\ (~HasNaN(q.v) => Exact(u)) BY <1>3, Zenon DEF Sound, cur
  <2>2. p = Ok(IF HasNaN(q.v) THEN NoTime ELSE u, q.st) BY <1>3, Zenon DEF Together, Then
  <2>3. JsMakeTo(q, n, utc) = IF HasNaN(q.v) THEN Ok(NoTime, q.st) ELSE Ok(JsMade(q.v, n, utc), q.st)
    BY <1>3, Zenon DEF JsMakeTo, Then
  <2> HIDE DEF p, M
  <2>4. CASE HasNaN(q.v)
    <3>1. p = Ok(NoTime, q.st) BY <2>2, <2>4, Zenon
    <3>2. p.err = FALSE /\ p.v = NoTime /\ p.st = q.st BY <3>1, Zenon DEF Ok
    <3>3. MakeTo(p) = Ok(NoTime, q.st) BY <3>2, Zenon DEF MakeTo, Then
    <3> QED BY <2>3, <2>4, <3>3, Zenon DEF p, cur
  <2>5. CASE ~HasNaN(q.v)
    <3>1. u \in Time /\ TimeToMsec(u) = u BY <2>1, <2>5, Zenon DEF Exact
    <3>2. JsMade(q.v, n, utc) = TimeClip(u)
      <4> DEFINE f == JsFields(q.v, n)
                 x == q.v[1][2]
      <4>1. x \in Int
        <5>1. 1 \in DOMAIN q.v /\ q.v[1] \in Numeric(N) BY <2>1, SMT
        <5>2. q.v[1] # NaN BY <2>5, <5>1, Zenon DEF HasNaN
        <5>3. x \in (-N)..N BY <5>1, <5>2, Numbered, Zenon
        <5> HIDE DEF x
        <5> QED BY <5>3, SMT
      <4>2. f[1] = x BY SMT DEF JsFields
      <4>3. JsYear(f) = TwoDigit(x)
        <5> HIDE DEF f, x
        <5> QED BY <4>1, <4>2, SMT DEF JsYear, TwoDigit
      <4>4. [f EXCEPT ![1] = JsYear(f)] = [i \in 1..7 |-> IF i = 1 THEN TwoDigit(x) ELSE f[i]]
        <5>1. f = [i \in 1..7 |-> f[i]] BY SMT DEF JsFields
        <5> HIDE DEF f, x
        <5> QED BY <4>3, <5>1, SMT
      <4>5. M = [i \in 1..7 |-> IF i = 1 THEN TwoDigit(x) ELSE f[i]]
        <5>1. \A i \in 1..7 : /\ i \in 1..(1 + Len(q.v) - 1) <=> i <= n
                               /\ i - 1 + 1 = i /\ (i = 1 => i <= n) BY <2>1, SMT
        <5>2. \A i \in 1..7 : f[i] = IF i <= n THEN q.v[i][2] ELSE cur[i] BY <1>1, Zenon DEF JsFields
        <5> HIDE DEF f
        <5> DEFINE body(i) == IF i \in 1..(1 + Len(q.v) - 1)
                              THEN (IF TRUE /\ i = 1 THEN TwoDigit(q.v[1][2]) ELSE q.v[i - 1 + 1][2])
                              ELSE cur[i]
                   goal(i) == IF i = 1 THEN TwoDigit(x) ELSE f[i]
        <5>3. ASSUME NEW i \in 1..7 PROVE body(i) = goal(i)
          <6>1. (i \in 1..(1 + Len(q.v) - 1) <=> i <= n) /\ i - 1 + 1 = i /\ (i = 1 => i <= n) BY <5>1
          <6>2. f[i] = IF i <= n THEN q.v[i][2] ELSE cur[i] BY <5>2
          <6>3. CASE i = 1 BY <6>1, <6>3, Zenon
          <6>4. CASE i # 1 /\ i <= n
            <7>1. f[i] = q.v[i][2] BY <6>2, <6>4
            <7>2. body(i) = q.v[i][2] BY <6>1, <6>4, Zenon
            <7> HIDE DEF body
            <7> QED BY <6>4, <7>1, <7>2, Zenon
          <6>5. CASE i # 1 /\ ~(i <= n)
            <7>1. f[i] = cur[i] BY <6>2, <6>5
            <7>2. body(i) = cur[i] BY <6>1, <6>5, Zenon
            <7> HIDE DEF body
            <7> QED BY <6>5, <7>1, <7>2, Zenon
          <6> QED BY <6>3, <6>4, <6>5
        <5>4. M = [i \in 1..7 |-> body(i)] BY Zenon DEF M, Merged
        <5> HIDE DEF body
        <5> QED BY <5>3, <5>4, Zenon
      <4>6. [f EXCEPT ![1] = JsYear(f)] = M BY <4>4, <4>5
      <4> QED BY <4>6, Zenon DEF JsMade
    <3> HIDE DEF u
    <3>3. TimeClip(u) = IF InRange(u) THEN u ELSE NoTime BY <3>1, Clips
    <3>4. u # NoTime BY <3>1, TimeIsOne
    <3>5. p = Ok(u, q.st) BY <2>2, <2>5, Zenon
    <3>6. p.err = FALSE /\ p.v = u /\ p.st = q.st BY <3>5, Zenon DEF Ok
    <3>7. MakeTo(p) = Ok(IF InRange(u) THEN u ELSE NoTime, q.st) BY <3>1, <3>4, <3>6, Zenon DEF MakeTo, Then
    <3> QED BY <2>3, <2>5, <3>2, <3>3, <3>7, Zenon DEF p, cur
  <2> QED BY <2>4, <2>5
<1> QED BY <1>2, <1>3

\* makeDate answers as ECMAScript's constructor does.
LEMMA Made ==
  ASSUME NEW N, Within(N), DatesAssumption, NEW args, Arguments(args, N), NEW utc \in BOOLEAN, NEW st
  PROVE  MakeDate(args, utc, st) = JsMake(args, utc, st)
<1> DEFINE n == Count(args, 7)
           cur == FieldsOf(<<0, 0>>)
           c == ToNumber(Arg(args, 0), st)
           d == DateSetYear(<<0, 0>>, args, utc, st)
<1>1. n \in 1..7 /\ 1 + n <= 8 /\ Reads(args, args, 1, n, N)
  <2>1. Limited(args, args, 1, 7) BY SMT DEF Limited
  <2> QED BY <2>1, LimitedReads, Zenon
<1>2. PICK Q : Chain(Q, n, args, st) BY OneByOne
<1>3. JsMake(args, utc, st) = JsMakeTo(Q[7], n, utc)
  <2>1. PICK S : args \in Seq(S) BY Zenon DEF Arguments
  <2>2. JsMake(args, utc, st) = JsMakeTo(Numbers(args, n, st), n, utc) BY <2>1, JsMakes
  <2>3. Q[7] = Numbers(args, n, st) BY <1>2, Zenon DEF Chain
  <2> QED BY <2>2, <2>3
<1>4. MakeDate(args, utc, st) = MakeTo(d) BY Zenon DEF MakeDate, MakeTo
<1>5. cur \in [1..7 -> (-N)..N] /\ N \in Nat
  <2>1. <<0, 0>> \in Time /\ Near(<<0, 0>>[1]) BY Epoch, LocalNear
  <2> QED BY <2>1, FieldsNear, WithinFacts
<1>6. Q[1] = Convert(Ok(<<>>, st), n, args, 0)
  <2>1. Q[0] = Ok(<<>>, st) /\ Q[0 + 1] = Convert(Q[0], n, args, 0) BY <1>2, SMT DEF Chain
  <2>2. 0 + 1 = 1 BY SMT
  <2> QED BY <2>1, <2>2
<1> HIDE DEF cur
<1>7. /\ c.err \in BOOLEAN
      /\ c.err => Alike(c, Q[1], 1, 1, 1, cur, TRUE, args, N)
      /\ ~c.err /\ c.v = NaN => Alike(Ok(<<>>, c.st), Q[1], 1, 1, 1, cur, TRUE, args, N)
      /\ ~c.err /\ c.v # NaN => Alike(Ok(<<TwoDigit(c.v[2])>>, c.st), Q[1], 1, 1, 1, cur, TRUE, args, N)
  BY <1>1, <1>6, YearRead
<1>8. d = IF c.err THEN c ELSE IF c.v = NaN THEN Ok(NoTime, c.st)
          ELSE DateSetFrom(<<TwoDigit(c.v[2])>>, cur, args, 0, utc, c.st)
  BY Zenon DEF DateSetYear, Then, cur
<1> HIDE DEF n, c, d
<1>9. CASE c.err
  <2>1. Alike(c, Q[7], 7, n, 1, cur, TRUE, args, N) BY <1>1, <1>2, <1>7, <1>9, Stopped
  <2>2. Q[7] = c /\ d = c BY <1>8, <1>9, <2>1, Zenon DEF Alike
  <2>3. MakeTo(c) = c BY <1>9, Zenon DEF MakeTo, Then
  <2>4. JsMakeTo(c, n, utc) = c BY <1>9, Zenon DEF JsMakeTo, Then
  <2> QED BY <1>3, <1>4, <2>2, <2>3, <2>4
<1>10. CASE ~c.err /\ c.v = NaN
  <2> DEFINE r == Ok(<<>>, c.st)
             x == Ok(NoTime, c.st)
             M == Merged(Q[7].v, 7, 1, cur, TRUE)
  <2>1. r.err = FALSE /\ r.v = <<>> /\ r.st = c.st BY Zenon DEF Ok
  <2>2. x.err = FALSE /\ x.v = NoTime /\ x.st = c.st BY Zenon DEF Ok
  <2>3. M # <<>>
    <3>1. Len(M) = 7 BY MergedLength
    <3>2. Len(<<>>) # 7 BY SMT
    <3> HIDE DEF M
    <3> QED BY <3>1, <3>2
  <2>4. Alike(r, Q[1], 1, 1, 1, cur, TRUE, args, N) BY <1>7, <1>10
  <2> HIDE DEF r, x
  <2>5. Alike(r, Q[7], 7, n, 1, cur, TRUE, args, N) BY <1>1, <1>2, <2>1, <2>4, Stopped
  <2>6. ~Q[7].err /\ HasNaN(Q[7].v) /\ Q[7].st = c.st BY <2>1, <2>3, <2>5, Zenon DEF Alike
  <2>7. JsMakeTo(Q[7], n, utc) = x BY <2>6, Zenon DEF JsMakeTo, Then, x
  <2>8. MakeTo(x) = x
    <3>1. MakeTo(x) = Ok(NoTime, c.st) BY <2>2, Zenon DEF MakeTo, Then
    <3> QED BY <3>1 DEF x
  <2>9. d = x BY <1>8, <1>10 DEF x
  <2> QED BY <1>3, <1>4, <2>7, <2>8, <2>9
<1>11. CASE ~c.err /\ c.v # NaN
  <2> DEFINE vals == <<TwoDigit(c.v[2])>>
             p == Ok(vals, c.st)
  <2>1. Field(p, 1, cur, args, 1 - 1) = p
    <3>1. Len(vals) # 1 - 1 BY SMT
    <3> HIDE DEF vals
    <3>2. p.err = FALSE /\ p.v = vals BY Zenon DEF Ok
    <3> HIDE DEF p
    <3> QED BY <3>1, <3>2, FieldStays
  <2>2. Alike(p, Q[1], 1, 1, 1, cur, TRUE, args, N) BY <1>7, <1>11
  <2> HIDE DEF vals
  <2>3. Read(1, 1, n) = 1 /\ 1 \in 1..7 BY <1>1, SMT DEF Read
  <2>4. Alike(Field(Ok(vals, c.st), 1, cur, args, 1 - 1), Q[Read(1, 1, n)], 1, Read(1, 1, n), 1, cur, TRUE, args, N)
    BY <2>1, <2>2, <2>3
  <2>5. \A i \in 0..6 : Q[i + 1] = Convert(Q[i], n, args, i) BY <1>2, Zenon DEF Chain
  <2>6. TRUE \in BOOLEAN OBVIOUS
  <2>7. /\ DateSetFrom(vals, cur, args, 1 - 1, utc, c.st) = Together(Q[7], 1, cur, TRUE, utc)
        /\ Sound(Q[7], n, 1, cur, TRUE, utc, args, N)
    BY <1>1, <1>5, <2>3, <2>4, <2>5, <2>6, SetFromExact
  <2>8. d = DateSetFrom(vals, cur, args, 1 - 1, utc, c.st)
    <3>1. 1 - 1 = 0 BY SMT
    <3> QED BY <1>8, <1>11, <3>1 DEF vals
  <2>9. MakeTo(Together(Q[7], 1, cur, TRUE, utc)) = JsMakeTo(Q[7], n, utc) BY <1>1, <1>5, <2>7, BothMake DEF cur
  <2> QED BY <1>3, <1>4, <2>7, <2>8, <2>9
<1> QED BY <1>7, <1>9, <1>10, <1>11

LEMMA ConvertStopped ==
  ASSUME NEW r, r.err, NEW n, NEW args, NEW i
  PROVE  Convert(r, n, args, i) = r
<1>1. CASE i >= n BY <1>1, Zenon DEF Convert
<1>2. CASE ~(i >= n) BY <1>2, Zenon DEF Convert, Then
<1> QED BY <1>1, <1>2

LEMMA Two ==
  ASSUME NEW x, NEW y, NEW S, NEW t \in Seq(S), Len(t) = 2, t[1] = x, t[2] = y
  PROVE  t = <<x, y>>
BY SMT

LEMMA AppendOne ==
  ASSUME NEW x, NEW y
  PROVE  Append(<<x>>, y) = <<x, y>>
<1> DEFINE s == <<x>>
           S == {x, y}
           t == Append(s, y)
           m == 1
<1>1. s \in Seq(S) /\ Len(s) = 1 /\ s[1] = x /\ y \in S BY SMT
<1>2. m \in Nat /\ Len(s) = m /\ m + 1 = 2 /\ 1 \in 1..m BY SMT
<1> HIDE DEF s, S, m
<1>3. t \in Seq(S) /\ Len(t) = m + 1 BY <1>1, <1>2, SMT
<1>4. t[m + 1] = y /\ \A i \in 1..m : t[i] = s[i] BY <1>1, <1>2, Appended
<1> HIDE DEF t
<1>5. Len(t) = 2 /\ t[1] = x /\ t[2] = y
  <2>1. t[1] = x BY <1>1, <1>2, <1>4, Zenon
  <2> QED BY <1>2, <1>3, <1>4, <2>1
<1>6. t = <<x, y>> BY <1>3, <1>5, Two
<1> QED BY <1>6 DEF t, s

LEMMA NumbersTwo ==
  ASSUME NEW args, NEW st, NEW c, c = ToNumber(Arg(args, 0), st), NEW z, z[1] # "conv", Arg(args, 1) = z
  PROVE  Numbers(args, 2, st) = IF c.err THEN c ELSE Ok(<<c.v, z>>, c.st)
<1>8. PICK Q : Chain(Q, 2, args, st) BY OneByOne
<1>1. /\ Q[0] = Ok(<<>>, st) /\ Q[7] = Numbers(args, 2, st)
      /\ \A i \in 0..6 : Q[i + 1] = Convert(Q[i], 2, args, i) BY <1>8, Zenon DEF Chain
<1>2. \A i \in 2..6 : Q[i + 1] = Q[i]
  <2>1. \A i \in 2..6 : i \in 0..6 /\ i >= 2 BY SMT
  <2>2. \A i \in 2..6 : Convert(Q[i], 2, args, i) = Q[i] BY <2>1, Zenon DEF Convert
  <2> QED BY <1>1, <2>1, <2>2
<1>3. Q[7] = Q[2]
  <2>1. 2 + 1 = 3 /\ 3 + 1 = 4 /\ 4 + 1 = 5 /\ 5 + 1 = 6 /\ 6 + 1 = 7 BY SMT
  <2>2. 2 \in 2..6 /\ 3 \in 2..6 /\ 4 \in 2..6 /\ 5 \in 2..6 /\ 6 \in 2..6 BY SMT
  <2> QED BY <1>2, <2>1, <2>2, Zenon
<1>4. Q[1] = IF c.err THEN c ELSE Ok(<<c.v>>, c.st)
  <2> DEFINE e == <<>>
             r == Ok(e, st)
  <2>1. r.err = FALSE /\ r.v = e /\ r.st = st BY Zenon DEF Ok
  <2>2. Append(e, c.v) = <<c.v>> BY SMT
  <2>3. ~(0 >= 2) /\ 0 \in 0..6 /\ 0 + 1 = 1 BY SMT
  <2>4. Q[1] = Convert(r, 2, args, 0) BY <1>1, <2>3, Zenon
  <2> HIDE DEF e, r
  <2>5. ~r.err /\ c = ToNumber(Arg(args, 0), r.st) BY <2>1
  <2>6. Convert(r, 2, args, 0) = IF c.err THEN c ELSE Ok(Append(r.v, c.v), c.st) BY <2>3, <2>5, ConvertOne
  <2> QED BY <2>1, <2>2, <2>4, <2>6
<1>5. Q[2] = Convert(Q[1], 2, args, 1)
  <2>1. 1 \in 0..6 /\ 1 + 1 = 2 BY SMT
  <2> QED BY <1>1, <2>1, Zenon
<1>6. CASE c.err
  <2>1. Q[1] = c BY <1>4, <1>6
  <2>2. ~(1 >= 2) BY SMT
  <2>3. Convert(c, 2, args, 1) = c BY <1>6, ConvertStopped
  <2> QED BY <1>1, <1>3, <1>5, <1>6, <2>1, <2>3
<1>7. CASE ~c.err
  <2> DEFINE w == <<c.v>>
             r == Ok(w, c.st)
             d == ToNumber(Arg(args, 1), r.st)
  <2>1. r.err = FALSE /\ r.v = w /\ r.st = c.st BY Zenon DEF Ok
  <2>2. Append(w, z) = <<c.v, z>> BY AppendOne
  <2>3. ~(1 >= 2) BY SMT
  <2>4. Q[1] = r BY <1>4, <1>7
  <2> HIDE DEF w, r
  <2>5. d = Ok(z, r.st) BY Zenon DEF ToNumber
  <2> HIDE DEF d
  <2>6. d.err = FALSE /\ d.v = z /\ d.st = r.st BY <2>5, Zenon DEF Ok
  <2>7. ~r.err /\ d = ToNumber(Arg(args, 1), r.st) BY <2>1 DEF d
  <2>8. Convert(r, 2, args, 1) = IF d.err THEN d ELSE Ok(Append(r.v, d.v), d.st) BY <2>3, <2>7, ConvertOne
  <2>9. Convert(r, 2, args, 1) = Ok(<<c.v, z>>, c.st) BY <2>1, <2>2, <2>6, <2>8
  <2> QED BY <1>1, <1>3, <1>5, <1>7, <2>4, <2>9
<1> QED BY <1>6, <1>7

\* Date.UTC of a year alone is that of its January.
LEMMA YearAlone ==
  ASSUME NEW c, NEW z, z = Num(0)
  PROVE  JsMakeTo(IF c.err THEN c ELSE Ok(<<c.v, z>>, c.st), 2, TRUE)
           = JsMakeTo(IF c.err THEN c ELSE Ok(<<c.v>>, c.st), 1, TRUE)
<1>1. CASE c.err BY <1>1, Zenon DEF JsMakeTo, Then
<1>2. CASE ~c.err
  <2> DEFINE u == <<c.v, z>>
             v == <<c.v>>
             p == Ok(u, c.st)
             q == Ok(v, c.st)
  <2>1. z # NaN /\ z[2] = 0 BY SMT DEF Num, NaN
  <2>2. HasNaN(u) <=> c.v = NaN
    <3>1. DOMAIN u = {1, 2} /\ u[1] = c.v /\ u[2] = z BY SMT
    <3> HIDE DEF u
    <3> QED BY <2>1, <3>1, Zenon DEF HasNaN
  <2>3. HasNaN(v) <=> c.v = NaN
    <3>1. DOMAIN v = {1} /\ v[1] = c.v BY SMT
    <3> HIDE DEF v
    <3> QED BY <3>1, Zenon DEF HasNaN
  <2>4. JsFields(u, 2) = JsFields(v, 1)
    <3> DEFINE f(i) == IF i <= 2 THEN u[i][2] ELSE FirstFields[i]
               g(i) == IF i <= 1 THEN v[i][2] ELSE FirstFields[i]
    <3>1. FirstFields[2] = 0 BY SMT DEF FirstFields
    <3>2. u[1] = c.v /\ u[2] = z /\ v[1] = c.v BY SMT
    <3> HIDE DEF u, v
    <3>3. ASSUME NEW i \in 1..7 PROVE f(i) = g(i)
      <4>1. CASE i = 1
        <5>1. i <= 2 /\ i <= 1 BY <4>1, SMT
        <5> QED BY <3>2, <4>1, <5>1, Zenon
      <4>2. CASE i = 2
        <5>1. i <= 2 /\ ~(i <= 1) BY <4>2, SMT
        <5>2. f(i) = z[2] BY <3>2, <4>2, <5>1, Zenon
        <5>3. g(i) = FirstFields[2] BY <4>2, <5>1, Zenon
        <5> HIDE DEF f, g
        <5> QED BY <2>1, <3>1, <5>2, <5>3
      <4>3. CASE i # 1 /\ i # 2
        <5>1. ~(i <= 2) /\ ~(i <= 1) BY <4>3, SMT
        <5> QED BY <5>1, Zenon
      <4> QED BY <4>1, <4>2, <4>3
    <3>4. JsFields(u, 2) = [i \in 1..7 |-> f(i)] /\ JsFields(v, 1) = [i \in 1..7 |-> g(i)] BY Zenon DEF JsFields
    <3> HIDE DEF f, g
    <3> QED BY <3>3, <3>4, Zenon
  <2> HIDE DEF u, v
  <2>5. JsMade(u, 2, TRUE) = JsMade(v, 1, TRUE) BY <2>4, Zenon DEF JsMade
  <2>6. p.err = FALSE /\ p.v = u /\ p.st = c.st /\ q.err = FALSE /\ q.v = v /\ q.st = c.st BY Zenon DEF Ok
  <2> HIDE DEF p, q
  <2>7. JsMakeTo(p, 2, TRUE) = IF HasNaN(u) THEN Ok(NoTime, c.st) ELSE Ok(JsMade(u, 2, TRUE), c.st)
    BY <2>6, Zenon DEF JsMakeTo, Then
  <2>8. JsMakeTo(q, 1, TRUE) = IF HasNaN(v) THEN Ok(NoTime, c.st) ELSE Ok(JsMade(v, 1, TRUE), c.st)
    BY <2>6, Zenon DEF JsMakeTo, Then
  <2> DEFINE one == JsMade(v, 1, TRUE)
             two == JsMade(u, 2, TRUE)
  <2> HIDE DEF one, two
  <2>9. two = one BY <2>5 DEF one, two
  <2>10. JsMakeTo(p, 2, TRUE) = IF HasNaN(u) THEN Ok(NoTime, c.st) ELSE Ok(two, c.st) BY <2>7 DEF two
  <2>11. JsMakeTo(q, 1, TRUE) = IF HasNaN(v) THEN Ok(NoTime, c.st) ELSE Ok(one, c.st) BY <2>8 DEF one
  <2>12. JsMakeTo(p, 2, TRUE) = JsMakeTo(q, 1, TRUE)
    <3>1. CASE c.v = NaN
      <4>1. JsMakeTo(p, 2, TRUE) = Ok(NoTime, c.st) BY <2>2, <2>10, <3>1
      <4>2. JsMakeTo(q, 1, TRUE) = Ok(NoTime, c.st) BY <2>3, <2>11, <3>1
      <4> QED BY <4>1, <4>2
    <3>2. CASE c.v # NaN
      <4>1. JsMakeTo(p, 2, TRUE) = Ok(two, c.st) BY <2>2, <2>10, <3>2
      <4>2. JsMakeTo(q, 1, TRUE) = Ok(one, c.st) BY <2>3, <2>11, <3>2
      <4> QED BY <2>9, <4>1, <4>2
    <3> QED BY <3>1, <3>2
  <2> QED BY <1>2, <2>12 DEF p, q, u, v
<1> QED BY <1>1, <1>2

\* Date.UTC answers as ECMAScript's: a year alone is given a month.
LEMMA MadeUTC ==
  ASSUME NEW N, Within(N), DatesAssumption, NEW args, Arguments(args, N), NEW st
  PROVE  DateUTC(args, st) = JsMake(args, TRUE, st)
<1> DEFINE k == Len(args)
           z == Num(0)
           a == Arg(args, 0)
           pair == <<a, z>>
           c == ToNumber(a, st)
<1>1. PICK S : args \in Seq(S) BY Zenon DEF Arguments
<1>2. k \in Nat /\ (args = <<>> <=> k = 0) BY <1>1, SMT
<1>3. DateUTC(args, st) = IF k < 2 THEN MakeDate(pair, TRUE, st) ELSE MakeDate(args, TRUE, st) BY Zenon DEF DateUTC
<1>4. TRUE \in BOOLEAN OBVIOUS
<1>5. MakeDate(args, TRUE, st) = JsMake(args, TRUE, st) BY <1>4, Made
<1>6. CASE k < 2
  <2>1. Count(args, 7) = 1
    <3>1. Count(args, 7) = IF k = 0 THEN 1 ELSE IF k > 7 THEN 7 ELSE k BY <1>2, Zenon DEF Count
    <3> HIDE DEF k
    <3> QED BY <1>2, <1>6, <3>1, SMT
  <2>2. z[1] # "conv" /\ Argument(z, N) /\ Argument(a, N)
    <3>1. z[1] # "conv" BY SMT DEF Num
    <3>2. 0 \in (-N)..N
      <4>1. N \in Nat BY WithinFacts
      <4> QED BY <4>1, SMT
    <3>3. z \in Numeric(N) BY <3>2, Zenon DEF Numeric
    <3> HIDE DEF z
    <3>4. Argument(z, N) BY <3>3, Zenon DEF Argument
    <3> QED BY <3>1, <3>4, FirstArgument
  <2> HIDE DEF z, a
  <2>3. pair \in Seq({a, z}) /\ Len(pair) = 2 /\ pair[1] = a /\ pair[2] = z /\ DOMAIN pair = 1..2 BY SMT
  <2> HIDE DEF pair
  <2>4. Arguments(pair, N)
    <3>1. \A i \in 1..2 : \A j \in (i + 1)..2 : j = 2 BY SMT
    <3>2. EndsAtNaN(pair) BY <2>2, <2>3, <3>1, Zenon DEF EndsAtNaN
    <3>3. \A x \in {a, z} : Argument(x, N) BY <2>2
    <3> QED BY <2>3, <3>2, <3>3, Zenon DEF Arguments
  <2>5. Count(pair, 7) = 2
    <3>1. pair # <<>> /\ ~(2 > 7) BY <2>3, SMT
    <3> QED BY <2>3, <3>1, Zenon DEF Count
  <2>6. Arg(pair, 0) = a /\ Arg(pair, 1) = z
    <3>1. 0 < 2 /\ 1 < 2 /\ 0 + 1 = 1 /\ 1 + 1 = 2 BY SMT
    <3> QED BY <2>3, <3>1, Zenon DEF Arg
  <2>7. JsMake(pair, TRUE, st) = JsMakeTo(Numbers(pair, 2, st), 2, TRUE) BY <2>3, <2>5, JsMakes
  <2>8. JsMake(args, TRUE, st) = JsMakeTo(Numbers(args, 1, st), 1, TRUE) BY <1>1, <2>1, JsMakes
  <2>9. Numbers(pair, 2, st) = IF c.err THEN c ELSE Ok(<<c.v, z>>, c.st)
    <3>1. c = ToNumber(Arg(pair, 0), st) BY <2>6
    <3> HIDE DEF c
    <3> QED BY <2>2, <2>6, <3>1, NumbersTwo
  <2>10. Numbers(args, 1, st) = IF c.err THEN c ELSE Ok(<<c.v>>, c.st)
    <3>1. c = ToNumber(Arg(args, 0), st) BY DEF a
    <3> HIDE DEF c
    <3> QED BY <3>1, NumbersOne
  <2> HIDE DEF c
  <2>11. JsMake(pair, TRUE, st) = JsMake(args, TRUE, st)
    <3>1. z = Num(0) BY DEF z
    <3>2. JsMakeTo(IF c.err THEN c ELSE Ok(<<c.v, z>>, c.st), 2, TRUE)
            = JsMakeTo(IF c.err THEN c ELSE Ok(<<c.v>>, c.st), 1, TRUE) BY <3>1, YearAlone
    <3> QED BY <2>7, <2>8, <2>9, <2>10, <3>2
  <2>12. MakeDate(pair, TRUE, st) = JsMake(pair, TRUE, st) BY <1>4, <2>4, Made
  <2> QED BY <1>3, <1>6, <2>11, <2>12
<1>7. CASE ~(k < 2) BY <1>3, <1>5, <1>7
<1> QED BY <1>6, <1>7

\* date.go, makeDate and Date.UTC: the constructors answer the time of ECMAScript's,
\* with its conversions in its order, whatever the arguments.  (makeDate goes by
\* fields only from two arguments on; of NewDate with fewer this says nothing.)
THEOREM ConstructorsAsInJavaScript ==
  ASSUME NEW N, Within(N), DatesAssumption, NEW args, Arguments(args, N), NEW st
  PROVE  NewDate(args, st) = JsMake(args, FALSE, st) /\ DateUTC(args, st) = JsMake(args, TRUE, st)
<1>1. FALSE \in BOOLEAN OBVIOUS
<1>2. MakeDate(args, FALSE, st) = JsMake(args, FALSE, st) BY <1>1, Made
<1> QED BY <1>2, MadeUTC, Zenon DEF NewDate
---------------------------------------------------------------------------
(* The calls of MCDates.                                                   *)

\* Arguments up to N, in any order.
Listed(args, N) == \E S : args \in Seq(S) /\ \A a \in S : Argument(a, N)

\* The inputs may be any: arguments up to N, and dates.
Inputs(N) ==
  /\ \A args \in DateLists : Listed(args, N)
  /\ \A y \in DateYears : Argument(y, N)
  /\ \A t \in DateStarts : IsDate(t)

\* What is called.
Call(x, N) ==
  \E m, utc, args, t :
    /\ x = <<"date", m, utc, args, t>> /\ Listed(args, N)
    /\ \/ m \in Methods /\ utc \in BOOLEAN /\ IsDate(t)
       \/ m \in {"new", "UTC"} /\ utc = (m = "UTC")
Begun(t) == [date |-> t, trace |-> <<>>]
Answer(x) ==
  CASE x[2] = "new" -> NewDate(x[4], Begun(x[5]))
    [] x[2] = "UTC" -> DateUTC(x[4], Begun(x[5]))
    [] OTHER -> Setter(x[2], x[3], x[4], Begun(x[5]))
JsAnswer(x) ==
  IF x[2] \in {"new", "UTC"} THEN JsMake(x[4], x[3], Begun(x[5]))
  ELSE IF x[2] = "setTime" THEN JsSetTime(x[4], Begun(x[5]))
  ELSE JsSetter(x[2], x[3], x[4], Begun(x[5]))

\* The inductive invariant: nothing has run, or what was called is a call of the
\* kind above and the answer, if there is one, is its answer.
Answered(N) ==
  \/ Idle /\ output = <<>>
  \/ Call(input, N) /\ (output = <<>> \/ output = <<Answer(input)>>)

LEMMA Begins ==
  ASSUME NEW t
  PROVE  Begun(t).date = t /\ (t = NoTime => Unset(Begun(t)))
<1>1. Begun(t).date = t BY SMT DEF Begun
<1>2. ASSUME t = NoTime PROVE [Begun(t) EXCEPT !.date = NoTime] = Begun(t) BY <1>2, SMT DEF Begun
<1> QED BY <1>1, <1>2 DEF Unset

\* The answer to a call that Agrees keeps is ECMAScript's.
LEMMA CallAgrees ==
  ASSUME DatesAssumption, NEW N, Within(N), NEW x, Call(x, N), Agrees(x[2], x[4], x[5])
  PROVE  Answer(x) = JsAnswer(x)
<1>1. PICK m, utc, args, t :
        /\ x = <<"date", m, utc, args, t>> /\ Listed(args, N)
        /\ \/ m \in Methods /\ utc \in BOOLEAN /\ IsDate(t)
           \/ m \in {"new", "UTC"} /\ utc = (m = "UTC") BY Zenon DEF Call
<1>2. x[2] = m /\ x[3] = utc /\ x[4] = args /\ x[5] = t BY <1>1, SMT
<1>3. /\ EndsAtNaN(args)
      /\ m \in Methods => Settles(args, t)
      /\ m = "setMilliseconds" => Whole(t) BY <1>2, Zenon DEF Agrees
<1>4. Arguments(args, N) BY <1>1, <1>3, Zenon DEF Arguments, Listed
<1> DEFINE st == Begun(t)
<1>5. st.date = t /\ (t = NoTime => Unset(st)) BY Begins
<1> HIDE DEF st
<1>6. Answer(x) = CASE m = "new" -> NewDate(args, st) [] m = "UTC" -> DateUTC(args, st)
                    [] OTHER -> Setter(m, utc, args, st) BY <1>2, Zenon DEF Answer, st
<1>7. JsAnswer(x) = IF m \in {"new", "UTC"} THEN JsMake(args, utc, st)
                    ELSE IF m = "setTime" THEN JsSetTime(args, st) ELSE JsSetter(m, utc, args, st)
  BY <1>2, Zenon DEF JsAnswer, st
<1>8. CASE m = "new"
  <2>1. m # "UTC" BY <1>8, SMT
  <2>2. m \notin Methods BY <1>8, SMT DEF Methods
  <2>3. utc = FALSE BY <1>1, <2>1, <2>2
  <2>4. NewDate(args, st) = JsMake(args, FALSE, st) BY <1>4, ConstructorsAsInJavaScript
  <2>5. Answer(x) = NewDate(args, st) BY <1>6, <1>8, <2>1, Zenon
  <2>6. JsAnswer(x) = JsMake(args, FALSE, st) BY <1>7, <1>8, <2>3, Zenon
  <2> QED BY <2>4, <2>5, <2>6
<1>9. CASE m = "UTC"
  <2>1. m # "new" BY <1>9, SMT
  <2>2. m \notin Methods BY <1>9, SMT DEF Methods
  <2>3. utc = TRUE BY <1>1, <1>9, <2>2
  <2>4. DateUTC(args, st) = JsMake(args, TRUE, st) BY <1>4, ConstructorsAsInJavaScript
  <2>5. Answer(x) = DateUTC(args, st) BY <1>6, <1>9, <2>1, Zenon
  <2>6. JsAnswer(x) = JsMake(args, TRUE, st) BY <1>7, <1>9, <2>3, Zenon
  <2> QED BY <2>4, <2>5, <2>6
<1>10. CASE m # "new" /\ m # "UTC"
  <2>1. m \in Methods /\ utc \in BOOLEAN /\ IsDate(t) /\ Settles(args, t) /\ (m = "setMilliseconds" => Whole(t))
    BY <1>1, <1>3, <1>10
  <2>2. IsDate(st.date) /\ (st.date = NoTime => Unset(st)) /\ Settles(args, st.date)
        /\ (m = "setMilliseconds" => Whole(st.date)) BY <1>5, <2>1
  <2>3. Setter(m, utc, args, st) = IF m = "setTime" THEN JsSetTime(args, st) ELSE JsSetter(m, utc, args, st)
    BY <1>4, <2>1, <2>2, SettersAsInJavaScript
  <2>4. Answer(x) = Setter(m, utc, args, st) BY <1>6, <1>10, Zenon
  <2>5. JsAnswer(x) = IF m = "setTime" THEN JsSetTime(args, st) ELSE JsSetter(m, utc, args, st)
    BY <1>7, <1>10, Zenon
  <2> QED BY <2>3, <2>4, <2>5
<1> QED BY <1>8, <1>9, <1>10

LEMMA NotIdle ==
  ASSUME Idle, NEW N
  PROVE  ~Call(input, N)
<1>1. SUFFICES ASSUME Call(input, N) PROVE FALSE OBVIOUS
<1>2. PICK m, utc, args, t : input = <<"date", m, utc, args, t>> BY <1>1 DEF Call
<1> QED BY <1>2, SMT DEF Idle

\* The year and what follows it.
LEMMA ListedAfter ==
  ASSUME NEW N, NEW y, Argument(y, N), NEW args, Listed(args, N)
  PROVE  Listed(<<y>> \o args, N)
<1>1. PICK S : args \in Seq(S) /\ \A a \in S : Argument(a, N) BY Zenon DEF Listed
<1> DEFINE U == S \cup {y}
           all == <<y>> \o args
<1>2. \A a \in U : Argument(a, N) BY <1>1
<1>3. all \in Seq(U) BY <1>1, SMT
<1> HIDE DEF U, all
<1>4. Listed(all, N) BY <1>2, <1>3, Zenon DEF Listed
<1> QED BY <1>4 DEF all

\* Answered is inductive.
LEMMA Steps ==
  ASSUME NEW N, Inputs(N), Answered(N), [DateNext]_dateVars
  PROVE  Answered(N)'
<1>1. CASE RunSetter
  <2>1. PICK m \in Methods, utc \in BOOLEAN, args \in DateLists, t \in DateStarts :
          input' = <<"date", m, utc, args, t>> /\ output' = output
    BY <1>1, Zenon DEF RunSetter
  <2>2. Listed(args, N) /\ IsDate(t) BY Zenon DEF Inputs
  <2>3. Call(input', N) BY <2>1, <2>2, Zenon DEF Call
  <2>4. output = <<>>
    <3>1. Idle BY <1>1 DEF RunSetter
    <3>2. ~Call(input, N) BY <3>1, NotIdle
    <3> QED BY <3>2 DEF Answered
  <2> QED BY <2>1, <2>3, <2>4 DEF Answered
<1>2. CASE RunMake
  <2>1. PICK m \in {"new", "UTC"}, y \in DateYears, args \in DateLists :
          input' = <<"date", m, m = "UTC", <<y>> \o args, NoTime>> /\ output' = output
    BY <1>2, Zenon DEF RunMake
  <2> DEFINE all == <<y>> \o args
             b == (m = "UTC")
  <2>2. Listed(all, N)
    <3>1. Argument(y, N) /\ Listed(args, N) BY Zenon DEF Inputs
    <3> QED BY <3>1, ListedAfter
  <2>3. input' = <<"date", m, b, all, NoTime>> BY <2>1
  <2>4. b = (m = "UTC") OBVIOUS
  <2> HIDE DEF all, b
  <2>5. Call(input', N) BY <2>2, <2>3, <2>4, Zenon DEF Call
  <2>6. output = <<>>
    <3>1. Idle BY <1>2 DEF RunMake
    <3>2. ~Call(input, N) BY <3>1, NotIdle
    <3> QED BY <3>2 DEF Answered
  <2> QED BY <2>1, <2>5, <2>6 DEF Answered
<1>3. CASE AnswerDate
  <2>1. input[1] = "date" /\ output' = <<Answer(input)>> /\ input' = input
    BY <1>3, Zenon DEF AnswerDate, Answer, Begun
  <2>2. ~Idle BY <2>1, SMT DEF Idle
  <2>3. Call(input, N) BY <2>2 DEF Answered
  <2>4. output' = <<Answer(input')>> BY <2>1
  <2> QED BY <2>1, <2>3, <2>4 DEF Answered
<1>4. CASE UNCHANGED dateVars
  <2>1. input' = input /\ output' = output BY <1>4 DEF dateVars
  <2> QED BY <2>1 DEF Answered, Idle
<1> QED BY <1>1, <1>2, <1>3, <1>4 DEF DateNext

\* README.md, "every natively accepted script matches exactly": whatever date a
\* setter meets and whatever numbers up to N, NaN or objects converted to them it
\* or a constructor by fields is given, the answer, the date left behind and the
\* order of conversions are ECMAScript's, but for the calls that Agrees leaves
\* out: a conversion after a NaN, an unset date given a NaN and a conversion, and
\* milliseconds set on a date before 1970 between two seconds.  The zone has a
\* constant offset.
THEOREM DatesMatch ==
  ASSUME DatesAssumption, NEW N, Within(N), Inputs(N)
  PROVE  DateSpec => []DatesAsInJavaScript
<1>1. DateInit => Answered(N) BY DEF DateInit, Answered, Idle
<1>2. Answered(N) /\ [DateNext]_dateVars => Answered(N)' BY Steps
<1>3. Answered(N) => DatesAsInJavaScript
  <2>1. SUFFICES ASSUME Answered(N), input[1] = "date", output # <<>>, Agrees(input[2], input[4], input[5])
                 PROVE  output[1] = JsAnswer(input)
    BY Zenon DEF DatesAsInJavaScript, JsAnswer, Begun
  <2>2. ~Idle BY <2>1, SMT DEF Idle
  <2>3. Call(input, N) /\ output = <<Answer(input)>> BY <2>1, <2>2 DEF Answered
  <2> DEFINE a == Answer(input)
  <2>4. a = JsAnswer(input) BY <2>1, <2>3, CallAgrees
  <2> HIDE DEF a
  <2>5. output = <<a>> BY <2>3 DEF a
  <2>6. output[1] = a BY <2>5, SMT
  <2> QED BY <2>4, <2>6
<1> QED BY <1>1, <1>2, <1>3, PTL DEF DateSpec
=============================================================================
