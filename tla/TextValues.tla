------------------------------ MODULE TextValues ------------------------------
(***************************************************************************)
(* Strings as sequences of UTF-16 units, and the conversions of arguments  *)
(* to strings and numbers, which may run code of the script.  A unit is a  *)
(* letter, "H" and "L" are the two halves of a character beyond 16 bits,   *)
(* "?" is U+FFFD; "before" and "after" are the quotes that replacement     *)
(* templates name what is around the match with.  A value is a tuple       *)
(* headed by its type:                                                     *)
(*   <<"undefined">> <<"bool", b>> <<"num", n>> <<"nan">> <<"str", units>>   *)
(*   <<"list", values>> <<"fun", f>>                                       *)
(*   <<"conv", id, out, sets>>  an object whose toString and valueOf return *)
(*   out, after they set lastIndex to sets[1], if there is one; they throw *)
(*   when out is <<"thrown">>.                                             *)
(* st has the lastIndex of the regular expression and the trace of calls.  *)
(***************************************************************************)
EXTENDS Integers, Sequences, FiniteSets, TLC, SequencesExt

Undefined == <<"undefined">>
Null == <<"null">>
NaN == <<"nan">>
Num(n) == <<"num", n>>
Str(u) == <<"str", u>>
Bool(b) == <<"bool", b>>
TypeError == <<"TypeError">>
RangeError == <<"RangeError">>
Infinity == 1000                  \* and its negative: beyond every length

Ok(v, st) == [k |-> "none", v |-> v, st |-> st]
Throw(v, st) == [k |-> "throw", v |-> v, st |-> st]
Then(r, Op(_, _)) == IF r.k = "none" THEN Op(r.v, r.st) ELSE r
Log(event, st) == [st EXCEPT !.trace = Append(@, event)]

Arg(args, i) == IF i <= Len(args) THEN args[i] ELSE Undefined
Least(S) == CHOOSE x \in S : \A y \in S : x <= y
Greatest(S) == CHOOSE x \in S : \A y \in S : x >= y
Clamp(n, low, high) == IF n < low THEN low ELSE IF n > high THEN high ELSE n

---------------------------------------------------------------------------
\* value.go: the conversions, once per use.
Convert(v, hint, st) ==
  IF v[1] # "conv" THEN Ok(v, st)
  ELSE LET s == Log(<<hint, v[2]>>, IF v[4] = <<>> THEN st ELSE [st EXCEPT !.lastIndex = v[4][1]])
       IN  IF v[3] = <<"thrown">> THEN Throw(v[3], s) ELSE Ok(v[3], s)

\* Stand-ins for the text of what is no string.
TextOf(v) ==
  CASE v[1] = "str" -> v[2]
    [] v[1] = "undefined" -> <<"u">>
    [] v[1] = "num" -> IF v[2] \in 0..9 THEN <<ToString(v[2])>> ELSE <<"-", "1">>
    [] OTHER -> <<"x">>
NumberOf(v) ==
  CASE v[1] = "num" -> v
    [] v = Str(<<>>) -> Num(0)
    [] v[1] = "str" /\ v[2] \in {<<ToString(d)>> : d \in 0..9} -> Num(CHOOSE d \in 0..9 : <<ToString(d)>> = v[2])
    [] OTHER -> NaN

ToText(v, st) == Then(Convert(v, "string", st), LAMBDA p, s : Ok(TextOf(p), s))
ToNumber(v, st) == Then(Convert(v, "number", st), LAMBDA p, s : Ok(NumberOf(p), s))
IntegerOf(n) == IF n = NaN THEN 0 ELSE n[2]           \* toIntegerOrInfinity
ToInteger(v, st) == Then(ToNumber(v, st), LAMBDA n, s : Ok(IntegerOf(n), s))

\* A call of a function of the script: it answers out, after setting lastIndex.
Call(f, args, st) ==
  LET s == Log(<<"call", args>>, IF f[4] = <<>> THEN st ELSE [st EXCEPT !.lastIndex = f[4][1]])
  IN  IF f[3] = <<"thrown">> THEN Throw(f[3], s) ELSE Ok(f[3], s)

---------------------------------------------------------------------------
\* Half of a character beyond 16 bits, alone.
Alone(u, i) ==
  \/ u[i] = "H" /\ (i = Len(u) \/ u[i + 1] # "L")
  \/ u[i] = "L" /\ (i = 1 \/ u[i - 1] # "H")
FromUnits(u) == [i \in DOMAIN u |-> IF Alone(u, i) THEN "?" ELSE u[i]]

\* The units from..to-1.
Cut(u, from, to) == FromUnits(SubSeq(u, from + 1, to))

\* value.go, builtins.go: positions from arguments.
ClampPos(v, length, st) ==
  IF v = Undefined THEN Ok(0, st) ELSE Then(ToInteger(v, st), LAMBDA n, s : Ok(Clamp(n, 0, length), s))
EndPos(v, length, st) == IF v = Undefined THEN Ok(length, st) ELSE ClampPos(v, length, st)
RelIndex(v, length, def, st) ==
  IF v = Undefined THEN Ok(def, st)
  ELSE Then(ToInteger(v, st), LAMBDA n, s : Ok(IF n < 0 THEN Clamp(length + n, 0, length) ELSE Clamp(n, 0, length), s))

\* toUint32 of a limit, -1 when there is none.
Limit(v, st) ==
  IF v = Undefined THEN Ok(-1, st)
  ELSE Then(ToInteger(v, st), LAMBDA n, s :
         Ok(CASE n \in {Infinity, -Infinity} -> 0 [] n < 0 -> Infinity [] OTHER -> n, s))
=============================================================================
