-------------------------------- MODULE JsText --------------------------------
(***************************************************************************)
(* The string and RegExp methods of ECMAScript over sequences of UTF-16    *)
(* units.  Nothing here is translated from the repository.                 *)
(***************************************************************************)
EXTENDS TextValues

\* What a host sees of a value: halves of a character that stand alone become
\* U+FFFD (README, Fidelity).
RECURSIVE Well(_)
Well(v) ==
  CASE v[1] = "str" -> Str(FromUnits(v[2]))
    [] v[1] = "list" -> <<"list", [i \in DOMAIN v[2] |-> Well(v[2][i])]>>
    [] v[1] = "match" -> <<"match", [i \in DOMAIN v[2] |-> Well(v[2][i])], v[3], Well(v[4])>>
    [] v[1] = "groups" -> <<"groups", [n \in DOMAIN v[2] |-> Well(v[2][n])]>>
    [] OTHER -> v
WellEvent(e) == IF e[1] = "call" THEN <<"call", [i \in DOMAIN e[2] |-> Well(e[2][i])]>> ELSE e
WellResult(r) == [r EXCEPT !.v = Well(@), !.st.trace = [i \in DOMAIN @ |-> WellEvent(@[i])]]

JsSub(u, from, to) == SubSeq(u, from + 1, to)
IsAt(u, sub, k) == k + Len(sub) <= Len(u) /\ JsSub(u, k, k + Len(sub)) = sub
Places(u, sub) == {k \in 0..Len(u) : IsAt(u, sub, k)}
LeastOr(S, none) == IF S = {} THEN none ELSE Least(S)
Max0(n) == IF n < 0 THEN 0 ELSE n
Min2(m, n) == IF m < n THEN m ELSE n

---------------------------------------------------------------------------
\* Argument conversions, in order: "text", "number", "integer".
RECURSIVE Converted(_, _, _, _)
Converted(hints, args, vs, st) ==
  IF hints = <<>> THEN Ok(vs, st)
  ELSE LET i == Len(vs) + 1
           r == IF hints[1] = "text" THEN ToText(Arg(args, i), st) ELSE ToNumber(Arg(args, i), st)
       IN  Then(r, LAMBDA x, s : Converted(Tail(hints), args, Append(vs, x), s))

Hints(m) ==
  CASE m \in {"at", "charAt", "charCodeAt", "codePointAt", "repeat"} -> <<"number">>
    [] m \in {"indexOf", "lastIndexOf", "includes", "startsWith", "endsWith"} -> <<"text", "number">>
    [] m \in {"slice", "substring", "substr"} -> <<"number", "number">>

\* The result of a method on u, given its converted arguments and which of them
\* were undefined.
Pure(m, u, x, absent) ==
  LET n == Len(u)
      i == IntegerOf(x[1])
      j == IntegerOf(x[2])
      relative(k) == IF k < 0 THEN Max0(n + k) ELSE Min2(k, n)
      clamped(k) == Clamp(k, 0, n)
      from == relative(i)
      lo == clamped(i)
      hi == IF absent THEN n ELSE clamped(j)
      inside == i >= 0 /\ i < n
  IN  CASE m = "at" -> LET k == IF i < 0 THEN n + i ELSE i
                       IN  IF k \in 0..(n - 1) THEN Str(<<u[k + 1]>>) ELSE Undefined
        [] m = "charAt" -> IF inside THEN Str(<<u[i + 1]>>) ELSE Str(<<>>)
        [] m = "charCodeAt" -> IF inside THEN <<"code", <<u[i + 1]>>>> ELSE NaN
        [] m = "codePointAt" ->
             IF ~inside THEN Undefined
             ELSE IF u[i + 1] = "H" /\ IsAt(u, <<"L">>, i + 1) THEN <<"code", <<"H", "L">>>> ELSE <<"code", <<u[i + 1]>>>>
        [] m = "slice" -> Str(JsSub(u, from, IF absent THEN n ELSE relative(j)))
        [] m = "substring" -> Str(JsSub(u, Min2(lo, hi), IF lo < hi THEN hi ELSE lo))
        [] m = "substr" -> Str(JsSub(u, from, IF absent THEN n ELSE Min2(from + Max0(j), n)))
        [] m = "indexOf" -> Num(LeastOr({k \in Places(u, x[1]) : k >= clamped(j)}, -1))
        [] m = "includes" -> Bool(\E k \in Places(u, x[1]) : k >= clamped(j))
        [] m = "startsWith" -> Bool(clamped(j) \in Places(u, x[1]))
        [] m = "endsWith" -> Bool(hi - Len(x[1]) \in Places(u, x[1]))
        [] m = "lastIndexOf" ->
             LET found == {k \in Places(u, x[1]) : x[2] = NaN \/ k <= clamped(j)}
             IN  Num(IF found = {} THEN -1 ELSE Greatest(found))

Second(m, args) ==
  IF m \in {"at", "charAt", "charCodeAt", "codePointAt"} THEN <<"number">>
  ELSE IF m \in {"endsWith", "slice", "substring", "substr"} /\ Arg(args, 2) = Undefined THEN SubSeq(Hints(m), 1, 1)
  ELSE Hints(m)

RECURSIVE JsConcat(_, _, _)
JsConcat(u, args, st) ==
  IF args = <<>> THEN Ok(Str(u), st)
  ELSE Then(ToText(args[1], st), LAMBDA t, s : JsConcat(u \o t, Tail(args), s))

JsPad(u, args, start, st) ==
  Then(ToInteger(Arg(args, 1), st), LAMBDA n, s :
    IF n <= Len(u) THEN Ok(Str(u), s)
    ELSE Then(IF Arg(args, 2) = Undefined THEN Ok(<<" ">>, s) ELSE ToText(args[2], s), LAMBDA fill, t :
      LET need == n - Len(u)
          filler == SubSeq(FlattenSeq([i \in 1..need |-> fill]), 1, need)
      IN  Ok(Str(IF fill = <<>> THEN u ELSE IF start THEN filler \o u ELSE u \o filler), t)))

RECURSIVE SplitAt(_, _, _)
SplitAt(u, sep, from) ==
  LET at == {k \in Places(u, sep) : k >= from}
  IN  IF at = {} THEN <<Str(JsSub(u, from, Len(u)))>>
      ELSE <<Str(JsSub(u, from, Least(at)))>> \o SplitAt(u, sep, Least(at) + Len(sep))
JsSplit(u, args, st) ==
  Then(Limit(Arg(args, 2), st), LAMBDA limit, s : Then(ToText(Arg(args, 1), s), LAMBDA sep, t :
    LET whole == CASE Arg(args, 1) = Undefined -> <<Str(u)>>
                   [] Arg(args, 1) # Undefined /\ sep = <<>> -> [i \in DOMAIN u |-> Str(<<u[i]>>)]
                   [] OTHER -> SplitAt(u, sep, 0)
    IN  Ok(<<"list", IF limit >= 0 /\ limit < Len(whole) THEN SubSeq(whole, 1, limit) ELSE whole>>, t)))

---------------------------------------------------------------------------
\* GetSubstitution.  captures are the groups; named is Undefined or <<"groups", f>>.
RECURSIVE GetSubstitution(_, _, _, _, _, _)
GetSubstitution(matched, u, position, captures, named, template) ==
  LET Go(text, n) == text \o GetSubstitution(matched, u, position, captures, named,
                                             SubSeq(template, n + 1, Len(template)))
      Is(text) == IsAt(template, text, 0)
      digits == {ToString(d) : d \in 0..9}
      Number(n) == CHOOSE k \in 0..99 : k = LET V(c) == CHOOSE d \in 0..9 : ToString(d) = c
                                           IN  IF n = 1 THEN V(template[2]) ELSE 10 * V(template[2]) + V(template[3])
      count == IF Len(template) < 2 \/ template[2] \notin digits THEN 0
               ELSE IF Len(template) < 3 \/ template[3] \notin digits THEN 1
               ELSE IF Number(2) > Len(captures) THEN 1 ELSE 2
      ends == Places(template, <<">">>)
      name == JsSub(template, 2, Least(ends))
      TextIn(c) == IF c = Undefined THEN <<>> ELSE c[2]
  IN  IF template = <<>> THEN <<>>
      ELSE IF Is(<<"$", "$">>) THEN Go(<<"$">>, 2)
      ELSE IF Is(<<"$", "before">>) THEN Go(JsSub(u, 0, position), 2)
      ELSE IF Is(<<"$", "&">>) THEN Go(matched, 2)
      ELSE IF Is(<<"$", "after">>) THEN Go(JsSub(u, Min2(position + Len(matched), Len(u)), Len(u)), 2)
      ELSE IF template[1] = "$" /\ count > 0
           THEN IF Number(count) \in 1..Len(captures) THEN Go(TextIn(captures[Number(count)]), 1 + count)
                ELSE Go(SubSeq(template, 1, 1 + count), 1 + count)
      ELSE IF Is(<<"$", "<">>) /\ named # Undefined /\ ends # {}
           THEN Go(LET f == named[2] IN IF \E n \in DOMAIN f : <<n>> = name
                                        THEN TextIn(f[CHOOSE n \in DOMAIN f : <<n>> = name]) ELSE <<>>, Least(ends) + 1)
      ELSE Go(<<template[1]>>, 1)

\* The replacement of each match, in turn; a match is [at, to, captures, named].
RECURSIVE Spliced(_, _, _, _, _)
Spliced(u, found, repl, from, st) ==
  IF found = <<>> THEN Ok(Str(JsSub(u, from, Len(u))), st)
  ELSE LET m == found[1]
           matched == JsSub(u, m.at, m.to)
           args == <<Str(matched)>> \o m.captures \o <<Num(m.at), Str(u)>>
                     \o (IF m.named = Undefined THEN <<>> ELSE <<m.named>>)
           r == IF repl[1] = "fun" THEN Then(Call(repl, args, st), LAMBDA v, s : ToText(v, s))
                ELSE Ok(GetSubstitution(matched, u, m.at, m.captures, m.named, repl[2]), st)
       IN  Then(r, LAMBDA text, s : Then(Spliced(u, Tail(found), repl, m.to, s), LAMBDA rest, t :
             Ok(Str(JsSub(u, from, m.at) \o text \o rest[2]), t)))

Replacement(v, st) == IF v[1] = "fun" THEN Ok(v, st) ELSE Then(ToText(v, st), LAMBDA t, s : Ok(Str(t), s))

RECURSIVE Occurrences(_, _, _)
Occurrences(u, pat, from) ==
  LET at == {k \in Places(u, pat) : k >= from}
  IN  IF at = {} THEN <<>>
      ELSE <<[at |-> Least(at), to |-> Least(at) + Len(pat), captures |-> <<>>, named |-> Undefined]>>
             \o Occurrences(u, pat, Least(at) + (IF pat = <<>> THEN 1 ELSE Len(pat)))
JsReplace(u, args, all, st) ==
  Then(ToText(Arg(args, 1), st), LAMBDA pat, s : Then(Replacement(Arg(args, 2), s), LAMBDA repl, t :
    LET found == Occurrences(u, pat, 0)
    IN  Spliced(u, IF all \/ found = <<>> THEN found ELSE SubSeq(found, 1, 1), repl, 0, t)))

JsStringMethod(m, u, args, st) ==
  CASE m = "concat" -> JsConcat(u, args, st)
    [] m = "repeat" -> Then(ToInteger(Arg(args, 1), st), LAMBDA n, s :
         IF n < 0 \/ n = Infinity THEN Throw(RangeError, s) ELSE Ok(Str(FlattenSeq([i \in 1..n |-> u])), s))
    [] m \in {"padStart", "padEnd"} -> JsPad(u, args, m = "padStart", st)
    [] m = "split" -> JsSplit(u, args, st)
    [] m \in {"replace", "replaceAll"} -> JsReplace(u, args, m = "replaceAll", st)
    [] OTHER -> Then(Converted(Second(m, args), args, <<>>, st), LAMBDA x, s :
         Ok(Pure(m, u, IF Len(x) = 1 THEN Append(x, NaN) ELSE x, Arg(args, 2) = Undefined), s))

---------------------------------------------------------------------------
\* RegExpBuiltinExec: the loop over start positions, from lastIndex.
RECURSIVE TryFrom(_, _, _)
TryFrom(re, u, i) ==
  CASE i > Len(u) -> <<>>
    [] i <= Len(u) /\ re.hits[i] # <<>> -> <<[at |-> i] @@ re.hits[i][1]>>
    [] OTHER -> IF re.sticky THEN <<>> ELSE TryFrom(re, u, i + 1)

JsLast(n, st) == [st EXCEPT !.lastIndex = Num(n)]
JsExecBuiltin(re, u, st) ==
  LET indexed == re.global \/ re.sticky
  IN  Then(IF indexed THEN ToInteger(st.lastIndex, st) ELSE Ok(0, st), LAMBDA n, s :
        LET m == TryFrom(re, u, Max0(n))
        IN  Ok(m, IF ~indexed THEN s ELSE JsLast(IF m = <<>> THEN 0 ELSE m[1].to, s)))

JsCaptures(m, u) ==
  [i \in DOMAIN m.groups |-> IF m.groups[i] = <<>> THEN Undefined ELSE Str(JsSub(u, m.groups[i][1], m.groups[i][2]))]
JsNamed(re, m, u) ==
  LET of == {i \in DOMAIN re.names : re.names[i] # ""}
  IN  IF of = {} THEN Undefined
      ELSE <<"groups", [n \in {re.names[i] : i \in of} |-> JsCaptures(m, u)[CHOOSE i \in of : re.names[i] = n]]>>
JsMatchArray(re, m, u) ==
  <<"match", <<Str(JsSub(u, m.at, m.to))>> \o JsCaptures(m, u), m.at, JsNamed(re, m, u)>>
OrNull(re, found, u) == IF found = <<>> THEN Null ELSE JsMatchArray(re, found[1], u)

\* A global expression: exec until it fails, past each empty match by one unit.
RECURSIVE All(_, _, _, _)
All(re, u, found, st) ==
  Then(JsExecBuiltin(re, u, st), LAMBDA m, s :
    IF m = <<>> THEN Ok(found, s)
    ELSE All(re, u, Append(found, m[1]), IF m[1].at = m[1].to THEN JsLast(m[1].to + 1, s) ELSE s))
Matches(re, u, st) ==
  IF re.global THEN All(re, u, <<>>, JsLast(0, st)) ELSE JsExecBuiltin(re, u, st)

RECURSIVE JsSplitFrom(_, _, _, _)
JsSplitFrom(re, u, p, q) ==
  IF q >= Len(u) THEN <<Str(JsSub(u, p, Len(u)))>>
  ELSE IF re.hits[q] = <<>> \/ re.hits[q][1].to = p THEN JsSplitFrom(re, u, p, q + 1)
  ELSE LET m == [at |-> q] @@ re.hits[q][1]
       IN  <<Str(JsSub(u, p, q))>> \o JsCaptures(m, u) \o JsSplitFrom(re, u, m.to, m.to)

JsRegexpMethod(m, re, args, u, st) ==
  CASE m = "exec" -> Then(ToText(Arg(args, 1), st), LAMBDA text, s :
         Then(JsExecBuiltin(re, text, s), LAMBDA r, t : Ok(OrNull(re, r, text), t)))
    [] m = "test" -> Then(ToText(Arg(args, 1), st), LAMBDA text, s :
         Then(JsExecBuiltin(re, text, s), LAMBDA r, t : Ok(Bool(r # <<>>), t)))
    [] m = "match" -> Then(Matches(re, u, st), LAMBDA ms, s :
         Ok(IF ~re.global THEN OrNull(re, ms, u)
            ELSE IF ms = <<>> THEN Null
            ELSE <<"list", [i \in DOMAIN ms |-> Str(JsSub(u, ms[i].at, ms[i].to))]>>, s))
    [] m = "search" -> Then(JsExecBuiltin(re, u, JsLast(0, st)), LAMBDA r, s :
         Ok(Num(IF r = <<>> THEN -1 ELSE r[1].at), [s EXCEPT !.lastIndex = st.lastIndex]))
    [] m \in {"replace", "replaceAll"} ->
         IF m = "replaceAll" /\ ~re.global THEN Throw(TypeError, st)
         ELSE Then(Replacement(Arg(args, 1), st), LAMBDA repl, s : Then(Matches(re, u, s), LAMBDA ms, t :
           Spliced(u, [i \in DOMAIN ms |-> [at |-> ms[i].at, to |-> ms[i].to, captures |-> JsCaptures(ms[i], u),
                                            named |-> JsNamed(re, ms[i], u)]], repl, 0, t)))
    [] m = "split" -> Then(Limit(Arg(args, 1), st), LAMBDA limit, s :
         LET whole == IF u # <<>> THEN JsSplitFrom(re, u, 0, 0)
                      ELSE IF re.hits[0] # <<>> THEN <<>> ELSE <<Str(u)>>
         IN  Ok(<<"list", IF limit >= 0 /\ limit < Len(whole) THEN SubSeq(whole, 1, limit) ELSE whole>>, s))
=============================================================================
