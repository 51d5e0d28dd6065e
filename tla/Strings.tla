------------------------------- MODULE Strings -------------------------------
(***************************************************************************)
(* The string methods of builtins.go that take positions, strings, and     *)
(* replacements; u is the receiver.                                        *)
(***************************************************************************)
EXTENDS TextValues

At(u, args, st) ==
  Then(ToInteger(Arg(args, 1), st), LAMBDA f, s :
    LET n == IF f < 0 THEN f + Len(u) ELSE f
    IN  Ok(IF n < 0 \/ n >= Len(u) THEN Undefined ELSE Str(Cut(u, n, n + 1)), s))

CharAt(u, args, st) ==
  Then(ToInteger(Arg(args, 1), st), LAMBDA n, s :
    Ok(IF n < 0 \/ n >= Len(u) THEN Str(<<>>) ELSE Str(Cut(u, n, n + 1)), s))

CharCodeAt(u, args, st) ==
  Then(ToInteger(Arg(args, 1), st), LAMBDA n, s :
    Ok(IF n < 0 \/ n >= Len(u) THEN NaN ELSE <<"code", <<u[n + 1]>>>>, s))

CodePointAt(u, args, st) ==
  Then(ToInteger(Arg(args, 1), st), LAMBDA n, s :
    Ok(CASE n < 0 \/ n >= Len(u) -> Undefined
         [] u[n + 1] \in {"H", "L"} /\ n + 1 < Len(u) /\ <<u[n + 1], u[n + 2]>> = <<"H", "L">> ->
              <<"code", <<"H", "L">>>>
         [] OTHER -> <<"code", <<u[n + 1]>>>>, s))

RECURSIVE Concat(_, _, _)
Concat(u, args, st) ==
  IF args = <<>> THEN Ok(Str(u), st)
  ELSE Then(ToText(args[1], st), LAMBDA t, s : Concat(u \o t, Tail(args), s))

Repeat(u, args, st) ==
  Then(ToInteger(Arg(args, 1), st), LAMBDA n, s :
    IF n < 0 \/ n = Infinity THEN Throw(RangeError, s) ELSE Ok(Str(FlattenSeq([i \in 1..n |-> u])), s))

---------------------------------------------------------------------------
\* The first, or last, place of sub in u.
UnitsEqual(u, at, sub) == SubSeq(u, at + 1, at + Len(sub)) = sub
RECURSIVE Index(_, _, _)
Index(u, sub, i) ==
  IF i + Len(sub) > Len(u) THEN -1 ELSE IF UnitsEqual(u, i, sub) THEN i ELSE Index(u, sub, i + 1)
RECURSIVE LastIndex(_, _, _)
LastIndex(u, sub, i) ==
  IF i < 0 THEN -1 ELSE IF UnitsEqual(u, i, sub) THEN i ELSE LastIndex(u, sub, i - 1)

Searching(u, args, st, Op(_, _)) ==
  Then(ToText(Arg(args, 1), st), LAMBDA sub, s :
    Then(ClampPos(Arg(args, 2), Len(u), s), LAMBDA start, t : Ok(Op(sub, start), t)))

IndexOf(u, args, st) == Searching(u, args, st, LAMBDA sub, start : Num(Index(u, sub, start)))
Includes(u, args, st) == Searching(u, args, st, LAMBDA sub, start : Bool(Index(u, sub, start) >= 0))
StartsWith(u, args, st) ==
  Searching(u, args, st, LAMBDA sub, start :
    Bool(start + Len(sub) <= Len(u) /\ Cut(u, start, start + Len(sub)) = sub))

EndsWith(u, args, st) ==
  Then(ToText(Arg(args, 1), st), LAMBDA sub, s :
    Then(EndPos(Arg(args, 2), Len(u), s), LAMBDA end, t :
      Ok(Bool(end >= Len(sub) /\ Cut(u, end - Len(sub), end) = sub), t)))

LastIndexOf(u, args, st) ==
  Then(ToText(Arg(args, 1), st), LAMBDA sub, s :
    Then(IF Arg(args, 2) = Undefined THEN Ok(NaN, s) ELSE ToNumber(args[2], s), LAMBDA n, t :
      LET start == Clamp(IF n = NaN THEN Infinity ELSE IntegerOf(n), 0, Len(u))
      IN  Ok(Num(LastIndex(u, sub, IF start < Len(u) - Len(sub) THEN start ELSE Len(u) - Len(sub))), t)))

---------------------------------------------------------------------------
Slice(u, args, st) ==
  Then(RelIndex(Arg(args, 1), Len(u), 0, st), LAMBDA from, s :
    Then(RelIndex(Arg(args, 2), Len(u), Len(u), s), LAMBDA to, t : Ok(Str(Cut(u, from, to)), t)))

Substring(u, args, st) ==
  Then(ClampPos(Arg(args, 1), Len(u), st), LAMBDA from, s :
    Then(EndPos(Arg(args, 2), Len(u), s), LAMBDA to, t :
      Ok(Str(IF from > to THEN Cut(u, to, from) ELSE Cut(u, from, to)), t)))

Substr(u, args, st) ==
  Then(RelIndex(Arg(args, 1), Len(u), 0, st), LAMBDA from, s :
    Then(EndPos(Arg(args, 2), Len(u) - from, s), LAMBDA length, t : Ok(Str(Cut(u, from, from + length)), t)))

\* The units of the filler, over and over.
Pad(u, args, start, st) ==
  Then(ToInteger(Arg(args, 1), st), LAMBDA target, s :
    IF target <= Len(u) THEN Ok(Str(u), s)
    ELSE Then(IF Arg(args, 2) = Undefined THEN Ok(<<" ">>, s) ELSE ToText(args[2], s), LAMBDA fill, t :
      LET pad == FromUnits([i \in 1..(target - Len(u)) |-> fill[((i - 1) % Len(fill)) + 1]])
      IN  Ok(Str(IF fill = <<>> THEN u ELSE IF start THEN pad \o u ELSE u \o pad), t)))

\* strings.SplitN: between the places of sep, found from left to right; without
\* sep, character by character.
RECURSIVE Parts(_, _, _)
Parts(u, sep, n) ==
  LET width == IF Len(u) >= 2 /\ <<u[1], u[2]>> = <<"H", "L">> THEN 2 ELSE 1
      at == IF sep = <<>> THEN width ELSE Index(u, sep, 0)
  IN  CASE sep = <<>> /\ u = <<>> -> <<>>
        [] n = 1 \/ at = -1 \/ (sep = <<>> /\ width = Len(u)) -> <<Str(u)>>
        [] OTHER -> <<Str(SubSeq(u, 1, at))>> \o Parts(SubSeq(u, at + Len(sep) + 1, Len(u)), sep, n - 1)

Split(u, args, st) ==
  Then(Limit(Arg(args, 2), st), LAMBDA limit, s :
    CASE limit = 0 -> Ok(<<"list", <<>>>>, s)
      [] limit # 0 /\ Arg(args, 1) = Undefined -> Ok(<<"list", <<Str(u)>>>>, s)
      [] OTHER -> Then(ToText(args[1], s), LAMBDA sep, t :
           LET parts == Parts(u, sep, IF limit > 0 THEN limit + 1 ELSE -1)
           IN  Ok(<<"list", IF limit > 0 /\ Len(parts) > limit THEN SubSeq(parts, 1, limit) ELSE parts>>, t)))

---------------------------------------------------------------------------
\* replace, replaceAll with a string pattern: where it is found.
RECURSIVE Positions(_, _, _, _)
Positions(u, pat, all, i) ==
  CASE i + Len(pat) > Len(u) -> <<>>
    [] i + Len(pat) <= Len(u) /\ ~UnitsEqual(u, i, pat) -> Positions(u, pat, all, i + 1)
    [] OTHER -> <<i>> \o (IF all THEN Positions(u, pat, all, IF pat = <<>> THEN i + 1 ELSE i + Len(pat)) ELSE <<>>)

RECURSIVE ExpandReplacement(_, _, _, _)
ExpandReplacement(repl, pat, u, pos) ==
  IF Len(repl) < 2 \/ repl[1] # "$" THEN IF repl = <<>> THEN <<>>
    ELSE <<repl[1]>> \o ExpandReplacement(Tail(repl), pat, u, pos)
  ELSE LET rest == ExpandReplacement(SubSeq(repl, 3, Len(repl)), pat, u, pos)
       IN  CASE repl[2] = "$" -> <<"$">> \o rest
             [] repl[2] = "&" -> pat \o rest
             [] repl[2] = "before" -> Cut(u, 0, pos) \o rest
             [] repl[2] = "after" -> Cut(u, pos + Len(pat), Len(u)) \o rest
             [] OTHER -> <<"$">> \o ExpandReplacement(Tail(repl), pat, u, pos)

RECURSIVE Replaced(_, _, _, _, _, _, _)
Replaced(u, pat, repl, positions, last, out, st) ==
  IF positions = <<>> THEN Ok(Str(out \o Cut(u, last, Len(u))), st)
  ELSE LET pos == positions[1]
           before == out \o Cut(u, last, pos)
       IN  Then(IF repl[1] = "fun"
                THEN Then(Call(repl, <<Str(pat), Num(pos), Str(u)>>, st), LAMBDA v, s : ToText(v, s))
                ELSE Ok(ExpandReplacement(repl[2], pat, u, pos), st), LAMBDA text, s :
             Replaced(u, pat, repl, Tail(positions), pos + Len(pat), before \o text, s))

Replace(u, args, all, st) ==
  Then(ToText(Arg(args, 1), st), LAMBDA pat, s :
    Then(IF Arg(args, 2)[1] = "fun" THEN Ok(args[2], s)
         ELSE Then(ToText(Arg(args, 2), s), LAMBDA text, t : Ok(Str(text), t)), LAMBDA repl, t :
      Replaced(u, pat, repl, Positions(u, pat, all, 0), 0, <<>>, t)))

StringMethod(m, u, args, st) ==
  CASE m = "at" -> At(u, args, st)
    [] m = "charAt" -> CharAt(u, args, st)
    [] m = "charCodeAt" -> CharCodeAt(u, args, st)
    [] m = "codePointAt" -> CodePointAt(u, args, st)
    [] m = "concat" -> Concat(u, args, st)
    [] m = "repeat" -> Repeat(u, args, st)
    [] m = "indexOf" -> IndexOf(u, args, st)
    [] m = "lastIndexOf" -> LastIndexOf(u, args, st)
    [] m = "includes" -> Includes(u, args, st)
    [] m = "startsWith" -> StartsWith(u, args, st)
    [] m = "endsWith" -> EndsWith(u, args, st)
    [] m = "slice" -> Slice(u, args, st)
    [] m = "substring" -> Substring(u, args, st)
    [] m = "substr" -> Substr(u, args, st)
    [] m = "padStart" -> Pad(u, args, TRUE, st)
    [] m = "padEnd" -> Pad(u, args, FALSE, st)
    [] m = "split" -> Split(u, args, st)
    [] m = "replace" -> Replace(u, args, FALSE, st)
    [] m = "replaceAll" -> Replace(u, args, TRUE, st)
=============================================================================
