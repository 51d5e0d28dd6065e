-------------------------------- MODULE MCText --------------------------------
(* Every string and RegExp method on subjects of three units: every position,  *)
(* every pattern of matches, every lastIndex, replacement templates, and       *)
(* conversions and callbacks that set lastIndex.                               *)
EXTENDS Strings, Regexps, JsText

VARIABLES
  input,   \* what runs, or "none"
  output   \* its answer: none yet, or one

vars == <<input, output>>

Begin(last) == [lastIndex |-> last, trace |-> <<>>]
Converter(id, out, sets) == <<"conv", id, out, sets>>
Fun(out, sets) == <<"fun", "f", out, sets>>
Thrown == <<"thrown">>

Subjects == {<<>>, <<"a", "b", "a">>, <<"a", "H", "L">>, <<"H", "L", "a">>, <<"1", "H", "L", "1">>}
Texts == {Str(<<>>), Str(<<"a">>), Str(<<"b", "a">>), Str(<<"H", "L">>), Num(1), Undefined,
          Converter("s", Str(<<"a">>), <<>>), Converter("s", Thrown, <<>>)}
Places1 == {Undefined, NaN, Converter("p", Num(1), <<>>), Converter("p", Thrown, <<>>), Str(<<"1">>)}
             \cup {Num(n) : n \in {-Infinity, -4, -2, -1, 0, 1, 2, 3, 4, Infinity}}
Fillers == {Undefined, Str(<<>>), Str(<<"b">>), Str(<<"H", "L">>), Converter("f", Str(<<"b", "a">>), <<>>)}

\* Splitting character by character: a character beyond 16 bits stays whole
\* (README), and a separator is not converted when the limit is 0.
Separators(u) == {s \in Texts : (\E i \in DOMAIN u : u[i] = "H") => s # Str(<<>>)}
Limits == {Undefined, Num(0), Num(1), Num(2), Num(-1), Converter("l", Num(1), <<>>)}

\* Templates; those of two halves of a character put together again are left
\* out, as are empty texts for an empty pattern.
Templates == {<<"[">> \o t : t \in UNION {[1..n -> {"$", "&", "before", "after", "1"}] : n \in 0..2}}
Replacements == {Str(t) : t \in Templates} \cup {Undefined, Fun(Str(<<"x">>), <<>>), Fun(Thrown, <<>>),
                  Fun(Converter("r", Str(<<"y">>), <<>>), <<>>), Converter("r", Str(<<"y">>), <<>>)}

Arguments(m, u) ==
  CASE m \in {"at", "charAt", "charCodeAt", "codePointAt"} -> {<<p>> : p \in Places1} \cup {<<>>}
    [] m = "repeat" -> {<<p>> : p \in Places1} \cup {<<>>}
    [] m \in {"slice", "substring", "substr"} -> {<<p, q>> : p, q \in Places1} \cup {<<>>}
    [] m \in {"indexOf", "lastIndexOf", "includes", "startsWith", "endsWith"} ->
         {<<t, p>> : t \in Texts, p \in Places1} \cup {<<t>> : t \in Texts}
    [] m \in {"padStart", "padEnd"} -> {<<p, f>> : p \in Places1 \ {Num(Infinity)}, f \in Fillers}
    [] m = "concat" -> {<<s, t>> : s, t \in Texts}
    [] m = "split" -> {<<s, l>> : s \in Separators(u), l \in Limits \ {Num(0)}} \cup {<<Str(<<"a">>), Num(0)>>, <<>>}
    [] m \in {"replace", "replaceAll"} -> {<<s, r>> \in Texts \X Replacements :
         s = Str(<<>>) /\ (\E i \in DOMAIN u : u[i] = "H") => r \in {Undefined, Fun(Str(<<"x">>), <<>>)}}

StringMethods == {"at", "charAt", "charCodeAt", "codePointAt", "concat", "repeat", "indexOf", "lastIndexOf", "includes",
                  "startsWith", "endsWith", "slice", "substring", "substr", "padStart", "padEnd", "split",
                  "replace", "replaceAll"}

---------------------------------------------------------------------------
\* Patterns on the subject <<"a", "b", "a">>, or one with a wide character: from
\* each position no match or one of any length.
Hits(kind, at, to) ==
  [to |-> to, groups |-> CASE kind = "plain" -> <<>>
                           [] kind = "group" -> <<<<at, to>>>>
                           [] kind = "unset" -> <<<<at, at>>, <<>>>>]
Names(kind) == CASE kind = "plain" -> <<>> [] kind = "group" -> <<"n">> [] kind = "unset" -> <<"", "">>
Ends(n) == {f \in [0..n -> -1..n] : \A i \in 0..n : f[i] = -1 \/ f[i] >= i}
Pattern(ends, kind, global, sticky, free) ==
  [hits |-> [i \in DOMAIN ends |-> IF ends[i] = -1 THEN <<>> ELSE <<Hits(kind, i, ends[i])>>],
   names |-> Names(kind), global |-> global, sticky |-> sticky, contextFree |-> free]

\* What the Go engine finds otherwise (README): an empty match next to the match
\* before it, and what follows an empty match of a sticky expression.
Abuts(ends) == \E i \in DOMAIN ends : ends[i] > i /\ ends[ends[i]] = ends[i]
Empty(ends) == \E i \in DOMAIN ends : ends[i] = i
SameAll(ends, global, sticky) == global => ~Abuts(ends) /\ (sticky => ~Empty(ends))

LastIndexes == {Num(n) : n \in {-1, 0, 1, 2, 3, 4, Infinity}} \cup
               {NaN, Undefined, Str(<<"1">>), Converter("last", Num(1), <<>>), Converter("last", Num(2), <<Num(0)>>),
                Converter("last", Thrown, <<>>)}

Init == input = <<"none">> /\ output = <<>>
Idle == input = <<"none">>

RunString ==
  Idle /\ \E m \in StringMethods, u \in Subjects : \E args \in Arguments(m, u) :
    input' = <<"text", m, u, args>> /\ UNCHANGED output

RunPattern(m, u, re, args, last) ==
  input' = <<"pattern", m, u, re, args, last>> /\ UNCHANGED output

\* A call that reads and writes lastIndex: its argument may set it, too.
RunExec ==
  Idle /\ \E m \in {"exec", "test"}, ends \in Ends(3), g, y, free \in BOOLEAN, last \in LastIndexes :
    /\ last[1] = "conv" => g \/ y
    /\ free \/ last \in {Num(0), Num(1), Num(4)}
    /\ \E u \in {<<"a", "b", "a">>, <<"a", "H", "L">>} :
         \/ RunPattern(m, u, Pattern(ends, "group", g, y, free), <<Str(u)>>, last)
         \/ /\ last = Num(0) /\ free
            /\ RunPattern(m, u, Pattern(ends, "unset", g, y, free), <<Converter("s", Str(u), <<Num(1)>>)>>, last)

RunMatch ==
  Idle /\ \E ends \in Ends(3), g, y, free \in BOOLEAN, u \in {<<"a", "b", "a">>, <<"a", "H", "L">>},
             last \in {Num(0), Num(2), Converter("last", Num(1), <<>>)}, kind \in {"group", "unset"} :
    /\ SameAll(ends, g, y)
    /\ last[1] = "conv" => g \/ y
    /\ RunPattern("match", u, Pattern(ends, kind, g, y, free), <<>>, last)

RunSearch ==
  Idle /\ \E ends \in Ends(3), g, y \in BOOLEAN, last \in LastIndexes :
    RunPattern("search", <<"a", "b", "a">>, Pattern(ends, "plain", g, y, FALSE), <<>>, last)

Substituted == {Str(<<"[", "$", "&", "]">>), Fun(Str(<<"x">>), <<>>), Fun(Str(<<>>), <<Num(2)>>), Fun(Thrown, <<>>)}
RunReplace ==
  Idle /\ \E m \in {"replace", "replaceAll"}, ends \in Ends(3), g, y \in BOOLEAN, repl \in Substituted,
             last \in {Num(0), Num(1), Converter("last", Num(1), <<>>)}, kind \in {"group", "unset"} :
    /\ SameAll(ends, g, y)
    /\ last[1] = "conv" => g \/ y
    /\ RunPattern(m, <<"a", "b", "a">>, Pattern(ends, kind, g, y, TRUE), <<repl>>, last)

\* Every template of four units, for a pattern with and without named groups.
RunTemplate ==
  Idle /\ \E t \in UNION {[1..n -> {"$", "<", ">", "n", "1", "2", "0", "after", "before"}] : n \in 1..4}, kind \in {"group", "unset"} :
    /\ t[1] = "$"
    /\ RunPattern("replace", <<"a", "b", "a">>, Pattern([i \in 0..3 |-> IF i = 1 THEN 2 ELSE -1], kind, TRUE, FALSE, TRUE),
                  <<Str(t)>>, Num(0))

RunSplit ==
  Idle /\ \E ends \in Ends(3), g, y \in BOOLEAN, limit \in Limits, kind \in {"group", "unset"},
             u \in {<<"a", "b", "a">>, <<"H", "L", "a">>} :
    RunPattern("split", u, Pattern(ends, kind, g, y, FALSE), <<limit>>, Num(1))
RunSplitEmpty ==
  Idle /\ \E end \in {-1, 0}, limit \in Limits :
    RunPattern("split", <<>>, Pattern([i \in {0} |-> end], "plain", TRUE, FALSE, TRUE), <<limit>>, Num(1))

AnswerString ==
  /\ input[1] = "text" /\ output = <<>>
  /\ output' = <<StringMethod(input[2], input[3], input[4], Begin(Num(0)))>>
  /\ UNCHANGED input
AnswerPattern ==
  /\ input[1] = "pattern" /\ output = <<>>
  /\ output' = <<RegexpMethod(input[2], input[4], input[5], input[3], Begin(input[6]))>>
  /\ UNCHANGED input

Next == RunString \/ RunExec \/ RunMatch \/ RunSearch \/ RunReplace \/ RunTemplate \/ RunSplit \/ RunSplitEmpty
        \/ AnswerString \/ AnswerPattern
Spec == Init /\ [][Next]_vars

\* README.md: every natively accepted script matches exactly, but for halves of
\* characters.  String and RegExp methods answer, call back, throw and leave
\* lastIndex as ECMAScript's do; what is refused answers nothing.
TextAsInJavaScript ==
  output # <<>> =>
    /\ input[1] = "text" => output[1] = WellResult(JsStringMethod(input[2], input[3], input[4], Begin(Num(0))))
    /\ input[1] = "pattern" /\ output[1].k # "unsupported" =>
         output[1] = WellResult(JsRegexpMethod(input[2], input[4], input[5], input[3], Begin(input[6])))
=============================================================================
