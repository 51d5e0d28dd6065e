-------------------------------- MODULE Arrays --------------------------------
(***************************************************************************)
(* The methods of arrays: builtins.go over the slice `items` of the        *)
(* receiver, in which a hole marks an element that does not exist.  A      *)
(* callback is a record of the script's function: at call number cb.at it  *)
(* does cb.do to the receiver, and it answers as cb.say tells.  st has the *)
(* receiver's items, the number of calls and the arguments of each call.   *)
(***************************************************************************)
EXTENDS Heap

CONSTANT MaxItems   \* x.maxItems

RangeError == <<"RangeError">>
List(items) == <<"list", items>>     \* an array as a value
Infinity == <<"num", 99>>

At1(items, i) == items[i + 1]        \* items[i] of Go
Slice(items, i, j) == SubSeq(items, i + 1, j)
Arg(args, i) == IF i < Len(args) THEN args[i + 1] ELSE Undefined
Smaller(a, b) == IF a < b THEN a ELSE b
Larger(a, b) == IF a > b THEN a ELSE b

\* toIntegerOrInfinity(toNumber(v))
Integer(v) == IF Numeric(v) = NaN THEN 0 ELSE Numeric(v)[2]

RelIndex(v, len, def) ==
  IF v = Undefined THEN def
  ELSE LET f == Integer(v) IN IF f < 0 THEN Larger(len + f, 0) ELSE Smaller(f, len)

NewArray(items, st) ==
  IF Len(items) > MaxItems THEN Throw(RangeError, st) ELSE Ok(List(items), st)

Set(items, st) == [st EXCEPT !.items = items]

---------------------------------------------------------------------------
\* Methods that call nothing.
AtMethod(args, st) ==
  LET f == Integer(Arg(args, 0))
      n == IF f < 0 THEN f + Len(st.items) ELSE f
  IN  Ok(IF n < 0 \/ n >= Len(st.items) THEN Undefined ELSE Unhole(At1(st.items, n)), st)

RECURSIVE Spread(_)
Spread(args) ==
  IF args = <<>> THEN <<>>
  ELSE (IF args[1][1] = "list" THEN args[1][2] ELSE <<args[1]>>) \o Spread(Tail(args))

Concat(args, st) == NewArray(st.items \o Spread(args), st)

RECURSIVE Flatten(_, _, _)
Flatten(out, items, depth) ==
  CASE items = <<>> \/ Len(out) > MaxItems -> out
    [] items[1] = Hole -> Flatten(out, Tail(items), depth)
    [] items[1][1] = "list" /\ depth > 0 ->
         Flatten(Flatten(out, items[1][2], depth - 1), Tail(items), depth)
    [] OTHER -> Flatten(Append(out, items[1]), Tail(items), depth)

Flat(args, st) ==
  NewArray(Flatten(<<>>, st.items,
                   IF Arg(args, 0) = Undefined THEN 1 ELSE Integer(args[1])), st)

\* The first of the places in order whose element satisfies Is, or -1.
FirstAt(places, Is(_)) ==
  LET hits == SelectSeq(places, Is) IN IF hits = <<>> THEN -1 ELSE hits[1]
Upwards(from, to) == [k \in 1..Larger(to - from, 0) |-> from + k - 1]
Downwards(from) == [k \in 1..Larger(from + 1, 0) |-> from - k + 1]

Includes(args, st) ==
  Ok(Bool(FirstAt(Upwards(RelIndex(Arg(args, 1), Len(st.items), 0), Len(st.items)),
                  LAMBDA i : Unhole(At1(st.items, i)) = Arg(args, 0)) >= 0), st)

IndexOf(args, st) ==
  Ok(Num(FirstAt(Upwards(RelIndex(Arg(args, 1), Len(st.items), 0), Len(st.items)),
                 LAMBDA i : StrictlyEqual(At1(st.items, i), Arg(args, 0)))), st)

LastIndexOf(args, st) ==
  LET n == Len(st.items)
      f == IF Len(args) > 1 THEN Integer(args[2]) ELSE n - 1
      from == Smaller(IF Len(args) > 1 /\ f < 0 THEN f + n ELSE f, n - 1)
  IN  Ok(Num(FirstAt(Downwards(from), LAMBDA i : StrictlyEqual(At1(st.items, i), Arg(args, 0)))), st)

Pop(args, st) ==
  IF st.items = <<>> THEN Ok(Undefined, st)
  ELSE Ok(Unhole(st.items[Len(st.items)]), Set(Slice(st.items, 0, Len(st.items) - 1), st))

Shift(args, st) ==
  IF st.items = <<>> THEN Ok(Undefined, st)
  ELSE Ok(Unhole(st.items[1]), Set(Tail(st.items), st))

Grow(args, items, st) ==
  IF Len(st.items) + Len(args) > MaxItems THEN Throw(RangeError, st)
  ELSE Ok(Num(Len(items)), Set(items, st))
Push(args, st) == Grow(args, st.items \o args, st)
Unshift(args, st) == Grow(args, args \o st.items, st)

Reversed(items) == [i \in DOMAIN items |-> items[Len(items) - i + 1]]
Dense(items) == [i \in DOMAIN items |-> Unhole(items[i])]
Reverse(args, st) == Ok(<<"receiver">>, Set(Reversed(st.items), st))
ToReversed(args, st) == Ok(List(Dense(Reversed(st.items))), st)

SliceMethod(args, st) ==
  LET n == Len(st.items)
  IN  Ok(List(Slice(st.items, RelIndex(Arg(args, 0), n, 0), RelIndex(Arg(args, 1), n, n))), st)

Fill(args, st) ==
  LET n == Len(st.items)
      from == RelIndex(Arg(args, 1), n, 0)
      to == RelIndex(Arg(args, 2), n, n)
  IN  Ok(<<"receiver">>,
         Set([i \in DOMAIN st.items |-> IF from < i /\ i <= to THEN Arg(args, 0) ELSE st.items[i]], st))

With(args, st) ==
  LET f == Integer(Arg(args, 0))
      i == IF f < 0 THEN f + Len(st.items) ELSE f
  IN  IF i < 0 \/ i >= Len(st.items) THEN Throw(RangeError, st)
      ELSE Ok(List([Dense(st.items) EXCEPT ![i + 1] = Arg(args, 1)]), st)

\* The arguments of splice: where, how many, what goes in.
Deleted(args, n, start) ==
  CASE args = <<>> -> 0
    [] Len(args) = 1 -> n - start
    [] OTHER -> Smaller(Larger(Integer(args[2]), 0), n - start)

SpliceItems(args, items) ==
  LET n == Len(items)
      start == RelIndex(Arg(args, 0), n, 0)
      del == Deleted(args, n, start)
  IN  [removed |-> Slice(items, start, start + del),
       out |-> Slice(items, 0, start) \o SubSeq(args, 3, Len(args)) \o Slice(items, start + del, n)]

Splice(args, st) ==
  LET s == SpliceItems(args, st.items)
  IN  IF Len(s.out) > MaxItems THEN Throw(RangeError, st) ELSE Ok(List(s.removed), Set(s.out, st))

ToSpliced(args, st) == NewArray(SpliceItems(args, Dense(st.items)).out, st)

Plain(m, args, st) ==
  CASE m = "at" -> AtMethod(args, st)
    [] m = "concat" -> Concat(args, st)
    [] m = "flat" -> Flat(args, st)
    [] m = "includes" -> Includes(args, st)
    [] m = "indexOf" -> IndexOf(args, st)
    [] m = "lastIndexOf" -> LastIndexOf(args, st)
    [] m = "pop" -> Pop(args, st)
    [] m = "shift" -> Shift(args, st)
    [] m = "push" -> Push(args, st)
    [] m = "unshift" -> Unshift(args, st)
    [] m = "reverse" -> Reverse(args, st)
    [] m = "toReversed" -> ToReversed(args, st)
    [] m = "slice" -> SliceMethod(args, st)
    [] m = "fill" -> Fill(args, st)
    [] m = "with" -> With(args, st)
    [] m = "splice" -> Splice(args, st)
    [] m = "toSpliced" -> ToSpliced(args, st)

---------------------------------------------------------------------------
\* The callbacks of scripts: what the call does to the receiver is a method of
\* the receiver too, or an assignment to length or to an element.
Effect(do, st) ==
  CASE do = "pop" -> Pop(<<>>, st).st
    [] do = "push" -> Push(<<Num(9)>>, st).st
    [] do = "shift" -> Shift(<<>>, st).st
    [] do = "unshift" -> Unshift(<<Num(8)>>, st).st
    [] do = "reverse" -> Reverse(<<>>, st).st
    [] do = "cut" -> Splice(<<Num(-2)>>, st).st
    [] do = "clear" -> Splice(<<Num(0)>>, st).st
    [] do = "none" -> st

Answer(say, args, calls, at) ==
  CASE say = "when" -> Bool(calls = at)
    [] say = "yes" -> Bool(TRUE)
    [] say = "count" -> Num(calls)
    [] say = "list" -> List(<<args[1], Undefined>>)

Logged(args, st) == [st EXCEPT !.calls = @ + 1, !.trace = Append(@, args)]

Callback(cb, args, st) ==
  LET s == Logged(args, st)
  IN  IF s.calls = cb.at /\ cb.do = "throw" THEN Throw(<<"thrown">>, s)
      ELSE Ok(Answer(cb.say, args, s.calls, cb.at), IF s.calls = cb.at THEN Effect(cb.do, s) ELSE s)

---------------------------------------------------------------------------
\* iterateArray and iterateArrayReverse.  stop is what each method's visit
\* returns when it is done: a set with the result, or nothing.
Stop(m, v, res, i) ==
  CASE m = "every" -> IF Truthy(res) THEN {} ELSE {Bool(FALSE)}
    [] m = "some" -> IF Truthy(res) THEN {Bool(TRUE)} ELSE {}
    [] m \in {"find", "findLast"} -> IF Truthy(res) THEN {v} ELSE {}
    [] m \in {"findIndex", "findLastIndex"} -> IF Truthy(res) THEN {Num(i)} ELSE {}
    [] m = "forEach" -> {}

Otherwise(m) ==
  CASE m = "every" -> Bool(TRUE)
    [] m = "some" -> Bool(FALSE)
    [] m \in {"findIndex", "findLastIndex"} -> Num(-1)
    [] m \in {"find", "findLast", "forEach"} -> Undefined

SkipsHoles(m) == m \in {"every", "some", "forEach"}
Missing(i, st) == i >= Len(st.items) \/ At1(st.items, i) = Hole

RECURSIVE Iterate(_, _, _, _, _, _)
Iterate(m, cb, i, step, end, st) ==
  CASE i = end -> Ok(Otherwise(m), st)
    [] SkipsHoles(m) /\ Missing(i, st) -> Iterate(m, cb, i + step, step, end, st)
    [] OTHER ->
         LET v == IF Missing(i, st) THEN Undefined ELSE At1(st.items, i)
             r == Callback(cb, <<v, Num(i)>>, st)
             stop == Stop(m, v, r.v, i)
         IN  CASE r.err # "none" -> r
               [] stop # {} -> Ok(CHOOSE x \in stop : TRUE, r.st)
               [] OTHER -> Iterate(m, cb, i + step, step, end, r.st)

\* map, filter and flatMap: out holds what is built so far.
Built(m, out, i, v, res) ==
  CASE m = "map" -> [out EXCEPT ![i + 1] = res]
    [] m = "filter" -> IF Truthy(res) THEN Append(out, v) ELSE out
    [] m = "flatMap" -> out \o Spread(<<res>>)

RECURSIVE Build(_, _, _, _, _, _)
Build(m, cb, i, n, out, st) ==
  CASE i = n \/ i >= Len(st.items) -> Ok(List(out), st)
    [] At1(st.items, i) = Hole -> Build(m, cb, i + 1, n, out, st)
    [] OTHER ->
         LET v == At1(st.items, i)
             r == Callback(cb, <<v, Num(i)>>, st)
             next == Built(m, out, i, v, r.v)
         IN  CASE r.err # "none" -> r
               [] m = "flatMap" /\ Len(next) > MaxItems -> Throw(RangeError, r.st)
               [] OTHER -> Build(m, cb, i + 1, n, next, r.st)

RECURSIVE ReduceFrom(_, _, _, _, _, _)
\* A bug: an index past the end of the shortened array ends the walk.
ReduceFrom_Ends(acc, cb, i, step, end, st) ==
  CASE i = end \/ i >= Len(st.items) -> Ok(acc, st)
    [] At1(st.items, i) = Hole -> ReduceFrom(acc, cb, i + step, step, end, st)
    [] OTHER -> LET r == Callback(cb, <<acc, At1(st.items, i), Num(i)>>, st)
                IN  IF r.err # "none" THEN r ELSE ReduceFrom(r.v, cb, i + step, step, end, r.st)

ReduceFrom(acc, cb, i, step, end, st) ==
  CASE i = end -> Ok(acc, st)
    [] Missing(i, st) -> ReduceFrom(acc, cb, i + step, step, end, st)
    [] OTHER -> LET r == Callback(cb, <<acc, At1(st.items, i), Num(i)>>, st)
                IN  IF r.err # "none" THEN r ELSE ReduceFrom(r.v, cb, i + step, step, end, r.st)

Reduce(right, initial, cb, st) ==
  LET n == Len(st.items)
      i == IF right THEN n - 1 ELSE 0
      step == IF right THEN -1 ELSE 1
      end == IF right THEN -1 ELSE n
      first == FirstAt(IF right THEN Downwards(n - 1) ELSE Upwards(0, n),
                       LAMBDA k : At1(st.items, k) # Hole)
  IN  CASE initial # {} -> ReduceFrom(CHOOSE x \in initial : TRUE, cb, i, step, end, st)
        [] first = -1 -> Throw(TypeError, st)
        [] OTHER -> ReduceFrom(At1(st.items, first), cb, first + step, step, end, st)

Calling(m, cb, initial, st) ==
  LET n == Len(st.items)
  IN  CASE m \in {"every", "some", "find", "findIndex", "forEach"} -> Iterate(m, cb, 0, 1, n, st)
        [] m \in {"findLast", "findLastIndex"} -> Iterate(m, cb, n - 1, -1, -1, st)
        [] m = "map" -> Build(m, cb, 0, n, [i \in 1..n |-> Hole], st)
        [] m \in {"filter", "flatMap"} -> Build(m, cb, 0, n, <<>>, st)
        [] m = "reduce" -> Reduce(FALSE, initial, cb, st)
        [] m = "reduceRight" -> Reduce(TRUE, initial, cb, st)

---------------------------------------------------------------------------
\* sortItems: the holes are set aside, the rest is sorted in place by the stable
\* insertion sort that sort.Stable is for short slices.  After the first error
\* less answers false.  cmp is a script's comparator: what it says, and
\* the call at which it throws (0: none); "default" is an undefined comparator.
Sign(n) == CASE n > 0 -> 1 [] n < 0 -> -1 [] OTHER -> 0

SortCompare(x, y, cmp, st) ==
  CASE Undefined \in {x, y} ->
         Ok(IF x = y THEN 0 ELSE IF x = Undefined THEN 1 ELSE -1, st)
    [] cmp.say = "default" ->
         Ok(IF Before(Text(x), Text(y)) THEN -1 ELSE IF Text(x) = Text(y) THEN 0 ELSE 1, st)
    [] OTHER -> LET s == Logged(<<x, y>>, st)
                IN  CASE s.calls = cmp.at -> Throw(<<"thrown">>, s)
                      [] cmp.say = "up" -> Ok(Sign(Numeric(x)[2] - Numeric(y)[2]), s)
                      [] cmp.say = "down" -> Ok(Sign(Numeric(y)[2] - Numeric(x)[2]), s)
                      [] cmp.say = "same" -> Ok(0, s)
                      [] cmp.say = "less" -> Ok(-1, s)

RECURSIVE StableFrom(_, _, _, _, _)
StableFrom(items, i, j, cmp, r) ==
  IF i > Len(items) THEN [items |-> items, r |-> r]
  ELSE IF j > 1 /\ r.err = "none"
  THEN LET c == SortCompare(items[j], items[j - 1], cmp, r.st)
       IN  IF c.err = "none" /\ c.v < 0
           THEN StableFrom([items EXCEPT ![j] = items[j - 1], ![j - 1] = items[j]], i, j - 1, cmp, c)
           ELSE StableFrom(items, i + 1, i + 1, cmp, c)
  ELSE StableFrom(items, i + 1, i + 1, cmp, r)

SortItems(items, cmp, st) ==
  LET dense == SelectSeq(items, LAMBDA v : v # Hole)
      sorted == StableFrom(dense, 2, 2, cmp, Ok(Undefined, st))
  IN  [sorted EXCEPT !.items = @ \o [k \in 1..(Len(items) - Len(dense)) |-> Hole]]

Sort(cmp, st) ==
  LET s == SortItems(st.items, cmp, st)
  IN  [Then(s.r, LAMBDA v, t : Ok(<<"receiver">>, t)) EXCEPT !.st.items = s.items]

ToSorted(cmp, st) ==
  LET s == SortItems(Dense(st.items), cmp, st)
  IN  Then(s.r, LAMBDA v, t : Ok(List(s.items), t))

\* Array.from of an array, with its mapping function.
RECURSIVE MapItems(_, _, _, _)
MapItems(items, cb, i, st) ==
  IF i = Len(items) THEN Ok(List(items), st)
  ELSE LET r == Callback(cb, <<At1(items, i), Num(i)>>, st)
       IN  IF r.err # "none" THEN r ELSE MapItems([items EXCEPT ![i + 1] = r.v], cb, i + 1, r.st)

ArrayFrom(cb, st) == MapItems(st.items, cb, 0, st)

---------------------------------------------------------------------------
\* join and the text of arrays (value.go).  lists has the elements of each
\* array: <<"nullish">>, <<"text", c>>, <<"list", i>> an array, <<"conv", i,
\* throws>> an object whose toString joins the array i, then throws or answers
\* "c".  st has the arrays being joined and those that a toString joined.
Leave_Succeeded(a, r) == IF r.err THEN r ELSE [r EXCEPT !.st.joining = @ \ {a}]
Leave(a, r) == [r EXCEPT !.st.joining = @ \ {a}]

RECURSIVE Join(_, _, _), JoinFrom(_, _, _, _, _)

ToText(v, lists, st) ==
  CASE v[1] = "text" -> [text |-> <<v[2]>>, err |-> FALSE, st |-> st]
    [] v[1] = "list" -> Join(v[2], lists, st)
    [] v[1] = "conv" ->
         LET r == Join(v[2], lists, st)
             s == [r.st EXCEPT !.trace = Append(@, r.text)]
         IN  IF r.err THEN r ELSE [text |-> <<"c">>, err |-> v[3], st |-> s]

JoinFrom(i, items, out, lists, st) ==
  IF i > Len(items) THEN [text |-> out, err |-> FALSE, st |-> st]
  ELSE LET before == IF i > 1 THEN Append(out, ",") ELSE out
       IN  IF items[i] = <<"nullish">> THEN JoinFrom(i + 1, items, before, lists, st)
           ELSE LET r == ToText(items[i], lists, st)
                IN  IF r.err THEN r ELSE JoinFrom(i + 1, items, before \o r.text, lists, r.st)

Join(a, lists, st) ==
  IF a \in st.joining THEN [text |-> <<>>, err |-> FALSE, st |-> st]
  ELSE Leave(a, JoinFrom(1, lists[a], <<>>, lists, [st EXCEPT !.joining = @ \cup {a}]))
=============================================================================
