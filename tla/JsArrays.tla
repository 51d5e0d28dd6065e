------------------------------ MODULE JsArrays ------------------------------
(***************************************************************************)
(* The array methods of ECMAScript, over arrays that are a length and a    *)
(* partial function from the indices that exist to their elements.         *)
(* Nothing here is translated from the repository, except that an array    *)
(* has at most JsMaxItems elements.                                        *)
(***************************************************************************)
EXTENDS Heap

CONSTANT JsMaxItems

Sparse(items) ==
  [len |-> Len(items),
   at |-> [k \in {i \in 0..(Len(items) - 1) : items[i + 1] # Hole} |-> items[k + 1]]]

JsGet(a, k) == IF k \in DOMAIN a.at THEN a.at[k] ELSE Undefined

\* The indices from..to-1 of a, moved to start at 0.
Part(a, from, to) ==
  LET n == IF to > from THEN to - from ELSE 0
  IN  [len |-> n, at |-> [k \in {i \in 0..(n - 1) : from + i \in DOMAIN a.at} |-> a.at[from + k]]]

Joined(a, b) ==
  [len |-> a.len + b.len,
   at |-> a.at @@ [k \in {a.len + i : i \in DOMAIN b.at} |-> b.at[k - a.len]]]

Backwards(a) ==
  [a EXCEPT !.at = [k \in {a.len - 1 - i : i \in DOMAIN a.at} |-> a.at[a.len - 1 - k]]]

Filled(a) == [a EXCEPT !.at = [k \in 0..(a.len - 1) |-> JsGet(a, k)]]

Put(a, k, v) == [a EXCEPT !.at = (k :> v) @@ @]

\* Adding one element to what is built.
Added(a, v) == [len |-> a.len + 1, at |-> (a.len :> v) @@ a.at]

---------------------------------------------------------------------------
JsArg(args, i) == IF i <= Len(args) THEN args[i] ELSE Undefined
JsInteger(v) == IF Numeric(v) = NaN THEN 0 ELSE Numeric(v)[2]

\* A relative index, brought into 0..len.
Relative(v, len) ==
  LET n == IF JsInteger(v) < 0 THEN len + JsInteger(v) ELSE JsInteger(v)
  IN  IF n < 0 THEN 0 ELSE IF n > len THEN len ELSE n
RelativeOr(v, len, def) == IF v = Undefined THEN def ELSE Relative(v, len)
Exact(v, len) == IF JsInteger(v) < 0 THEN len + JsInteger(v) ELSE JsInteger(v)

Result(v, a) == [v |-> v, err |-> "none", a |-> a, trace |-> <<>>]
Made(b, a) == Result(<<"made", b>>, a)      \* the result is a new array
Failed(v, a) == [v |-> v, err |-> "throw", a |-> a, trace |-> <<>>]
Fits(made, r, a) == IF made > JsMaxItems THEN Failed(<<"RangeError">>, a) ELSE r

Least(S) == CHOOSE x \in S : \A y \in S : x <= y
Greatest(S) == CHOOSE x \in S : \A y \in S : x >= y

RECURSIVE Spliced(_)
Spliced(args) ==
  IF args = <<>> THEN Sparse(<<>>)
  ELSE Joined(IF args[1][1] = "list" THEN Sparse(args[1][2]) ELSE Sparse(<<args[1]>>), Spliced(Tail(args)))

RECURSIVE Flattened(_, _)
Flattened(a, depth) ==
  LET RECURSIVE From(_)
      From(k) == CASE k = a.len -> Sparse(<<>>)
                   [] k \notin DOMAIN a.at -> From(k + 1)
                   [] a.at[k][1] = "list" /\ depth > 0 ->
                        Joined(Flattened(Sparse(a.at[k][2]), depth - 1), From(k + 1))
                   [] OTHER -> Joined(Sparse(<<a.at[k]>>), From(k + 1))
  IN  From(0)

\* What splice removes, and what is left.
Removal(args, a) ==
  LET start == Relative(JsArg(args, 1), a.len)
      most == a.len - start
      count == CASE args = <<>> -> 0
                 [] Len(args) = 1 -> most
                 [] JsInteger(args[2]) < 0 -> 0
                 [] JsInteger(args[2]) > most -> most
                 [] OTHER -> JsInteger(args[2])
  IN  [gone |-> Part(a, start, start + count),
       left |-> Joined(Joined(Part(a, 0, start), Sparse(SubSeq(args, 3, Len(args)))),
                       Part(a, start + count, a.len))]

JsPlain(m, args, a) ==
  LET x == JsArg(args, 1)
      from == RelativeOr(JsArg(args, 2), a.len, 0)
      equal == {k \in DOMAIN a.at : StrictlyEqual(a.at[k], x)}
      up == {k \in equal : k >= from}
      last == IF Len(args) < 2 THEN a.len - 1 ELSE Exact(args[2], a.len)
      down == {k \in equal : k <= last}
      r == Removal(args, a)
      end == RelativeOr(JsArg(args, 2), a.len, a.len)
      ends == RelativeOr(JsArg(args, 3), a.len, a.len)
      exact == Exact(x, a.len)
      all == Joined(a, Spliced(args))
      longer == Joined(a, Sparse(args))
      flat == Flattened(a, IF x = Undefined THEN 1 ELSE JsInteger(x))
  IN  CASE m = "at" -> Result(JsGet(a, exact), a)
        [] m = "concat" -> Fits(all.len, Made(all, a), a)
        [] m = "flat" -> Fits(flat.len, Made(flat, a), a)
        [] m = "includes" -> Result(Bool(\E k \in from..(a.len - 1) : JsGet(a, k) = x), a)
        [] m = "indexOf" -> Result(Num(IF up = {} THEN -1 ELSE Least(up)), a)
        [] m = "lastIndexOf" -> Result(Num(IF down = {} THEN -1 ELSE Greatest(down)), a)
        [] m = "pop" -> IF a.len = 0 THEN Result(Undefined, a)
                        ELSE Result(JsGet(a, a.len - 1), Part(a, 0, a.len - 1))
        [] m = "shift" -> IF a.len = 0 THEN Result(Undefined, a)
                          ELSE Result(JsGet(a, 0), Part(a, 1, a.len))
        [] m = "push" -> Fits(longer.len, Result(Num(longer.len), longer), a)
        [] m = "unshift" -> Fits(longer.len, Result(Num(longer.len), Joined(Sparse(args), a)), a)
        [] m = "reverse" -> Result(<<"receiver">>, Backwards(a))
        [] m = "toReversed" -> Made(Filled(Backwards(a)), a)
        [] m = "slice" -> Made(Part(a, Relative(x, a.len), end), a)
        [] m = "fill" -> Result(<<"receiver">>,
                                [a EXCEPT !.at = [k \in from..(ends - 1) |-> x] @@ @])
        [] m = "with" -> IF exact \in 0..(a.len - 1) THEN Made(Put(Filled(a), exact, JsArg(args, 2)), a)
                         ELSE Failed(<<"RangeError">>, a)
        [] m = "splice" -> Fits(r.left.len, Made(r.gone, r.left), a)
        [] m = "toSpliced" -> LET f == Removal(args, Filled(a)) IN Fits(f.left.len, Made(f.left, a), a)

---------------------------------------------------------------------------
\* A script's callback, as in module Arrays: w has the array a, the trace and
\* what has been found or built.
JsCallback(cb, args, w) ==
  LET t == Append(w.trace, args)
      n == Len(t)
      given == CASE cb.do = "push" -> <<Num(9)>> [] cb.do = "unshift" -> <<Num(8)>> [] OTHER -> <<>>
      b == CASE n # cb.at \/ cb.do \in {"none", "throw"} -> w.a
             [] n = cb.at /\ cb.do = "clear" -> Sparse(<<>>)
             [] n = cb.at /\ cb.do = "cut" -> Part(w.a, 0, IF w.a.len < 2 THEN 0 ELSE w.a.len - 2)
             [] OTHER -> JsPlain(cb.do, given, w.a).a
      says == CASE cb.say = "when" -> Bool(n = cb.at)
                [] cb.say = "yes" -> Bool(TRUE)
                [] cb.say = "count" -> Num(n)
                [] cb.say = "list" -> <<"list", <<args[1], Undefined>>>>
      thrown == n = cb.at /\ cb.do = "throw"
  IN  [says |-> IF thrown THEN <<"thrown">> ELSE says, err |-> IF thrown THEN "throw" ELSE "none",
       a |-> b, trace |-> t]

\* What the method does with the answer c for the element v at k.  done is a
\* set that holds the result once there is one.
Visited(m, k, v, c, w) ==
  LET t == Truthy(c.says)
      next == [w EXCEPT !.a = c.a, !.trace = c.trace]
      grown == IF c.says[1] = "list" THEN Joined(w.acc, Sparse(c.says[2])) ELSE Added(w.acc, c.says)
  IN  CASE c.err # "none" -> [next EXCEPT !.done = {[Failed(c.says, c.a) EXCEPT !.trace = c.trace]}]
        [] m = "every" /\ ~t -> [next EXCEPT !.done = {Result(Bool(FALSE), c.a)}]
        [] m = "some" /\ t -> [next EXCEPT !.done = {Result(Bool(TRUE), c.a)}]
        [] m \in {"find", "findLast"} /\ t -> [next EXCEPT !.done = {Result(v, c.a)}]
        [] m \in {"findIndex", "findLastIndex"} /\ t -> [next EXCEPT !.done = {Result(Num(k), c.a)}]
        [] m = "map" -> [next EXCEPT !.acc = Put(@, k, c.says)]
        [] m = "filter" /\ t -> [next EXCEPT !.acc = Added(@, v)]
        [] m = "flatMap" /\ grown.len > JsMaxItems -> [next EXCEPT !.done = {Failed(<<"RangeError">>, c.a)}]
        [] m = "flatMap" -> [next EXCEPT !.acc = grown]
        [] m \in {"reduce", "reduceRight"} -> [next EXCEPT !.acc = c.says]
        [] OTHER -> next

Visit(m, cb, k, v, w) ==
  Visited(m, k, v, JsCallback(cb, IF m \in {"reduce", "reduceRight"} THEN <<w.acc, v, Num(k)>>
                                  ELSE <<v, Num(k)>>, w), w)

\* Methods other than the find family visit only the elements that exist when
\* their turn comes; the length is that at the start.
RECURSIVE Walk(_, _, _, _)
Walk(m, cb, ks, w) ==
  IF ks = <<>> \/ w.done # {} THEN w
  ELSE Walk(m, cb, Tail(ks),
            IF m \notin {"find", "findIndex", "findLast", "findLastIndex"} /\ ks[1] \notin DOMAIN w.a.at
            THEN w ELSE Visit(m, cb, ks[1], JsGet(w.a, ks[1]), w))

Finished(m, w) ==
  LET end == CASE w.done # {} -> CHOOSE r \in w.done : TRUE
               [] m \in {"map", "filter", "flatMap"} -> Made(w.acc, w.a)
               [] OTHER -> Result(w.acc, w.a)
  IN  [end EXCEPT !.trace = w.trace]

JsCalling(m, cb, initial, a) ==
  LET up == [i \in 1..a.len |-> i - 1]
      down == [i \in 1..a.len |-> a.len - i]
      order == IF m \in {"findLast", "findLastIndex", "reduceRight"} THEN down ELSE up
      \* Without an initial value, reduce starts from the first that exists.
      skipped == Least({i \in DOMAIN order : order[i] \in DOMAIN a.at})
      reduces == m \in {"reduce", "reduceRight"} /\ initial = {}
      acc == CASE m = "map" -> [len |-> a.len, at |-> <<>>]
               [] m \in {"filter", "flatMap"} -> Sparse(<<>>)
               [] reduces -> a.at[order[skipped]]
               [] initial # {} -> CHOOSE x \in initial : TRUE
               [] m = "every" -> Bool(TRUE)
               [] m = "some" -> Bool(FALSE)
               [] m \in {"findIndex", "findLastIndex"} -> Num(-1)
               [] OTHER -> Undefined
  IN  IF reduces /\ DOMAIN a.at = {} THEN Failed(TypeError, a)
      ELSE Finished(m, Walk(m, cb, IF reduces THEN SubSeq(order, skipped + 1, a.len) ELSE order,
                            [a |-> a, acc |-> acc, done |-> {}, trace |-> <<>>]))

---------------------------------------------------------------------------
\* Sorting: what a consistent comparator says of two elements, and the one
\* order that it allows: undefined after the others, equal elements as before.
JsOrder(x, y, cmp) ==
  CASE x = y -> 0
    [] x = Undefined -> 1
    [] y = Undefined -> -1
    [] cmp.say = "default" -> IF Before(Text(x), Text(y)) THEN -1 ELSE IF Text(x) = Text(y) THEN 0 ELSE 1
    [] cmp.say = "up" -> Numeric(x)[2] - Numeric(y)[2]
    [] cmp.say = "down" -> Numeric(y)[2] - Numeric(x)[2]
    [] cmp.say = "same" -> 0

InOrder(a, cmp) ==
  LET before(i, k) == LET o == JsOrder(a.at[i], a.at[k], cmp) IN o < 0 \/ (o = 0 /\ i < k)
      rank(k) == Cardinality({i \in DOMAIN a.at : before(i, k)})
  IN  [len |-> a.len,
       at |-> [r \in 0..(Cardinality(DOMAIN a.at) - 1) |-> a.at[CHOOSE k \in DOMAIN a.at : rank(k) = r]]]

---------------------------------------------------------------------------
\* Engines: an array inside its own text is empty there.  path has the arrays
\* around; the answer is <<text or "throws", what toString methods joined>>.
RECURSIVE TextIn(_, _, _), ItemsIn(_, _, _)
ItemsIn(items, lists, path) ==
  IF items = <<>> THEN [text |-> <<>>, err |-> FALSE, seen |-> <<>>]
  ELSE LET v == items[1]
           r == CASE v[1] = "nullish" -> [text |-> <<>>, err |-> FALSE, seen |-> <<>>]
                  [] v[1] = "text" -> [text |-> <<v[2]>>, err |-> FALSE, seen |-> <<>>]
                  [] v[1] = "list" -> TextIn(v[2], lists, path)
                  [] v[1] = "conv" ->
                       LET t == TextIn(v[2], lists, path)
                       IN  IF t.err THEN t ELSE [text |-> <<"c">>, err |-> v[3], seen |-> Append(t.seen, t.text)]
           rest == ItemsIn(Tail(items), lists, path)
       IN  IF r.err THEN r
           ELSE [text |-> r.text \o (IF Len(items) > 1 THEN <<",">> ELSE <<>>) \o rest.text,
                 err |-> rest.err, seen |-> r.seen \o rest.seen]
TextIn(a, lists, path) ==
  IF a \in path THEN [text |-> <<>>, err |-> FALSE, seen |-> <<>>] ELSE ItemsIn(lists[a], lists, path \cup {a})
=============================================================================
