------------------------------- MODULE MCArrays -------------------------------
(* Every array method on small receivers, with holes, undefined and an array   *)
(* inside, every argument and every callback that changes the receiver while   *)
(* the method runs.                                                            *)
EXTENDS Arrays, JsArrays

VARIABLES
  input,   \* what runs, or "none"
  output   \* its answer: none yet, or one

vars == <<input, output>>

\* Receivers have at most MaxLen elements.
MaxLen == 3

Elements == {Num(1), Num(2), Undefined, Hole}
Receivers == UNION {[1..n -> Elements] : n \in 0..MaxLen} \cup
             {<<List(<<Num(1), Hole, List(<<Num(2)>>)>>), Num(1)>>, <<Hole, Str("1"), List(<<>>), NaN>>}

Positions == {Undefined, Num(0), Num(1), Num(-1), Num(2), Num(-2), Num(5), Num(-5), NaN}
Arguments(m) ==
  CASE m \in {"at", "flat"} -> {<<>>} \cup {<<p>> : p \in Positions}
    [] m \in {"includes", "indexOf", "lastIndexOf"} ->
         {<<x>> : x \in Elements \ {Hole}} \cup {<<x, p>> : x \in {Num(1), NaN, Undefined}, p \in Positions}
    [] m \in {"pop", "shift", "reverse", "toReversed"} -> {<<>>}
    [] m \in {"push", "unshift"} -> {<<>>, <<Num(7)>>, <<Num(7), Num(6), Undefined>>}
    [] m = "concat" -> {<<>>, <<Num(7)>>, <<List(<<Hole, Num(6)>>), Num(7)>>, <<List(<<Num(6), Num(6), Num(6)>>)>>}
    [] m = "slice" -> {<<>>} \cup {<<p, q>> : p, q \in Positions}
    [] m = "with" -> {<<p, Num(7)>> : p \in Positions}
    [] m = "fill" -> {<<Num(7), p, q>> : p, q \in Positions}
    [] m \in {"splice", "toSpliced"} ->
         {<<>>} \cup {<<p>> : p \in Positions} \cup {<<p, q, Num(7), Num(6), Num(5)>> : p, q \in Positions}

PlainMethods == {"at", "concat", "flat", "includes", "indexOf", "lastIndexOf", "pop", "shift", "push",
                 "unshift", "reverse", "toReversed", "slice", "fill", "with", "splice", "toSpliced"}
Visitors == {"every", "some", "find", "findIndex", "findLast", "findLastIndex", "forEach",
             "map", "filter", "flatMap", "reduce", "reduceRight"}

Callbacks == [at : 1..MaxLen, say : {"when", "yes", "count", "list"},
              do : {"none", "pop", "push", "shift", "unshift", "reverse", "cut", "clear", "throw"}]
Comparators == [at : 0..4, say : {"default", "up", "down", "same", "less"}]

Init == input = <<"none">> /\ output = <<>>
Idle == input = <<"none">>
Begin(items) == [items |-> items, calls |-> 0, trace |-> <<>>]

RunPlain ==
  Idle /\ \E m \in PlainMethods, a \in Receivers : \E args \in Arguments(m) :
    input' = <<"method", m, a, args>> /\ UNCHANGED output

RunVisitor ==
  Idle /\ \E m \in Visitors, a \in Receivers, cb \in Callbacks :
          \E init \in IF m \in {"reduce", "reduceRight"} THEN {{}, {Num(0)}} ELSE {{}} :
    input' = <<"visitor", m, a, cb, init>> /\ UNCHANGED output

Sortable == UNION {[1..n -> {Num(1), Num(2), Str("m"), Undefined, Hole}] : n \in 0..MaxLen} \cup
            [1..4 -> {Num(1), Num(2), Hole}]
RunSort ==
  Idle /\ \E a \in Sortable, cmp \in Comparators, m \in {"sort", "toSorted"} :
    /\ cmp.say = "default" => cmp.at = 0
    /\ cmp.say = "default" \/ Str("m") \notin {a[i] : i \in DOMAIN a}
    /\ input' = <<"sort", m, a, cmp>> /\ UNCHANGED output

\* Array.from copies an array before it maps it and keeps its holes: README.
RunFrom ==
  Idle /\ \E a \in Receivers, cb \in {c \in Callbacks : c.do \in {"none", "throw"}} :
    /\ Hole \notin {a[i] : i \in DOMAIN a}
    /\ input' = <<"visitor", "from", a, cb, {}>> /\ UNCHANGED output

\* Two arrays that may hold each other and themselves, joined one after the other
\* by the same script, whatever the first join comes to.
Joinable == {<<"nullish">>, <<"text", "t">>} \cup {<<"list", i>> : i \in 1..2}
              \cup {<<"conv", i, throws>> : i \in 1..2, throws \in BOOLEAN}

RunJoins ==
  Idle /\ \E a, b \in UNION {[1..n -> Joinable] : n \in 0..2} :
    input' = <<"join", <<a, b>>>> /\ UNCHANGED output

\* Join the first array; whether it throws or not, join the second, then the first.
AnswerJoins ==
  /\ input[1] = "join" /\ output = <<>>
  /\ LET first == Join(1, input[2], [joining |-> {}, trace |-> <<>>])
         second == Join(2, input[2], first.st)
     IN  output' = <<first, second, Join(1, input[2], second.st)>>
  /\ UNCHANGED input

Outcome(m, x, st) ==
  CASE input[1] = "method" -> Plain(m, x, st)
    [] m = "sort" -> Sort(x, st)
    [] m = "toSorted" -> ToSorted(x, st)
    [] m = "from" -> ArrayFrom(x, st)
    [] OTHER -> Calling(m, x, input[5], st)

Return ==
  /\ input[1] \in {"method", "visitor", "sort"} /\ output = <<>>
  /\ output' = <<Outcome(input[2], input[4], Begin(input[3]))>>
  /\ UNCHANGED input

Returned(tag) == input[1] = tag /\ output # <<>>

Next == RunPlain \/ RunVisitor \/ RunSort \/ RunFrom \/ Return \/ RunJoins \/ AnswerJoins

Spec == Init /\ [][Next]_vars

---------------------------------------------------------------------------
\* What the code returns is what ECMAScript makes.
Same(v, w) == IF w[1] = "made" THEN v[1] = "list" /\ Sparse(v[2]) = w[2] ELSE v = w

Agrees(r, js) ==
  /\ r.err = js.err /\ Same(r.v, js.v)
  /\ Sparse(r.st.items) = js.a
  /\ r.st.trace = js.trace

Expected ==
  LET a == Sparse(input[3])
  IN  IF input[1] = "method" THEN JsPlain(input[2], input[4], a)
      ELSE JsCalling(IF input[2] = "from" THEN "map" ELSE input[2], input[4], input[5], a)

Consistent(cmp) == cmp.at = 0 /\ cmp.say # "less"

\* README: every accepted script matches JavaScript.  What a method returns or
\* throws, the calls it makes with their arguments and what it leaves in the
\* receiver are what ECMAScript says, while callbacks shorten, lengthen and
\* reorder the array; a sort by a consistent comparator gives the one stable
\* order, with undefined and then the holes last.
ArraysAsInJavaScript ==
  /\ Returned("method") \/ Returned("visitor") => Agrees(output[1], Expected)
  /\ Returned("sort") /\ Consistent(input[4]) =>
       IF input[2] = "sort" THEN Sparse(output[1].st.items) = InOrder(Sparse(input[3]), input[4])
       ELSE Sparse(output[1].v[2]) = InOrder(Filled(Sparse(input[3])), input[4])

\* value.go: join guards against cyclic arrays the same way engines do.  Each of
\* three joins gives its own text, however the joins before it ended.
JoinsApart ==
  input[1] = "join" /\ output # <<>> =>
    LET a == TextIn(1, input[2], {})
        b == TextIn(2, input[2], {})
        Alike(r, t) == r.err = t.err /\ (~r.err => r.text = t.text)
    IN  /\ Alike(output[1], a) /\ Alike(output[2], b) /\ Alike(output[3], a)
        /\ output[3].st.trace = a.seen \o b.seen \o a.seen
=============================================================================
