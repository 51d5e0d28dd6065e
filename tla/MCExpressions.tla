--------------------------- MODULE MCExpressions ---------------------------
(* Every small expression of each form, evaluated from Start, against what   *)
(* ECMAScript computes: the value, the error, the effects in their order,    *)
(* the heap and the variables afterwards.                                    *)
EXTENDS Expressions, JsExpressions

VARIABLES
  input,   \* what runs, or "none"
  output   \* its answer: none yet, or one

vars == <<input, output>>

Obj == <<"ref", 1>>
Arr == <<"ref", 2>>
Both == <<"ref", 3>>
Neither == <<"ref", 4>>

Start ==
  [heap |-> <<Object(<<"a", "n", "m">>, <<Num(1), Null, <<"fun", "one">>>>),
              Array(<<Num(5), Undefined>>),
              Object(<<"valueOf", "toString">>, <<<<"fun", "two">>, <<"fun", "text">>>>),
              Object(<<"toString", "valueOf">>, <<Num(0), <<"fun", "self">>>>)>>,
   vars |-> [x |-> [kind |-> "let", val |-> Num(1)],
             c |-> [kind |-> "const", val |-> Null],
             d |-> [kind |-> "let", val |-> Tdz],
             f |-> [kind |-> "function", val |-> <<"fun", "boom">>]],
   trace |-> <<>>]

Lit(v) == <<"lit", v>>
Name(x) == <<"name", x>>
Tap(n, v) == <<"tap", n, v>>
At(e, key) == <<"member", e, key>>
Dot(e, k) == <<"member", e, Lit(Str(k))>>
CallOf(e, args) == <<"call", e, [i \in DOMAIN args |-> <<FALSE, args[i]>>]>>
Calls(f) == CallOf(Lit(<<"fun", f>>), <<>>)

Values == {Undefined, Null, Bool(TRUE), Num(0), Num(2), Str("1"), Str(""), Str("m"),
           Arr, Both, Neither, <<"fun", "one">>}
Converts(e) == e \in {Tap(i, v) : i \in 1..2, v \in {Both, Neither}}

\* The right operands that differ in what they do.
Rights == {Tap(2, Num(3)), Tap(2, Both), Calls("boom"), Name("d"),
           <<"assign", "=", Name("x"), Lit(Null)>>,
           <<"assign", "=", Dot(Lit(Obj), "a"), Lit(Num(4))>>,
           <<"update", Name("x"), 1, TRUE>>}

Targets == {Name(x) : x \in {"x", "c", "d", "f"}} \cup
           {Dot(Lit(Obj), "a"), Dot(Lit(Obj), "n"), Dot(Calls("self"), "a"),
            At(Tap(1, Obj), Tap(4, Both)), At(Lit(Null), Tap(4, Both)),
            At(Tap(1, Arr), Lit(Str("0")))}

Operators == {"+", "-", "<", "<=", ">", ">=", "==", "===", "in"}

Init == input = <<"none">> /\ output = <<>>

\* One expression is evaluated on its own.
Run(e) == input' = <<"expression", e>> /\ UNCHANGED output

Evaluate ==
  /\ input[1] = "expression" /\ output = <<>>
  /\ output' = <<Eval(input[2], Start)>>
  /\ UNCHANGED input

Evaluated == input[1] = "expression" /\ output # <<>>
Idle == input = <<"none">>

\* README's Goja would convert the left operand of > and <= first, and look at
\* the right operand of in before it converts the key: two exceptions.
RunBinary ==
  Idle /\ \E op \in Operators, a, b \in Values :
    /\ op \in {">", "<="} => ~({a, b} \subseteq {Both, Neither})
    /\ op = "in" => IsObject(b) \/ a \notin {Both, Neither}
    /\ Run(<<"binary", op, Tap(1, a), Tap(2, b)>>)

RunLogical ==
  Idle /\ \E op \in {"&&", "||", "??"}, a \in Values, e \in Rights :
    Run(<<"binary", op, Tap(1, a), e>>)

RunUnary ==
  Idle /\ \E v \in Values : \E op \in {"typeof", "!", "void", "-", "instanceof Array",
                                       "instanceof Object"} :
    \/ Run(<<"unary", op, Tap(1, v)>>)
    \/ Run(<<"cond", Tap(1, v), Calls("boom"), <<"unary", op, Name("d")>>>>)

RunAssign ==
  Idle /\ \E op \in {"=", "+", "-", "&&", "||", "??"}, t \in Targets, e \in Rights :
    Run(<<"assign", op, t, e>>)

RunUpdate ==
  Idle /\ \E t \in Targets \cup {Dot(Lit(Arr), "1")}, d \in {1, -1}, postfix \in BOOLEAN :
    Run(<<"update", t, d, postfix>>)

RunDelete ==
  Idle /\ \E t \in {u \in Targets : u[1] = "member"} :
    Run(<<"seq", <<<<"delete", t[2], t[3]>>, t>>>>)

\* The chains of up to three links, with and without ?. before each.
Links == {<<"member", Lit(Str("a"))>>, <<"member", Lit(Str("n"))>>,
          <<"member", Tap(7, Both)>>,
          <<"call", <<>>>>, <<"call", <<<<FALSE, Tap(8, Num(0))>>, <<TRUE, Lit(Arr)>>>>>>}

Link(e, optional, l) ==
  <<l[1], IF optional THEN <<"optional", e>> ELSE e, l[2]>>

\* Left out: a method called without ?. on a nullish receiver, with arguments that
\* may have effects: the code finds out after them (README, Other divergences).
RECURSIVE Settled(_)
Settled(e) ==
  CASE e[1] \in {"optional", "member"} -> Settled(e[2])
    [] e[1] = "call" ->
         /\ Settled(e[2])
         /\ e[2][1] = "member" /\ e[3] # <<>> =>
              LET r == Eval(e[2][2], Start) IN r.err # "none" \/ ~Nullish(r.v)
    [] OTHER -> TRUE

RunChain ==
  Idle /\ \E v \in {Undefined, Obj, <<"fun", "self">>, <<"fun", "nothing">>},
             a, b, c \in Links, o, p, q \in BOOLEAN :
    LET e == Link(Link(Link(Tap(1, v), o, a), p, b), q, c)
    IN  Settled(e) /\ Run(Dot(<<"chain", e>>, "a"))

\* Lists of two elements or properties.
Elems == {<<FALSE, Tap(1, Num(1))>>, <<FALSE, Calls("boom")>>, <<TRUE, Tap(2, Arr)>>,
          <<TRUE, Tap(3, Undefined)>>, <<FALSE, Name("d")>>,
          <<TRUE, <<"seq", <<<<"delete", Lit(Arr), Lit(Str("0"))>>, Lit(Arr)>>>>>>}

Properties == {<<"prop", Tap(1, Both), Tap(2, Num(1))>>, <<"prop", Tap(1, Neither), Tap(2, Null)>>,
               <<"prop", Lit(Str("a")), Calls("boom")>>, <<"spread", Tap(3, Obj)>>,
               <<"spread", Tap(3, Null)>>, <<"spread", Tap(3, Both)>>,
               <<"prop", Lit(Str("m")), <<"assign", "=", Dot(Lit(Obj), "a"), Lit(Null)>>>>}

RunList ==
  Idle /\ \/ \E a, b \in Elems : Run(<<"array", <<a, b>>>>)
          \/ \E a, b \in Elems : Run(<<"call", Tap(9, <<"fun", "one">>), <<a, b>>>>)
          \/ \E a, b \in Properties, c \in {<<"spread", Lit(Arr)>>, <<"spread", Lit(Obj)>>} :
               Run(<<"object", <<c, a, b>>>>)
          \/ \E a, b \in Values : Run(<<"template", <<Tap(1, a), Tap(2, b)>>>>)

---------------------------------------------------------------------------
\* Destructuring: targets without an effect take any default (see README for
\* the others), a declaration binds names.
Defaults == {Nothing, Tap(5, Num(7)), Calls("boom"),
             <<"assign", "=", At(Lit(Arr), Lit(Str("1"))), Lit(Null)>>}

Leaf(e) == <<"target", e>>
Leaves(init) == {Leaf(Name(x)) : x \in {"x", "d"}} \cup
                IF init THEN {} ELSE {Leaf(Name("c")), Leaf(Dot(Lit(Obj), "a"))}

Effective == {Leaf(At(Tap(1, Obj), Tap(4, Both))), Leaf(Dot(Lit(Null), "a"))}

Slots(init) ==
  {<<p, def>> : p \in Leaves(init), def \in Defaults} \cup
  {<<p, Nothing>> : p \in IF init THEN {} ELSE Effective} \cup
  {<<<<"object", <<<<Lit(Str("a")), Leaf(Name("x")), Tap(6, Num(2))>>>>, Nothing>>, def>> :
     def \in {Nothing, Lit(Obj)}}

Sources == {Obj, Arr, Null}
Rests(init) == {Nothing, Leaf(Name("x"))}

RunArrayPattern ==
  Idle /\ \E init \in BOOLEAN : \E a, b \in Slots(init), rest \in Rests(init), v \in Sources :
    Run(<<"bind", <<"array", <<a, b>>, rest>>, Tap(9, v), init>>)

Keys == {Lit(Str("a")), Lit(Str("n")), Lit(Str("0")), Tap(3, Both)}

RunObjectPattern ==
  Idle /\ \E init \in BOOLEAN : \E k, l \in Keys, a \in Slots(init), b \in Leaves(init),
             rest \in Rests(init), v \in Sources :
    Run(<<"bind", <<"object", <<<<k, a[1], a[2]>>, <<l, b, Nothing>>>>, rest>>, Tap(9, v), init>>)

---------------------------------------------------------------------------
\* The cases left out above: a method call whose receiver is nullish or whose
\* arguments replace the method, and a default that deletes the next element.
RunMethodCall ==
  Idle /\ \E k \in {"a", "n", "m"}, arg \in {Tap(8, Num(0)), Calls("swap")} :
    \/ Run(CallOf(Dot(Tap(1, Obj), k), <<arg>>))
    \/ Run(CallOf(Dot(Dot(Tap(1, Obj), k), "m"), <<arg>>))

RunDeletingPattern ==
  Idle /\ \E e \in Leaves(FALSE), f \in Leaves(FALSE), rest \in Rests(FALSE),
             key \in {"0", "1"} :
    Run(<<"seq", <<<<"assign", "=", At(Lit(Arr), Lit(Str("0"))), Lit(Undefined)>>,
                   <<"bind", <<"array", <<<<e, <<"delete", Lit(Arr), Lit(Str(key))>>>>,
                                          <<f, Nothing>>>>, rest>>, Lit(Arr), FALSE>>>>>>)

Next == \/ RunBinary \/ RunLogical \/ RunUnary \/ RunAssign \/ RunUpdate \/ RunDelete
        \/ RunChain \/ RunList \/ RunArrayPattern \/ RunObjectPattern \/ Evaluate

Spec == Init /\ [][Next]_vars
MethodCallSpec == Init /\ [][RunMethodCall \/ Evaluate]_vars
DeletingSpec == Init /\ [][RunDeletingPattern \/ Evaluate]_vars

\* README: every accepted script matches JavaScript.  The value of an
\* expression, what it throws, its effects in their order and what it leaves in
\* the heap and the variables are those that ECMAScript gives it.
EvaluatesAsJavaScript ==
  Evaluated => output[1] = JsEval(input[2], Start)

\* value.go of the hole marker: every read converts it to undefined.  What is not
\* an element of an array is never the marker.
HolesStayInArrays == Evaluated =>
  /\ \A x \in DOMAIN output[1].st.vars : output[1].st.vars[x].val # Hole
  /\ \A i \in DOMAIN output[1].st.heap : LET o == output[1].st.heap[i]
       IN  o.kind = "object" => \A k \in DOMAIN o.vals : o.vals[k] # Hole
=============================================================================
