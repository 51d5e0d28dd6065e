---------------------------- MODULE Expressions ----------------------------
(***************************************************************************)
(* How compiled expressions, calls and destructuring patterns are          *)
(* evaluated (expr.go, call.go, patterns.go, value.go): what is done, in   *)
(* which order, and what an error leaves undone.                           *)
(*                                                                         *)
(* An expression is a tuple headed by its form; a key is an expression,    *)
(* a literal for a static name:                                            *)
(*   <<"lit", v>>  <<"name", x>>  <<"tap", n, v>>: v, with effect n         *)
(*   <<"member", e, key>>  <<"optional", e>>: e?.  <<"chain", e>>: all of it *)
(*   <<"call", callee, args>>   args and list elements: <<spread, e>>      *)
(*   <<"cond", e, e, e>>  <<"seq", list>>  <<"template", list>>            *)
(*   <<"array", elems>>  <<"object", props>>: <<"prop", key, e>>, <<"spread", e>> *)
(*   <<"unary", op, e>>  <<"delete", e, key>>  <<"update", target, d, postfix>> *)
(*   <<"binary", op, e, e>>  <<"assign", op, target, e>>                   *)
(*   <<"bind", pattern, e, init>>: a declaration (init) or an assignment   *)
(* A pattern is <<"target", e>>, <<"array", elems, rest>> or <<"object",   *)
(* props, rest>> with elements <<pattern, default>>, properties <<key,     *)
(* pattern, default>>; a default or a rest may be Absent.                  *)
(***************************************************************************)
EXTENDS Heap
LOCAL INSTANCE SequencesExt

Absent == <<"absent">>
Short(st) == [v |-> Undefined, err |-> "short", st |-> st]

RECURSIVE Eval(_, _), Elements(_, _, _, _), Parts(_, _, _, _), Props(_, _, _, _),
          Sequence(_, _, _, _), Bind(_, _, _, _), BindElements(_, _, _, _, _),
          BindProps(_, _, _, _, _, _)

---------------------------------------------------------------------------
(* Conversions: an object's own valueOf and toString, in the order of the  *)
(* hint; one that is not a function is passed over.                        *)
TryMethod(v, m, st, Else(_)) ==
  LET o == st.heap[v[2]]
  IN  CASE ~HasOwn(o, m) -> IF m = "toString" THEN Ok(Str("object"), st) ELSE Else(st)
        [] ~Callable(Own(o, m)) -> Else(st)
        [] OTHER -> Then(Call(Own(o, m), <<>>, st),
                         LAMBDA w, s : IF IsObject(w) THEN Else(s) ELSE Ok(w, s))

ToPrimitive(v, hint, st) ==
  LET first == IF hint = "string" THEN "toString" ELSE "valueOf"
      second == IF hint = "string" THEN "valueOf" ELSE "toString"
  IN  IF v[1] # "ref" THEN Ok(v, st)
      ELSE TryMethod(v, first, st,
             LAMBDA s : TryMethod(v, second, s, LAMBDA t : Throw(TypeError, t)))

ToNumber(v, st) ==
  Then(ToPrimitive(v, "number", st), LAMBDA p, s : Ok(Numeric(p), s))

ToText(v, st) ==
  Then(ToPrimitive(v, "string", st), LAMBDA p, s : Ok(Str(Text(p)), s))

ToPropertyKey(v, st) == IF v[1] = "str" THEN Ok(v, st) ELSE ToText(v, st)

---------------------------------------------------------------------------
\* add: primitives first, then strings if either is one.
Add(a, b, st) ==
  Then(ToPrimitive(a, "default", st), LAMBDA p, s :
    Then(ToPrimitive(b, "default", s), LAMBDA q, t :
      Ok(IF "str" \in {p[1], q[1]} THEN Str(Text(p) \o Text(q))
         ELSE Sum(Numeric(p), Numeric(q)), t)))

Subtract(a, b, st) ==
  Then(ToNumber(a, st), LAMBDA x, s :
    Then(ToNumber(b, s), LAMBDA y, t : Ok(Difference(x, y), t)))

\* compareValues, from a to b; <= and > come with their operands exchanged.
Compare(a, b, st, Result(_, _)) ==
  Then(ToPrimitive(a, "number", st), LAMBDA p, s :
    Then(ToPrimitive(b, "number", s), LAMBDA q, t : Ok(Bool(Result(p, q)), t)))

NotLess(p, q) == ~Less(p, q) /\ ~Unordered(p, q)

\* Every round of looseEquals but the conversion of one object.
LooseEquals(a, b, st) ==
  LET Same(p, q) == IF p[1] = q[1] THEN StrictlyEqual(p, q)
                    ELSE StrictlyEqual(Numeric(p), Numeric(q))
  IN  CASE a[1] = b[1] -> Ok(Bool(StrictlyEqual(a, b)), st)
        [] Nullish(a) \/ Nullish(b) -> Ok(Bool(Nullish(a) /\ Nullish(b)), st)
        [] IsObject(a) /\ IsObject(b) -> Ok(Bool(FALSE), st)
        [] IsObject(a) -> Then(ToPrimitive(a, "default", st),
                               LAMBDA p, s : Ok(Bool(~Nullish(p) /\ Same(p, b)), s))
        [] IsObject(b) -> Then(ToPrimitive(b, "default", st),
                               LAMBDA p, s : Ok(Bool(~Nullish(p) /\ Same(a, p)), s))
        [] OTHER -> Ok(Bool(Same(a, b)), st)

In(a, b, st) ==
  Then(ToPropertyKey(a, st), LAMBDA k, s : HasProp(b, k[2], s))

Apply(op, a, b, st) ==
  CASE op = "+" -> Add(a, b, st)
    [] op = "-" -> Subtract(a, b, st)
    [] op = "<" -> Compare(a, b, st, Less)
    [] op = ">=" -> Compare(a, b, st, NotLess)
    [] op = ">" -> Compare(b, a, st, Less)
    [] op = "<=" -> Compare(b, a, st, NotLess)
    [] op = "==" -> LooseEquals(a, b, st)
    [] op = "===" -> Ok(Bool(StrictlyEqual(a, b)), st)
    [] op = "in" -> In(a, b, st)

Unary(op, e, st) ==
  Then(Eval(e, st), LAMBDA v, s :
    CASE op = "typeof" -> Ok(Str(TypeOf(v)), s)
      [] op = "!" -> Ok(Bool(~Truthy(v)), s)
      [] op = "void" -> Ok(Undefined, s)
      [] op = "instanceof Array" -> Ok(Bool(IsArray(v, s)), s)
      [] op = "instanceof Object" -> Ok(Bool(IsObject(v)), s)
      [] op = "-" -> Then(ToNumber(v, s), LAMBDA x, t : Ok(Difference(Num(0), x), t)))

---------------------------------------------------------------------------
\* A logical operator keeps its left operand in these cases.
Keeps(op, v) ==
  CASE op = "&&" -> ~Truthy(v) [] op = "||" -> Truthy(v) [] op = "??" -> ~Nullish(v)

Binary(op, l, r, st) ==
  Then(Eval(l, st), LAMBDA a, s :
    IF op \in {"&&", "||", "??"}
    THEN IF Keeps(op, a) THEN Ok(a, s) ELSE Eval(r, s)
    ELSE Then(Eval(r, s), LAMBDA b, t : Apply(op, a, b, t)))

Key(key, st) ==
  Then(Eval(key, st), LAMBDA v, s : ToPropertyKey(v, s))

\* memberParts, with what the rest does with the object and the key.
Member(e, key, st, Op(_, _, _)) ==
  Then(Eval(e, st), LAMBDA o, s : Then(Key(key, s), LAMBDA k, t : Op(o, k[2], t)))

MemberValue(e, key, st) == Member(e, key, st, GetProp)

\* An optional base that is nullish unwinds to the chain it is in.
Optional(e, st) ==
  Then(Eval(e, st), LAMBDA v, s : IF Nullish(v) THEN Short(s) ELSE Ok(v, s))

Chain(e, st) ==
  LET r == Eval(e, st) IN IF r.err = "short" THEN Ok(Undefined, r.st) ELSE r

---------------------------------------------------------------------------
\* place: where an assignment stores, the object and key evaluated once.
Prepare(target, st) ==
  IF target[1] = "name" THEN Ok(target, st)
  ELSE Member(target[2], target[3], st, LAMBDA o, k, s : Ok(<<"place", o, k>>, s))

GetPlace(p, st) ==
  IF p[1] = "name" THEN ReadName(p[2], st) ELSE GetProp(p[2], p[3], st)

\* The value of the assignment is v, whatever the store does with it.
SetPlace(p, v, st) ==
  Then(IF p[1] = "name" THEN StoreName(p[2], v, st) ELSE SetProp(p[2], p[3], v, st),
       LAMBDA w, s : Ok(v, s))

Update(target, d, postfix, st) ==
  Then(Prepare(target, st), LAMBDA p, s :
    Then(GetPlace(p, s), LAMBDA old, t :
      Then(ToNumber(old, t), LAMBDA x, u :
        Then(SetPlace(p, Sum(x, Num(d)), u), LAMBDA new, w :
          Ok(IF postfix THEN x ELSE new, w)))))

Assign_ReadsLate(op, target, e, st) ==
  Then(Prepare(target, st), LAMBDA p, s :
    IF op = "=" THEN Then(Eval(e, s), LAMBDA v, t : SetPlace(p, v, t))
    ELSE Then(Eval(e, s), LAMBDA v, t :
      Then(GetPlace(p, t), LAMBDA old, u :
        IF op \in {"&&", "||", "??"}
        THEN IF Keeps(op, old) THEN Ok(old, u) ELSE SetPlace(p, v, u)
        ELSE Then(Apply(op, old, v, u), LAMBDA x, w : SetPlace(p, x, w)))))

Assign(op, target, e, st) ==
  Then(Prepare(target, st), LAMBDA p, s :
    IF op = "=" THEN Then(Eval(e, s), LAMBDA v, t : SetPlace(p, v, t))
    ELSE Then(GetPlace(p, s), LAMBDA old, t :
      IF op \in {"&&", "||", "??"}
      THEN IF Keeps(op, old) THEN Ok(old, t)
           ELSE Then(Eval(e, t), LAMBDA v, u : SetPlace(p, v, u))
      ELSE Then(Eval(e, t), LAMBDA v, u :
             Then(Apply(op, old, v, u), LAMBDA x, w : SetPlace(p, x, w)))))

---------------------------------------------------------------------------
\* Elements of an array literal, arguments of a call.
Elements(list, i, out, st) ==
  IF i > Len(list) THEN Ok(out, st)
  ELSE Then(Eval(list[i][2], st), LAMBDA v, s :
         IF list[i][1] THEN Then(Items(v, s), LAMBDA items, t :
                                   Elements(list, i + 1, out \o items, t))
         ELSE Elements(list, i + 1, Append(out, v), s))

Parts(list, i, text, st) ==
  IF i > Len(list) THEN Ok(Str(text), st)
  ELSE Then(Eval(list[i], st), LAMBDA v, s :
         Then(ToText(v, s), LAMBDA x, t : Parts(list, i + 1, text \o x[2], t)))

\* copyProps: the own properties of an object or array; nothing of the rest.
CopyProps(o, v, st) ==
  IF v[1] # "ref" THEN o
  ELSE LET src == st.heap[v[2]]
       IN  FoldLeft(LAMBDA dst, i : WithOwn(dst, src.keys[i], src.vals[i]),
                    o, OwnPositions(src))

Props(props, i, o, st) ==
  IF i > Len(props) THEN New(o, st)
  ELSE IF props[i][1] = "spread"
       THEN Then(Eval(props[i][2], st), LAMBDA v, s :
                   Props(props, i + 1, CopyProps(o, v, s), s))
       ELSE Then(Key(props[i][2], st), LAMBDA k, s :
              Then(Eval(props[i][3], s), LAMBDA v, t :
                     Props(props, i + 1, WithOwn(o, k[2], v), t)))

Sequence(list, i, v, st) ==
  IF i > Len(list) THEN Ok(v, st)
  ELSE Then(Eval(list[i], st), LAMBDA w, s : Sequence(list, i + 1, w, s))

---------------------------------------------------------------------------
\* A method is looked up when its arguments have been evaluated; for o.m?.()
\* it is looked up before them, to see whether it is there, and again after.
MethodCall(e, key, optional, args, st) ==
  Member(e, key, st, LAMBDA o, k, s :
    Then(IF optional THEN GetProp(o, k, s) ELSE Ok(Null, s), LAMBDA f, t :
      IF optional /\ Nullish(f) THEN Short(t)
      ELSE Then(Elements(args, 1, <<>>, t), LAMBDA a, u :
             Then(GetProp(o, k, u), LAMBDA g, w : Call(g, a, w)))))

ValueCall(e, optional, args, st) ==
  Then(Eval(e, st), LAMBDA f, s :
    IF optional /\ Nullish(f) THEN Short(s)
    ELSE Then(Elements(args, 1, <<>>, s), LAMBDA a, t : Call(f, a, t)))

CallExpression(callee, args, st) ==
  LET optional == callee[1] = "optional"
      c == IF optional THEN callee[2] ELSE callee
  IN  IF c[1] = "member" THEN MethodCall(c[2], c[3], optional, args, st)
      ELSE ValueCall(c, optional, args, st)

---------------------------------------------------------------------------
ApplyDefault(v, def, st) ==
  IF def # Absent /\ v = Undefined THEN Eval(def, st) ELSE Ok(v, st)

\* identifierStore of a declaration: the variable leaves its dead zone.
Initialize(x, v, st) == Ok(v, [st EXCEPT !.vars[x].val = v])

BindTarget(e, v, init, st) ==
  CASE e[1] = "name" /\ init -> Initialize(e[2], v, st)
    [] e[1] = "name" -> StoreName(e[2], v, st)
    [] OTHER -> Member(e[2], e[3], st, LAMBDA o, k, s : SetProp(o, k, v, s))

\* denseItems: the items of an array without holes are the array's own slice,
\* which an assignment to an element changes; those of another, a copy.
Dense(v, items, st) ==
  IF Hole \in Range(st.heap[v[2]].vals) THEN <<"copy", items>> ELSE <<"slice", v[2]>>

Read(from, st) == IF from[1] = "copy" THEN from[2] ELSE st.heap[from[2]].vals

Bind(p, v, init, st) ==
  CASE p[1] = "target" -> BindTarget(p[2], v, init, st)
    [] p[1] = "array" -> Then(Items(v, st), LAMBDA items, s :
                                BindElements(p, 1, Dense(v, items, s), init, s))
    [] p[1] = "object" -> IF Nullish(v) THEN Throw(TypeError, st)
                          ELSE BindProps(p, 1, v, {}, init, st)

BindElements(p, i, from, init, st) ==
  LET n == Len(p[2])
      items == Read(from, st)
      item == IF i <= Len(items) THEN items[i] ELSE Undefined
  IN  CASE i <= n -> Then(ApplyDefault(item, p[2][i][2], st), LAMBDA v, s :
                       Then(Bind(p[2][i][1], v, init, s), LAMBDA w, t :
                              BindElements(p, i + 1, from, init, t)))
        [] p[3] = Absent -> Ok(Undefined, st)
        [] OTHER -> Then(New(Array(SubSeq(items, n + 1, Len(items))), st), LAMBDA a, s :
                           Bind(p[3], a, init, s))

\* The rest of an object pattern: its own properties but those already bound.
RestOf(v, used, st) ==
  IF v[1] = "ref"
  THEN LET o == st.heap[v[2]]
           keep == SelectSeq(OwnPositions(o), LAMBDA i : o.keys[i] \notin used)
       IN  Object([i \in DOMAIN keep |-> o.keys[keep[i]]],
                  [i \in DOMAIN keep |-> o.vals[keep[i]]])
  ELSE Object(<<>>, <<>>)

BindProps(p, i, v, used, init, st) ==
  CASE i <= Len(p[2]) ->
         Then(Key(p[2][i][1], st), LAMBDA k, s :
           Then(GetProp(v, k[2], s), LAMBDA x, t :
             Then(ApplyDefault(x, p[2][i][3], t), LAMBDA y, u :
               Then(Bind(p[2][i][2], y, init, u), LAMBDA z, w :
                      BindProps(p, i + 1, v, used \cup {k[2]}, init, w)))))
    [] p[3] = Absent -> Ok(Undefined, st)
    [] OTHER -> Then(New(RestOf(v, used, st), st), LAMBDA o, s : Bind(p[3], o, init, s))

---------------------------------------------------------------------------
Eval(e, st) ==
  CASE e[1] = "lit" -> Ok(e[2], st)
    [] e[1] = "name" -> ReadName(e[2], st)
    [] e[1] = "tap" -> Ok(e[3], Log(<<"tap", e[2]>>, st))
    [] e[1] = "member" -> MemberValue(e[2], e[3], st)
    [] e[1] = "optional" -> Optional(e[2], st)
    [] e[1] = "chain" -> Chain(e[2], st)
    [] e[1] = "call" -> CallExpression(e[2], e[3], st)
    [] e[1] = "cond" -> Then(Eval(e[2], st), LAMBDA v, s :
                               Eval(IF Truthy(v) THEN e[3] ELSE e[4], s))
    [] e[1] = "seq" -> Sequence(e[2], 1, Undefined, st)
    [] e[1] = "template" -> Parts(e[2], 1, "", st)
    [] e[1] = "array" -> Then(Elements(e[2], 1, <<>>, st), LAMBDA a, s : New(Array(a), s))
    [] e[1] = "object" -> Props(e[2], 1, Object(<<>>, <<>>), st)
    [] e[1] = "unary" -> Unary(e[2], e[3], st)
    [] e[1] = "delete" -> Member(e[2], e[3], st, DeleteProp)
    [] e[1] = "update" -> Update(e[2], e[3], e[4], st)
    [] e[1] = "binary" -> Binary(e[2], e[3], e[4], st)
    [] e[1] = "assign" -> Assign(e[2], e[3], e[4], st)
    [] e[1] = "bind" -> Then(Eval(e[3], st), LAMBDA v, s :
                          Then(Bind(e[2], v, e[4], s), LAMBDA w, t : Ok(v, t)))
=============================================================================
