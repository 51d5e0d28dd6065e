--------------------------- MODULE JsExpressions ---------------------------
(***************************************************************************)
(* The same expressions as ECMAScript defines them, by References: a name  *)
(* or a member is evaluated to a Reference, <<"var", x>>, <<"prop", base,   *)
(* key>> or <<"value", v>>, which is read (GetValue) or written (PutValue)  *)
(* later.  A member, call or optional chain is a list of links that is     *)
(* walked from the left, and that ?. may leave at any link.                *)
(***************************************************************************)
EXTENDS Heap
LOCAL INSTANCE SequencesExt

Nothing == <<"absent">>

RECURSIVE JsRef(_, _), JsLinks(_), JsWalk(_, _, _, _), JsList(_, _, _, _),
          JsConvert(_, _, _), JsTemplate(_, _, _), JsDefine(_, _, _, _),
          JsBind(_, _, _, _), JsBindList(_, _, _, _, _), JsBindProps(_, _, _, _, _, _)

JsGet(ref, st) ==
  CASE ref[1] = "value" -> Ok(ref[2], st)
    [] ref[1] = "var" -> ReadName(ref[2], st)
    [] ref[1] = "prop" -> GetProp(ref[2], ref[3], st)

JsPut(ref, v, st) ==
  Then(IF ref[1] = "var" THEN StoreName(ref[2], v, st) ELSE SetProp(ref[2], ref[3], v, st),
       LAMBDA w, s : Ok(v, s))

JsEval(e, st) == Then(JsRef(e, st), JsGet)

---------------------------------------------------------------------------
\* OrdinaryToPrimitive: the methods, own or inherited, in the order of the hint.
JsMethod(v, m, st) ==
  LET o == st.heap[v[2]] IN IF HasOwn(o, m) THEN Own(o, m) ELSE <<"inherited", m>>

JsInvoke(v, f, st) ==
  CASE f = <<"inherited", "toString">> -> Ok(Str("object"), st)
    [] f = <<"inherited", "valueOf">> -> Ok(v, st)
    [] OTHER -> Call(f, <<>>, st)

JsConvert(v, methods, st) ==
  IF methods = <<>> THEN Throw(TypeError, st)
  ELSE LET f == JsMethod(v, Head(methods), st)
       IN  IF f[1] \notin {"fun", "inherited"} THEN JsConvert(v, Tail(methods), st)
           ELSE Then(JsInvoke(v, f, st), LAMBDA w, s :
                  IF IsObject(w) THEN JsConvert(v, Tail(methods), s) ELSE Ok(w, s))

JsPrimitive(v, hint, st) ==
  LET methods == <<"valueOf", "toString">>
  IN  IF v[1] # "ref" THEN Ok(v, st)
      ELSE JsConvert(v, IF hint = "string" THEN Reverse(methods) ELSE methods, st)

JsKey(v, st) ==
  Then(JsPrimitive(v, "string", st), LAMBDA p, s : Ok(Str(Text(p)), s))

---------------------------------------------------------------------------
\* Operators on two values: both are converted, the left one first, always.
JsConverted(op, a, b, p, q) ==
  CASE op = "+" -> IF "str" \in {p[1], q[1]} THEN Str(Text(p) \o Text(q))
                   ELSE Sum(Numeric(p), Numeric(q))
    [] op = "-" -> Difference(Numeric(p), Numeric(q))
    [] op = "<" -> Bool(Less(p, q))
    [] op = ">" -> Bool(Less(q, p))
    [] op = "<=" -> Bool(~Less(q, p) /\ ~Unordered(p, q))
    [] op = ">=" -> Bool(~Less(p, q) /\ ~Unordered(p, q))

\* IsLooselyEqual, once an object has met a primitive.
JsAlike(p, q) ==
  IF p[1] = q[1] THEN StrictlyEqual(p, q)
  ELSE \/ Nullish(p) /\ Nullish(q)
       \/ ~Nullish(p) /\ ~Nullish(q) /\ StrictlyEqual(Numeric(p), Numeric(q))

JsLooselyEqual(a, b, st) ==
  CASE IsObject(a) /\ IsObject(b) -> Ok(Bool(a = b), st)
    [] Nullish(a) \/ Nullish(b) -> Ok(Bool(Nullish(a) /\ Nullish(b)), st)
    [] OTHER -> Then(JsPrimitive(a, "default", st), LAMBDA p, s :
                  Then(JsPrimitive(b, "default", s), LAMBDA q, t :
                         Ok(Bool(JsAlike(p, q)), t)))

JsOperate(op, a, b, st) ==
  LET hint == IF op = "+" THEN "default" ELSE "number"
  IN  CASE op = "==" -> JsLooselyEqual(a, b, st)
        [] op = "===" -> Ok(Bool(StrictlyEqual(a, b)), st)
        [] op = "in" -> IF ~IsObject(b) THEN Throw(TypeError, st)
                        ELSE Then(JsKey(a, st), LAMBDA k, s : HasProp(b, k[2], s))
        [] OTHER -> Then(JsPrimitive(a, hint, st), LAMBDA p, s :
                      Then(JsPrimitive(b, hint, s), LAMBDA q, t :
                             Ok(JsConverted(op, a, b, p, q), t)))

JsUnary(op, v, st) ==
  CASE op = "typeof" -> Ok(Str(TypeOf(v)), st)
    [] op = "void" -> Ok(Undefined, st)
    [] op = "!" -> Ok(Bool(~Truthy(v)), st)
    [] op = "instanceof Array" -> Ok(Bool(IsArray(v, st)), st)
    [] op = "instanceof Object" -> Ok(Bool(IsObject(v)), st)
    [] op = "-" -> Then(JsPrimitive(v, "number", st), LAMBDA p, s :
                          Ok(Difference(Num(0), Numeric(p)), s))

JsStops(op, v) ==
  \/ op = "&&" /\ ~Truthy(v)
  \/ op = "||" /\ Truthy(v)
  \/ op = "??" /\ ~Nullish(v)

JsLogical == {"&&", "||", "??"}

JsBinary(op, l, r, st) ==
  Then(JsEval(l, st), LAMBDA a, s :
    IF op \in JsLogical THEN IF JsStops(op, a) THEN Ok(a, s) ELSE JsEval(r, s)
    ELSE Then(JsEval(r, s), LAMBDA b, t : JsOperate(op, a, b, t)))

---------------------------------------------------------------------------
JsLinks(e) ==
  CASE e[1] = "member" -> Append(JsLinks(e[2]), <<"member", e[3]>>)
    [] e[1] = "call" -> Append(JsLinks(e[2]), <<"call", e[3]>>)
    [] e[1] = "optional" -> Append(JsLinks(e[2]), <<"?.">>)
    [] OTHER -> <<<<"start", e>>>>

JsWalk(links, i, ref, st) ==
  IF i > Len(links) THEN Ok(ref, st)
  ELSE LET Next(r, s) == JsWalk(links, i + 1, r, s)
       IN  Then(JsGet(ref, st), LAMBDA v, s :
             CASE links[i][1] = "?." ->
                    IF Nullish(v) THEN Ok(<<"value", Undefined>>, s) ELSE Next(ref, s)
               [] links[i][1] = "member" ->
                    Then(JsEval(links[i][2], s), LAMBDA n, t :
                      Then(JsKey(n, t), LAMBDA k, u : Next(<<"prop", v, k[2]>>, u)))
               [] links[i][1] = "call" ->
                    Then(JsList(links[i][2], 1, <<>>, s), LAMBDA args, t :
                      Then(Call(v, args, t), LAMBDA w, u : Next(<<"value", w>>, u))))

JsList(list, i, out, st) ==
  IF i > Len(list) THEN Ok(out, st)
  ELSE Then(JsEval(list[i][2], st), LAMBDA v, s :
         Then(IF list[i][1] THEN Items(v, s) ELSE Ok(<<v>>, s), LAMBDA more, t :
                JsList(list, i + 1, out \o more, t)))

JsTemplate(list, text, st) ==
  IF list = <<>> THEN Ok(Str(text), st)
  ELSE Then(JsEval(Head(list), st), LAMBDA v, s :
         Then(JsKey(v, s), LAMBDA x, t : JsTemplate(Tail(list), text \o x[2], t)))

\* The own properties of v but the excluded ones, defined on o.
JsCopy(o, v, excluded, st) ==
  IF v[1] # "ref" THEN o
  ELSE LET src == st.heap[v[2]]
       IN  FoldLeft(LAMBDA dst, k : IF HasOwn(src, k) /\ k \notin excluded
                                    THEN WithOwn(dst, k, Own(src, k)) ELSE dst,
                    o, src.keys)

JsDefine(props, i, o, st) ==
  IF i > Len(props) THEN New(o, st)
  ELSE IF props[i][1] = "spread"
       THEN Then(JsEval(props[i][2], st), LAMBDA v, s :
                   JsDefine(props, i + 1, JsCopy(o, v, {}, s), s))
       ELSE Then(JsEval(props[i][2], st), LAMBDA n, s :
              Then(JsKey(n, s), LAMBDA k, t :
                Then(JsEval(props[i][3], t), LAMBDA v, u :
                       JsDefine(props, i + 1, WithOwn(o, k[2], v), u))))

---------------------------------------------------------------------------
JsAssign(op, target, e, st) ==
  Then(JsRef(target, st), LAMBDA ref, s :
    IF op = "=" THEN Then(JsEval(e, s), LAMBDA v, t : JsPut(ref, v, t))
    ELSE Then(JsGet(ref, s), LAMBDA old, t :
           IF op \in JsLogical /\ JsStops(op, old) THEN Ok(old, t)
           ELSE Then(JsEval(e, t), LAMBDA v, u :
                  Then(IF op \in JsLogical THEN Ok(v, u) ELSE JsOperate(op, old, v, u),
                       LAMBDA x, w : JsPut(ref, x, w)))))

JsUpdate(target, d, postfix, st) ==
  Then(JsRef(target, st), LAMBDA ref, s :
    Then(JsGet(ref, s), LAMBDA v, t :
      Then(JsPrimitive(v, "number", t), LAMBDA p, u :
        Then(JsPut(ref, Sum(Numeric(p), Num(d)), u), LAMBDA new, w :
               Ok(IF postfix THEN Numeric(p) ELSE new, w)))))

---------------------------------------------------------------------------
\* A target is a Reference before the value it takes is read; a declaration
\* initializes the name.
JsTarget(p, init, st) ==
  IF p[1] = "target" /\ ~init THEN JsRef(p[2], st) ELSE Ok(p, st)

JsStore(p, ref, v, init, st) ==
  CASE p[1] # "target" -> JsBind(p, v, init, st)
    [] init -> Ok(v, [st EXCEPT !.vars[p[2][2]].val = v])
    [] OTHER -> JsPut(ref, v, st)

JsDefault(v, def, st) ==
  IF v = Undefined /\ def # Nothing THEN JsEval(def, st) ELSE Ok(v, st)

JsBindOne(p, def, init, st, Value(_)) ==
  Then(JsTarget(p, init, st), LAMBDA ref, s :
    Then(Value(s), LAMBDA v, t :
      Then(JsDefault(v, def, t), LAMBDA w, u : JsStore(p, ref, w, init, u))))

JsBind(p, v, init, st) ==
  CASE p[1] = "target" -> JsBindOne(p, Nothing, init, st, LAMBDA s : Ok(v, s))
    [] p[1] = "array" -> Then(Items(v, st), LAMBDA items, s : JsBindList(p, 1, v, init, s))
    [] p[1] = "object" -> IF Nullish(v) THEN Throw(TypeError, st)
                          ELSE JsBindProps(p, 1, v, {}, init, st)

\* The iterator of an array reads each element when the pattern takes it.
JsBindList(p, i, v, init, st) ==
  LET n == Len(p[2])
      Rest(s) == LET items == Items(v, s).v IN New(Array(SubSeq(items, n + 1, Len(items))), s)
  IN  CASE i <= n -> Then(JsBindOne(p[2][i][1], p[2][i][2], init, st,
                                    LAMBDA s : GetProp(v, ToString(i - 1), s)),
                          LAMBDA w, t : JsBindList(p, i + 1, v, init, t))
        [] p[3] = Nothing -> Ok(Undefined, st)
        [] OTHER -> JsBindOne(p[3], Nothing, init, st, Rest)

JsBindProps(p, i, v, bound, init, st) ==
  LET Rest(s) == New(JsCopy(Object(<<>>, <<>>), v, bound, s), s)
  IN  CASE i <= Len(p[2]) ->
             Then(JsEval(p[2][i][1], st), LAMBDA n, s :
               Then(JsKey(n, s), LAMBDA k, t :
                 Then(JsBindOne(p[2][i][2], p[2][i][3], init, t,
                                LAMBDA u : GetProp(v, k[2], u)),
                      LAMBDA w, x : JsBindProps(p, i + 1, v, bound \cup {k[2]}, init, x))))
        [] p[3] = Nothing -> Ok(Undefined, st)
        [] OTHER -> JsBindOne(p[3], Nothing, init, st, Rest)

---------------------------------------------------------------------------
JsValue(e, st) ==
  CASE e[1] = "lit" -> Ok(e[2], st)
    [] e[1] = "tap" -> Ok(e[3], Log(<<"tap", e[2]>>, st))
    [] e[1] = "cond" -> Then(JsEval(e[2], st), LAMBDA v, s :
                               JsEval(IF Truthy(v) THEN e[3] ELSE e[4], s))
    [] e[1] = "seq" -> FoldLeft(LAMBDA r, x : Then(r, LAMBDA v, s : JsEval(x, s)),
                                Ok(Undefined, st), e[2])
    [] e[1] = "template" -> JsTemplate(e[2], "", st)
    [] e[1] = "array" -> Then(JsList(e[2], 1, <<>>, st), LAMBDA a, s : New(Array(a), s))
    [] e[1] = "object" -> JsDefine(e[2], 1, Object(<<>>, <<>>), st)
    [] e[1] = "unary" -> Then(JsEval(e[3], st), LAMBDA v, s : JsUnary(e[2], v, s))
    [] e[1] = "delete" -> Then(JsRef(<<"member", e[2], e[3]>>, st), LAMBDA ref, s :
                                 DeleteProp(ref[2], ref[3], s))
    [] e[1] = "update" -> JsUpdate(e[2], e[3], e[4], st)
    [] e[1] = "binary" -> JsBinary(e[2], e[3], e[4], st)
    [] e[1] = "assign" -> JsAssign(e[2], e[3], e[4], st)
    [] e[1] = "bind" -> Then(JsEval(e[3], st), LAMBDA v, s :
                          Then(JsBind(e[2], v, e[4], s), LAMBDA w, t : Ok(v, t)))

JsRef(e, st) ==
  CASE e[1] = "name" -> Ok(<<"var", e[2]>>, st)
    [] e[1] = "chain" -> JsRef(e[2], st)
    [] e[1] \in {"member", "call"} ->
         LET links == JsLinks(e)
         IN  Then(JsRef(links[1][2], st), LAMBDA ref, s : JsWalk(links, 2, ref, s))
    [] OTHER -> Then(JsValue(e, st), LAMBDA v, s : Ok(<<"value", v>>, s))
=============================================================================
