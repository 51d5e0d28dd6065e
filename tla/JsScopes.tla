------------------------------ MODULE JsScopes ------------------------------
(***************************************************************************)
(* The same programs under the environments of ECMAScript: each is a       *)
(* record of bindings by name with an outer one, a name is looked up when  *)
(* it is used, nothing is resolved ahead, shared or used again.            *)
(* A namespace is a value like any other.                                  *)
(***************************************************************************)
EXTENDS Integers, Sequences, FiniteSets, TLC
LOCAL INSTANCE SequencesExt

JsNone == <<"absent">>
JsUndefined == <<"undefined">>
JsDead == <<"tdz">>

Outcome(k, v, st) == [k |-> k, v |-> v, st |-> st]
JsThen(r, Op(_, _)) == IF r.k = "normal" THEN Op(r.v, r.st) ELSE r

\* st has the environments and the log; names is a function to [v, kind].
NewEnv(outer, names, st) ==
  [st EXCEPT !.envs = Append(@, [outer |-> outer, names |-> names])]
Last1(st) == Len(st.envs)

Binding(v, kind) == [v |-> v, kind |-> kind]

RECURSIVE Find(_, _, _)
Find(x, env, st) ==
  IF x \in DOMAIN st.envs[env].names THEN env ELSE Find(x, st.envs[env].outer, st)

JsRead(x, env, st) ==
  LET b == st.envs[Find(x, env, st)].names[x]
  IN  IF b.v = JsDead THEN Outcome("throw", <<"ReferenceError">>, st)
      ELSE Outcome("normal", b.v, st)

Initialize(x, v, env, st) == [st EXCEPT !.envs[Find(x, env, st)].names[x].v = v]

JsWrite(x, v, env, st) ==
  LET b == st.envs[Find(x, env, st)].names[x]
  IN  CASE b.v = JsDead -> Outcome("throw", <<"ReferenceError">>, st)
        [] b.v # JsDead /\ b.kind = "const" -> Outcome("throw", <<"TypeError">>, st)
        [] b.kind = "own name" -> Outcome("normal", v, st)
        [] OTHER -> Outcome("normal", v, Initialize(x, v, env, st))

---------------------------------------------------------------------------
\* VarDeclaredNames and the lexical declarations of a list.
RECURSIVE VarNames(_)
VarNames(list) == UNION {
  LET b == list[i]
  IN  CASE b[1] = "var" -> {b[2]}
        [] b[1] = "block" -> VarNames(b[2])
        [] b[1] \in {"switch", "for"} -> VarNames(b[3])
        [] b[1] = "forof" -> VarNames(b[4]) \cup {x \in {b[3]} : b[2] = "var"}
        [] b[1] = "try" -> VarNames(b[2]) \cup VarNames(b[4])
        [] OTHER -> {} : i \in DOMAIN list}

Declares(list, kinds) == {list[i] : i \in {j \in DOMAIN list : list[j][1] \in kinds}}
FunctionNames(list) == {b[2] : b \in Declares(list, {"function"})}

LexicalBindings(list) ==
  LET ds == Declares(list, {"let", "const", "alias"})
  IN  [x \in {d[2] : d \in ds} |->
         Binding(JsDead, IF <<x, "let">> \in {<<d[2], d[1]>> : d \in ds} THEN "let" ELSE "const")]

RECURSIVE JsEval(_, _, _), JsArgs(_, _, _, _, _), JsParams(_, _, _, _, _),
          JsExec(_, _, _), JsList(_, _, _, _), JsRounds(_, _, _, _, _)

JsClosure(name, params, body, env, st) ==
  LET s == NewEnv(env, name :> Binding(JsUndefined, "own name"), st)
      f == <<"function", params, body, Last1(s)>>
  IN  IF name = "" THEN Outcome("normal", <<"function", params, body, env>>, st)
      ELSE Outcome("normal", f, Initialize(name, f, Last1(s), s))

JsCompleted(r) ==
  CASE r.k = "return" -> Outcome("normal", r.v, r.st)
    [] r.k = "normal" -> Outcome("normal", JsUndefined, r.st)
    [] OTHER -> r

\* The functions of the body exist before its first statement.
JsStatements(body, at, st) ==
  LET Hoisted(t, b) == Initialize(b[2], <<"function", b[3], b[4], at>>, at, t)
  IN  JsCompleted(JsList(body, 1, at,
        FoldLeft(Hoisted, st, SelectSeq(body, LAMBDA b : b[1] = "function"))))

\* FunctionDeclarationInstantiation, once the parameters are bound in env.
JsBody(params, body, env, st) ==
  LET given == st.envs[env].names
      vars == [x \in VarNames(body) \cup FunctionNames(body) |->
                 Binding(IF x \in DOMAIN given THEN given[x].v ELSE JsUndefined, "var")]
      names == LexicalBindings(body) @@ vars
      simple == \A i \in DOMAIN params : params[i][2] = JsNone
  IN  JsStatements(body, IF simple THEN env ELSE Last1(st) + 1,
                   IF simple THEN [st EXCEPT !.envs[env].names = names @@ given]
                   ELSE NewEnv(env, names, st))

JsArgs(args, i, out, env, st) ==
  IF i > Len(args) THEN Outcome("normal", out, st)
  ELSE JsThen(JsEval(args[i], env, st), LAMBDA v, s : JsArgs(args, i + 1, Append(out, v), env, s))

JsParams(params, i, vs, env, st) ==
  IF i > Len(params) THEN Outcome("normal", JsUndefined, st)
  ELSE LET v == IF i <= Len(vs) THEN vs[i] ELSE JsUndefined
       IN  JsThen(IF v = JsUndefined /\ params[i][2] # JsNone
                  THEN JsEval(params[i][2], env, st) ELSE Outcome("normal", v, st),
                  LAMBDA w, s : JsParams(params, i + 1, vs, env,
                                         Initialize(params[i][1], w, env, s)))

JsApply(f, vs, st) ==
  IF f[1] # "function" THEN Outcome("throw", <<"not callable">>, st)
  ELSE LET names == [x \in {f[2][i][1] : i \in DOMAIN f[2]} |-> Binding(JsDead, "let")]
           s == NewEnv(f[4], names, st)
           at == Last1(s)
       IN  JsThen(JsParams(f[2], 1, vs, at, s), LAMBDA v, t : JsBody(f[2], f[3], at, t))

JsEval(e, env, st) ==
  CASE e[1] = "num" -> Outcome("normal", <<"num", e[2]>>, st)
    [] e[1] = "name" -> JsRead(e[2], env, st)
    [] e[1] = "set" -> JsThen(JsEval(e[3], env, st), LAMBDA v, s : JsWrite(e[2], v, env, s))
    [] e[1] = "fn" -> JsClosure(e[2], e[3], e[4], env, st)
    [] e[1] = "call" -> JsThen(JsEval(e[2], env, st), LAMBDA f, s :
                          JsThen(JsArgs(e[3], 1, <<>>, env, s), LAMBDA vs, t : JsApply(f, vs, t)))
    [] e[1] = "tool" -> JsThen(JsRead(e[2], env, st), LAMBDA v, s :
                          IF v # <<"namespace">> THEN Outcome("throw", <<"not callable">>, s)
                          ELSE Outcome("normal", JsUndefined, [s EXCEPT !.log = Append(@, "tool")]))

---------------------------------------------------------------------------
JsList(list, i, env, st) ==
  IF i > Len(list) THEN Outcome("normal", JsUndefined, st)
  ELSE JsThen(JsExec(list[i], env, st), LAMBDA v, s : JsList(list, i + 1, env, s))

JsBlock(list, env, st) ==
  LET s == NewEnv(env, LexicalBindings(list), st) IN JsList(list, 1, Last1(s), s)

\* CreatePerIterationEnvironment before every round, closures or not.
JsRounds(b, n, v, env, st) ==
  LET i == v + IF n = 1 THEN 0 ELSE 1
      at == Last1(st) + 1
      s == NewEnv(env, b[2] :> Binding(<<"num", i>>, "let"), st)
  IN  IF i > 2 THEN Outcome("normal", JsUndefined, s)
      ELSE JsThen(JsBlock(b[3], at, s), LAMBDA w, t :
                    JsRounds(b, n + 1, t.envs[at].names[b[2]].v[2], env, t))

JsForOf(b, env, st) ==
  LET Round(n, r) == JsThen(r, LAMBDA v, s :
        IF b[2] = "var" THEN JsBlock(b[4], env, Initialize(b[3], <<"num", n>>, env, s))
        ELSE LET t == NewEnv(env, b[3] :> Binding(<<"num", n>>, b[2]), s)
             IN  JsBlock(b[4], Last1(t), t))
  IN  Round(2, Round(1, Outcome("normal", JsUndefined, st)))

JsCatch(r, b, env) ==
  IF r.k # "throw" THEN r
  ELSE JsBlock(b[4], Last1(r.st) + 1, NewEnv(env, b[3] :> Binding(r.v, "let"), r.st))

JsExec(b, env, st) ==
  LET Init(e) == IF e = JsNone THEN Outcome("normal", JsUndefined, st) ELSE JsEval(e, env, st)
      Bound(v, s) == Outcome("normal", v, Initialize(b[2], v, env, s))
  IN  CASE b[1] \in {"let", "const"} -> JsThen(Init(b[3]), Bound)
        [] b[1] = "var" -> IF b[3] = JsNone THEN Init(JsNone) ELSE JsThen(Init(b[3]), Bound)
        [] b[1] = "alias" -> Bound(<<"namespace">>, st)
        [] b[1] = "function" -> Init(JsNone)
        [] b[1] = "log" -> JsThen(JsEval(b[2], env, st), LAMBDA v, s :
                             Outcome("normal", JsUndefined, [s EXCEPT !.log = Append(@, v)]))
        [] b[1] = "return" -> JsThen(JsEval(b[2], env, st), LAMBDA v, s :
                                Outcome("return", v, s))
        [] b[1] = "block" -> JsBlock(b[2], env, st)
        [] b[1] = "switch" -> LET s == NewEnv(env, LexicalBindings(b[3]), st)
                              IN  JsList(b[3], b[2], Last1(s), s)
        [] b[1] = "for" -> JsRounds(b, 1, 1, env, st)
        [] b[1] = "forof" -> JsForOf(b, env, st)
        [] b[1] = "try" -> JsCatch(JsBlock(b[2], env, st), b, env)

JsRun(body) ==
  LET st == [envs |-> <<[outer |-> 0, names |-> <<>>]>>, log |-> <<>>]
  IN  JsBody(<<>>, body, 1, st)
=============================================================================
