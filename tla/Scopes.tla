------------------------------- MODULE Scopes -------------------------------
(***************************************************************************)
(* Names, closures and frames (compile.go, execute.go, patterns.go): the   *)
(* compiler resolves a name to a number of scopes to walk and a slot; at   *)
(* run time a scope is a frame with one value for each slot.               *)
(*                                                                         *)
(* A function body is a list of statements:                                *)
(*   <<"var" | "let" | "const", x, e>>   e may be Absent                   *)
(*   <<"function", f, params, body>>     params: a list of <<x, default>>  *)
(*   <<"alias", x>>  const x = mcp.server     <<"log", e>>  <<"return", e>> *)
(*   <<"block", list>>  <<"switch", n, list>>: enters the list at n         *)
(*   <<"for", x, list>>     for (let x = 1; x <= 2; x++)                   *)
(*   <<"forof", kind, x, list>>  of two values                             *)
(*   <<"try", list, x, handler>>                                           *)
(* and an expression is <<"num", n>>, <<"name", x>>, <<"set", x, e>>,      *)
(* <<"fn", name, params, body>> (name may be empty), <<"call", e, args>>  *)
(* or <<"tool", x>>, the call x.tool() of a namespace alias.               *)
(***************************************************************************)
EXTENDS Integers, Sequences, FiniteSets, TLC
LOCAL INSTANCE SequencesExt

Absent == <<"absent">>
Undefined == <<"undefined">>
Tdz == <<"tdz">>
Namespace == <<"namespace">>
NotInitialized == <<"ReferenceError">>
Constant == <<"TypeError">>
NotCallable == <<"not callable">>

---------------------------------------------------------------------------
(* Compile time: a scope has a slot for each name and a template of what   *)
(* its frames hold at first.  The scopes around a place, innermost last,   *)
(* are its env.                                                            *)
NoScope == [vars |-> <<>>, init |-> <<>>, ok |-> TRUE]

Lexical(kind) == kind \in {"let", "const"}

Declare(sc, x, kind) ==
  IF x \notin DOMAIN sc.vars
  THEN [sc EXCEPT !.vars = @ @@ (x :> [slot |-> Len(sc.init) + 1, kind |-> kind,
                                       alias |-> FALSE]),
                  !.init = Append(@, IF Lexical(kind) THEN Tdz ELSE Undefined)]
  ELSE LET old == sc.vars[x].kind
       IN  CASE kind = "var" /\ old \in {"var", "param", "function"} -> sc
             [] kind = "function" /\ old \in {"var", "param"} ->
                  [sc EXCEPT !.vars[x].kind = "function"]
             [] OTHER -> [sc EXCEPT !.ok = FALSE]

RECURSIVE DeclareAll(_, _)
DeclareAll(sc, list) ==
  IF list = <<>> THEN sc
  ELSE DeclareAll(Declare(sc, Head(list)[1], Head(list)[2]), Tail(list))

RECURSIVE HoistedVars(_)
HoistedVars(list) ==
  IF list = <<>> THEN <<>>
  ELSE LET b == Head(list)
           Own == CASE b[1] = "var" -> <<<<b[2], "var">>>>
                    [] b[1] = "block" -> HoistedVars(b[2])
                    [] b[1] \in {"switch", "for"} -> HoistedVars(b[3])
                    [] b[1] = "forof" /\ b[2] = "var" -> <<<<b[3], "var">>>> \o HoistedVars(b[4])
                    [] b[1] = "forof" /\ b[2] # "var" -> HoistedVars(b[4])
                    [] b[1] = "try" -> HoistedVars(b[2] \o b[4])
                    [] OTHER -> <<>>
       IN  Own \o HoistedVars(Tail(list))

Named(list, kinds) == SelectSeq(list, LAMBDA st : st[1] \in kinds)
Functions(list) ==
  LET fs == Named(list, {"function"}) IN [i \in DOMAIN fs |-> <<fs[i][2], "function">>]
Lexicals(list) ==
  LET ls == Named(list, {"let", "const", "alias"})
  IN  [i \in DOMAIN ls |-> <<ls[i][2], IF ls[i][1] = "let" THEN "let" ELSE "const">>]

LexicalScope(list) == DeclareAll(NoScope, Lexicals(list))
DeclareBody(sc, list) ==
  DeclareAll(sc, HoistedVars(list) \o Functions(list) \o Lexicals(list))

\* With a default among them the parameters have a scope of their own, which
\* they leave the dead zone of one after another; the body cannot be seen there.
HasExprs(params) == \E i \in DOMAIN params : params[i][2] # Absent
ParamScope(params) ==
  DeclareAll(NoScope, [i \in DOMAIN params |->
                         <<params[i][1], IF HasExprs(params) THEN "let" ELSE "param">>])

FunctionScopes(params, body) ==
  IF HasExprs(params) THEN <<ParamScope(params), DeclareBody(NoScope, body)>>
  ELSE <<DeclareBody(ParamScope(params), body)>>

\* leaf: the function creates no closure.
RECURSIVE Creates(_), MakesClosure(_)
Creates(e) ==
  \/ e[1] = "fn"
  \/ e[1] = "set" /\ Creates(e[3])
  \/ e[1] = "call" /\ \E x \in {e[2]} \cup Range(e[3]) : Creates(x)

MakesClosure(list) == \E i \in DOMAIN list :
  LET b == list[i]
  IN  CASE b[1] = "function" -> TRUE
        [] b[1] \in {"var", "let", "const"} -> Creates(b[3])
        [] b[1] \in {"log", "return"} -> Creates(b[2])
        [] b[1] = "block" -> MakesClosure(b[2])
        [] b[1] \in {"switch", "for"} -> MakesClosure(b[3])
        [] b[1] = "forof" -> MakesClosure(b[4])
        [] b[1] = "try" -> MakesClosure(b[2] \o b[4])
        [] b[1] = "alias" -> FALSE

\* Names resolve inside out; hops counts the scopes passed on the way.
RECURSIVE Lookup(_, _)
Lookup(x, env) ==
  LET sc == env[Len(env)]
  IN  IF x \in DOMAIN sc.vars THEN [hops |-> 0, var |-> sc.vars[x]]
      ELSE LET outer == Lookup(x, SubSeq(env, 1, Len(env) - 1))
           IN  [outer EXCEPT !.hops = @ + 1]

\* What follows the declaration of an alias is compiled knowing it.
Knowing(st, env) ==
  IF st[1] = "alias" THEN [env EXCEPT ![Len(env)].vars[st[2]].alias = TRUE] ELSE env

---------------------------------------------------------------------------
(* Run time: [frames, pool, log]; a result is [k, v, st], k "normal",      *)
(* "return" or "throw".                                                    *)
Normal(v, st) == [k |-> "normal", v |-> v, st |-> st]
Thrown(v, st) == [k |-> "throw", v |-> v, st |-> st]
Then(r, Op(_, _)) == IF r.k = "normal" THEN Op(r.v, r.st) ELSE r

NewFrame(parent, init, st) ==
  [st EXCEPT !.frames = Append(@, [parent |-> parent, vars |-> init])]
Newest(st) == Len(st.frames)

RECURSIVE Up(_, _, _)
Up(fr, hops, st) == IF hops = 0 THEN fr ELSE Up(st.frames[fr].parent, hops - 1, st)

Read(x, env, fr, st) ==
  LET found == Lookup(x, env)
      v == found.var
      val == st.frames[Up(fr, found.hops, st)].vars[v.slot]
  IN  CASE v.alias -> Normal(Namespace, st)
        [] ~v.alias /\ Lexical(v.kind) /\ val = Tdz -> Thrown(NotInitialized, st)
        [] OTHER -> Normal(val, st)

\* identifierStore; init for a declaration.
Store(x, val, init, env, fr, st) ==
  LET found == Lookup(x, env)
      v == found.var
      at == Up(fr, found.hops, st)
      dead == st.frames[at].vars[v.slot] = Tdz
      stored == Normal(val, [st EXCEPT !.frames[at].vars[v.slot] = val])
  IN  CASE init -> stored
        [] ~init /\ v.kind = "own name" -> Normal(val, st)
        [] ~init /\ Lexical(v.kind) /\ dead -> Thrown(NotInitialized, st)
        [] ~init /\ v.kind = "const" /\ ~dead -> Thrown(Constant, st)
        [] OTHER -> stored

RECURSIVE Eval(_, _, _, _), Args(_, _, _, _, _, _, _), Bind(_, _, _, _, _),
          Exec(_, _, _, _), ExecList(_, _, _, _, _), Loop(_, _, _, _, _), Hoist(_, _, _, _, _)

\* A named function expression has its own name in a scope around it.
OwnName(f) == Declare(NoScope, f, "own name")
MakeClosure(name, params, body, env, fr, st) ==
  LET Closure(e, at) == <<"closure", [params |-> params, body |-> body, env |-> e, scope |-> at]>>
      inner == NewFrame(fr, <<Undefined>>, st)
      f == Closure(Append(env, OwnName(name)), Newest(inner))
  IN  IF name = "" THEN Normal(Closure(env, fr), st)
      ELSE Normal(f, [inner EXCEPT !.frames[Newest(inner)].vars = <<f>>])

\* runBody, in the frame that holds the scope of the body.
Completed(r) ==
  CASE r.k = "return" -> Normal(r.v, r.st)
    [] r.k = "normal" -> Normal(Undefined, r.st)
    [] OTHER -> r

RunBody(body, env, fr, st) == Completed(ExecList(body, 1, env, fr, Hoist(body, 1, env, fr, st).st))

Hoist(body, i, env, fr, st) ==
  IF i > Len(body) THEN Normal(Undefined, st)
  ELSE IF body[i][1] # "function" THEN Hoist(body, i + 1, env, fr, st)
  ELSE Then(MakeClosure("", body[i][3], body[i][4], env, fr, st), LAMBDA f, s :
         Then(Store(body[i][2], f, TRUE, env, fr, s), LAMBDA v, t :
                Hoist(body, i + 1, env, fr, t)))

\* invokeDirect: the arguments go straight into the frame of the callee, and
\* the frame of a leaf comes from the pool and goes back to it.
Pools(c) == ~MakesClosure(c.body)

TakeFrame(c, init, st) ==
  IF Pools(c) /\ st.pool # <<>>
  THEN [st EXCEPT !.frames[Last(st.pool)] = [parent |-> c.scope, vars |-> init],
                  !.pool = Front(@)]
  ELSE NewFrame(c.scope, init, st)

GiveBack(c, at, r) == IF Pools(c) THEN [r EXCEPT !.st.pool = Append(@, at)] ELSE r

InvokeDirect(c, args, env, fr, st) ==
  LET sc == FunctionScopes(c.params, c.body)[1]
      at == IF Pools(c) /\ st.pool # <<>> THEN Last(st.pool) ELSE Newest(st) + 1
      r == Args(args, 1, <<>>, <<at, Len(c.params)>>, env, fr, TakeFrame(c, sc.init, st))
  IN  Then(r, LAMBDA vs, s : GiveBack(c, at, RunBody(c.body, Append(c.env, sc), at, s)))

\* The arguments in turn; into the n first slots of a frame, if at is <<frame, n>>.
Args(args, i, out, at, env, fr, st) ==
  IF i > Len(args) THEN Normal(out, st)
  ELSE Then(Eval(args[i], env, fr, st), LAMBDA v, s :
         Args(args, i + 1, Append(out, v), at, env, fr,
              IF at # <<>> /\ i <= at[2] THEN [s EXCEPT !.frames[at[1]].vars[i] = v] ELSE s))

\* invokeBody: parameters with defaults, then the scope of the body, where a
\* var named like a parameter starts with its value.
Bind(c, i, vs, at, st) ==
  IF i > Len(c.params) THEN Normal(Undefined, st)
  ELSE LET env == Append(c.env, ParamScope(c.params))
           v == IF i <= Len(vs) THEN vs[i] ELSE Undefined
           def == c.params[i][2]
       IN  Then(IF v = Undefined /\ def # Absent THEN Eval(def, env, at, st) ELSE Normal(v, st),
                LAMBDA w, s : Bind(c, i + 1, vs, at, [s EXCEPT !.frames[at].vars[i] = w]))

BodyInit(c, at, st) ==
  LET scs == FunctionScopes(c.params, c.body)
      Copied(x) == scs[2].vars[x].kind = "var" /\ x \in DOMAIN scs[1].vars
      NameAt(i) == CHOOSE x \in DOMAIN scs[2].vars : scs[2].vars[x].slot = i
  IN  [i \in DOMAIN scs[2].init |->
         IF Copied(NameAt(i)) THEN st.frames[at].vars[scs[1].vars[NameAt(i)].slot]
         ELSE scs[2].init[i]]

InvokeBody(c, args, env, fr, st) ==
  Then(Args(args, 1, <<>>, <<>>, env, fr, st), LAMBDA vs, s :
    LET scs == FunctionScopes(c.params, c.body)
        t == NewFrame(c.scope, scs[1].init, s)
        at == Newest(t)
    IN  Then(Bind(c, 1, vs, at, t), LAMBDA v, u :
               LET w == NewFrame(at, BodyInit(c, at, u), u)
               IN  RunBody(c.body, c.env \o scs, Newest(w), w)))

Invoke(f, args, env, fr, st) ==
  CASE f[1] # "closure" -> Then(Args(args, 1, <<>>, <<>>, env, fr, st),
                                LAMBDA vs, s : Thrown(NotCallable, s))
    [] f[1] = "closure" /\ HasExprs(f[2].params) -> InvokeBody(f[2], args, env, fr, st)
    [] OTHER -> InvokeDirect(f[2], args, env, fr, st)

Tool(x, env, fr, st) ==
  Then(Read(x, env, fr, st), LAMBDA v, s :
    IF v = Namespace THEN Normal(Undefined, [s EXCEPT !.log = Append(@, "tool")])
    ELSE Thrown(NotCallable, s))

Eval(e, env, fr, st) ==
  CASE e[1] = "num" -> Normal(<<"num", e[2]>>, st)
    [] e[1] = "name" -> Read(e[2], env, fr, st)
    [] e[1] = "set" -> Then(Eval(e[3], env, fr, st), LAMBDA v, s :
                              Store(e[2], v, FALSE, env, fr, s))
    [] e[1] = "fn" -> MakeClosure(e[2], e[3], e[4], env, fr, st)
    [] e[1] = "call" -> Then(Eval(e[2], env, fr, st), LAMBDA f, s : Invoke(f, e[3], env, fr, s))
    [] e[1] = "tool" -> Tool(e[2], env, fr, st)

---------------------------------------------------------------------------
ExecList(list, i, env, fr, st) ==
  IF i > Len(list) THEN Normal(Undefined, st)
  ELSE Then(Exec(list[i], env, fr, st), LAMBDA v, s :
              ExecList(list, i + 1, Knowing(list[i], env), fr, s))

\* A block has a scope if it declares something.
Block(list, env, fr, st) ==
  LET sc == LexicalScope(list)
      s == NewFrame(fr, sc.init, st)
  IN  IF Lexicals(list) = <<>> THEN ExecList(list, 1, env, fr, st)
      ELSE ExecList(list, 1, Append(env, sc), Newest(s), s)

\* The two rounds of for: closures of the loop capture a copy of its variable.
For(x, list, env, fr, st) ==
  LET sc == Declare(NoScope, x, "let")
      s == NewFrame(fr, <<<<"num", 1>>>>, st)
  IN  Loop(<<x, list>>, 1, Append(env, sc), Newest(s), s)

PerIteration_Never(list) == FALSE

PerIteration(list) == MakesClosure(list)

\* One round, in the frame at.
Round(for, n, env, at, st) ==
  LET i == st.frames[at].vars[1][2] + IF n = 1 THEN 0 ELSE 1
      s == [st EXCEPT !.frames[at].vars[1] = <<"num", i>>]
  IN  IF i > 2 THEN Normal(Undefined, s)
      ELSE Then(Block(for[2], env, at, s), LAMBDA v, t : Loop(for, n + 1, env, at, t))

Loop(for, n, env, fr, st) ==
  IF PerIteration(for[2])
  THEN Round(for, n, env, Newest(st) + 1, NewFrame(st.frames[fr].parent, st.frames[fr].vars, st))
  ELSE Round(for, n, env, fr, st)

\* The rounds of for-of: a frame for each, unless its variable is a var.
ForOf(kind, x, list, env, fr, st) ==
  LET Step(n, r) == Then(r, LAMBDA v, s :
        LET inner == IF kind = "var" THEN env ELSE Append(env, Declare(NoScope, x, kind))
            t == IF kind = "var" THEN s ELSE NewFrame(fr, <<Tdz>>, s)
            at == IF kind = "var" THEN fr ELSE Newest(t)
        IN  Then(Store(x, <<"num", n>>, TRUE, inner, at, t), LAMBDA w, u :
                   Block(list, inner, at, u)))
  IN  Step(2, Step(1, Normal(Undefined, st)))

\* One scope for all the clauses, in the dead zone of those jumped over.
Switch(n, list, env, fr, st) ==
  LET s == NewFrame(fr, LexicalScope(list).init, st)
  IN  ExecList(list, n, Append(env, LexicalScope(list)), Newest(s), s)

Handle(x, handler, env, at, st) == Block(handler, Append(env, Declare(NoScope, x, "let")), at, st)

Caught(r, x, handler, env, fr) ==
  IF r.k # "throw" THEN r
  ELSE Handle(x, handler, env, Newest(r.st) + 1, NewFrame(fr, <<r.v>>, r.st))

Try(list, x, handler, env, fr, st) == Caught(Block(list, env, fr, st), x, handler, env, fr)

Exec(b, env, fr, st) ==
  CASE b[1] = "var" /\ b[3] = Absent -> Normal(Undefined, st)
    [] b[1] \in {"let", "const"} /\ b[3] = Absent -> Store(b[2], Undefined, TRUE, env, fr, st)
    [] b[1] \in {"var", "let", "const"} /\ b[3] # Absent ->
         Then(Eval(b[3], env, fr, st), LAMBDA v, s : Store(b[2], v, TRUE, env, fr, s))
    [] b[1] \in {"function", "alias"} -> Normal(Undefined, st)
    [] b[1] = "log" -> Then(Eval(b[2], env, fr, st), LAMBDA v, s :
                              Normal(Undefined, [s EXCEPT !.log = Append(@, v)]))
    [] b[1] = "return" -> Then(Eval(b[2], env, fr, st), LAMBDA v, s :
                                 [k |-> "return", v |-> v, st |-> s])
    [] b[1] = "block" -> Block(b[2], env, fr, st)
    [] b[1] = "for" -> For(b[2], b[3], env, fr, st)
    [] b[1] = "forof" -> ForOf(b[2], b[3], b[4], env, fr, st)
    [] b[1] = "switch" -> Switch(b[2], b[3], env, fr, st)
    [] b[1] = "try" -> Try(b[2], b[3], b[4], env, fr, st)

\* Scopes whose declarations do not clash.
Accepted(body) == DeclareBody(NoScope, body).ok

\* The program is a function without parameters.
Run(body) ==
  LET sc == DeclareBody(NoScope, body)
      st == [frames |-> <<[parent |-> 0, vars |-> sc.init]>>, pool |-> <<>>, log |-> <<>>]
  IN  RunBody(body, <<sc>>, 1, st)
=============================================================================
