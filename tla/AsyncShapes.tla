------------------------------ MODULE AsyncShapes ------------------------------
(***************************************************************************)
(* The async dialect: a promise is the value it settles to.  Accepted      *)
(* (asyncshape.go) turns down the programs in which the promise itself can *)
(* be seen; Run executes a program with promises (as ECMAScript does) or   *)
(* without (as call.go does).  A program is a list of statements           *)
(*   <<"const", x, e>> <<"set", x, e>> <<"do", e>> <<"log", e>>             *)
(*   <<"return", e>> <<"try", body, handler>>                              *)
(* over <<"num", n>> <<"name", x>> <<"fn", id>> (a function literal)         *)
(* <<"object", key, e>> <<"array", list>> <<"call", callee, args>>          *)
(* <<"member", e, key>> <<"await", e>> <<"cond", test, e, f>>.              *)
(***************************************************************************)
EXTENDS Integers, Sequences, FiniteSets, TLC, Functions

\* The function literals: each logs its call, then returns 0 or 1 or throws.
Literal ==
  [one |-> [async |-> TRUE, result |-> 1, throws |-> FALSE],
   zero |-> [async |-> TRUE, result |-> 0, throws |-> FALSE],
   fails |-> [async |-> TRUE, result |-> 0, throws |-> TRUE],
   plain |-> [async |-> FALSE, result |-> 1, throws |-> FALSE]]

Promised == <<"name", "Promise">>
IsCall(e) == e[1] = "call"
IsMethod(e, keys) == IsCall(e) /\ e[2][1] = "member" /\ e[2][3] \in keys
IsMapCall(e) == IsMethod(e, {"map"})
IsPromiseBatch(e) == IsMethod(e, {"all", "allSettled"}) /\ e[2][2] = Promised

---------------------------------------------------------------------------
\* Every node below a node, with how its value is used there: "awaited",
\* "gathered" (a .map that is bound or handed to Promise.all) or "other".
ElementUse(e) == IF e[1] = "array" THEN "elements" ELSE IF IsMapCall(e) THEN "gathered" ELSE "other"

Children(n, use) ==
  CASE n[1] = "const" -> {<<n[3], IF IsMapCall(n[3]) THEN "gathered" ELSE "other">>}
    [] n[1] \in {"set", "object"} -> {<<n[3], "other">>}
    [] n[1] \in {"do", "log"} -> {<<n[2], "other">>}
    [] n[1] \in {"return", "await"} -> {<<n[2], "awaited">>}
    [] n[1] = "try" -> {<<s, "other">> : s \in Range(n[2]) \cup Range(n[3])}
    [] n[1] = "cond" -> {<<n[2], "other">>, <<n[3], IF use = "awaited" THEN use ELSE "other">>,
                         <<n[4], IF use = "awaited" THEN use ELSE "other">>}
    [] n[1] = "array" -> {<<e, IF use = "elements" THEN "awaited" ELSE "other">> : e \in Range(n[2])}
    [] n[1] = "member" -> {<<n[2], "other">>}
    [] n[1] = "call" -> {<<n[2], "other">>} \cup
         {<<a, IF IsPromiseBatch(n) /\ Len(n[3]) = 1 THEN ElementUse(a) ELSE "other">> : a \in Range(n[3])}
    [] OTHER -> {}

RECURSIVE Uses(_, _)
Uses(n, use) == {<<n, use>>} \cup UNION {Uses(c[1], c[2]) : c \in Children(n, use)}
AllUses(program) == UNION {Uses(program[i], "other") : i \in DOMAIN program}

IsAsyncLiteral(e) == e[1] = "fn" /\ Literal[e[2]].async

\* collect: names and keys that ever hold an async function.
Names(uses) == {u[1][2] : u \in {w \in uses : w[1][1] \in {"const", "set"} /\ IsAsyncLiteral(w[1][3])}}
Keys(uses) == {u[1][2] : u \in {w \in uses : w[1][1] = "object" /\ IsAsyncLiteral(w[1][3])}}
UsesAsync(uses) ==
  \E u \in uses : IsAsyncLiteral(u[1]) \/ u[1] = Promised \/ u[1][1] = "await"

AsyncCall_ByName(call, uses) == call[2][1] = "name" /\ call[2][2] \in Names(uses)
AsyncCall(call, uses) ==
  LET callee == call[2]
  IN  CASE callee[1] = "name" -> callee[2] \in Names(uses)
        [] callee[1] = "fn" -> IsAsyncLiteral(callee)
        [] callee[1] = "member" -> IsPromiseBatch(call) \/ callee[3] \in Keys(uses)
        [] OTHER -> FALSE

AsyncValue(e, uses) == IF e[1] = "name" THEN e[2] \in Names(uses) ELSE IsAsyncLiteral(e)

ResultDroppingMethods == {"forEach", "filter"}

\* check: the call declines the program.
Declines(call, use, uses) ==
  \/ AsyncCall(call, uses) /\ use # "awaited"
  \/ IsMethod(call, {"then"}) /\ UsesAsync(uses)
  \/ /\ IsMethod(call, ResultDroppingMethods) \/ (IsMapCall(call) /\ use # "gathered")
     /\ \E a \in Range(call[3]) : AsyncValue(a, uses)

\* batch: an inline array or one function, and no batch inside a batch.
RECURSIVE Batches(_)
Batches(n) == IF IsPromiseBatch(n) THEN {n} ELSE UNION {Batches(c[1]) : c \in Children(n, "other")}
Compiles(n) ==
  \A b \in Batches(n) :
    /\ Len(b[3]) = 1
    /\ \A c \in Children(b, "other") : Batches(c[1]) = {}

Accepted(program) ==
  LET uses == AllUses(program)
  IN  /\ \A u \in uses : IsCall(u[1]) => ~Declines(u[1], u[2], uses)
      /\ \A i \in DOMAIN program : Compiles(program[i])

---------------------------------------------------------------------------
\* Evaluation.  A result is [k, v, st]: k is "none", "throw" or "return"; st
\* has the variables and the trace of calls and of what was logged.
Undefined == <<"undefined">>
TypeError == <<"TypeError">>
Ok(v, st) == [k |-> "none", v |-> v, st |-> st]
Throw(v, st) == [k |-> "throw", v |-> v, st |-> st]
Log(event, st) == [st EXCEPT !.trace = Append(@, event)]
Then(r, Op(_, _)) == IF r.k = "none" THEN Op(r.v, r.st) ELSE r

IsPromise(v) == v[1] = "promise"
Resolved(r) == [r EXCEPT !.k = "none", !.v = <<"promise", r.k, r.v>>]
Unwrap(v, st) == IF IsPromise(v) THEN [k |-> v[2], v |-> v[3], st |-> st] ELSE Ok(v, st)
Truthy(v) == v # <<"num", 0>> /\ v # Undefined

\* What console.log makes of a value.
RECURSIVE Shown(_)
Shown(v) ==
  CASE v[1] = "list" -> <<"list", [i \in DOMAIN v[2] |-> Shown(v[2][i])]>>
    [] IsPromise(v) -> <<"promise">>
    [] OTHER -> v

\* A call of a function of the script; with promises, an async one returns one.
CallFunction(f, promises, st) ==
  IF f[1] # "function" THEN Throw(TypeError, st)
  ELSE LET lit == Literal[f[2]]
           s == Log(<<"call", f[2]>>, st)
           r == IF lit.throws THEN Throw(<<"thrown">>, s) ELSE Ok(<<"num", lit.result>>, s)
       IN  IF promises /\ lit.async THEN Resolved(r) ELSE r

Fulfilled(v) == <<"fulfilled", v>>
Rejected(v) == <<"rejected", v>>

\* The results of a batch in input order: each as it settles, or the first
\* failure once all have run.
FirstFailure(rs) == {i \in DOMAIN rs : rs[i].k = "throw" /\ \A j \in 1..(i - 1) : rs[j].k = "none"}
Gathered(rs, settled, st) ==
  LET values == [i \in DOMAIN rs |-> IF ~settled THEN rs[i].v
                                     ELSE IF rs[i].k = "throw" THEN Rejected(rs[i].v) ELSE Fulfilled(rs[i].v)]
  IN  IF settled \/ FirstFailure(rs) = {} THEN Ok(<<"list", values>>, st)
      ELSE Throw(rs[CHOOSE i \in FirstFailure(rs) : TRUE].v, st)

RECURSIVE Eval(_, _, _), Items(_, _, _), Calls(_, _, _, _), Elements(_, _, _, _)

\* settle: the values of a list that is already there.
Settle(v, settled, st) ==
  IF v[1] # "list" THEN Throw(TypeError, st)
  ELSE Gathered([i \in DOMAIN v[2] |-> Ok(v[2][i], st)], settled, st)

\* The items of an inline array, or of a list and a function, one after the
\* other: every item starts.
Items(list, rs, st) ==
  IF list = <<>> THEN [rs |-> rs, st |-> st]
  ELSE LET r == Eval(list[1], FALSE, st) IN Items(Tail(list), Append(rs, r), r.st)
Calls(f, n, rs, st) ==
  IF n = 0 THEN [rs |-> rs, st |-> st]
  ELSE LET r == CallFunction(f, FALSE, st) IN Calls(f, n - 1, Append(rs, r), r.st)

Batch(arg, settled, st) ==
  CASE arg[1] = "array" -> LET all == Items(arg[2], <<>>, st) IN Gathered(all.rs, settled, all.st)
    [] IsMapCall(arg) /\ arg[3][1][1] = "fn" ->
         Then(Eval(arg[2][2], FALSE, st), LAMBDA v, s :
           IF v[1] # "list" THEN Throw(TypeError, s)
           ELSE LET all == Calls(<<"function", arg[3][1][2]>>, Len(v[2]), <<>>, s)
                IN  Gathered(all.rs, settled, all.st))
    [] OTHER -> Then(Eval(arg, FALSE, st), LAMBDA v, s : Settle(v, settled, s))

\* Promise.all of ECMAScript: the argument is a list of values and promises.
PromiseAll(arg, settled, st) ==
  Then(Eval(arg, TRUE, st), LAMBDA v, s :
    IF v[1] # "list" THEN Resolved(Throw(TypeError, s))
    ELSE Resolved(Gathered([i \in DOMAIN v[2] |-> Unwrap(v[2][i], s)], settled, s)))

\* The elements of an array literal: the first error ends it.
Elements(list, vs, promises, st) ==
  IF list = <<>> THEN Ok(<<"list", vs>>, st)
  ELSE Then(Eval(list[1], promises, st), LAMBDA v, s : Elements(Tail(list), Append(vs, v), promises, s))

\* The built-in methods of a list: map keeps what the calls return, filter tests
\* it, forEach drops it.
RECURSIVE Visit(_, _, _, _, _, _)
Visit(key, f, list, out, promises, st) ==
  IF list = <<>> THEN Ok(IF key = "forEach" THEN Undefined ELSE <<"list", out>>, st)
  ELSE Then(CallFunction(f, promises, st), LAMBDA v, s :
         Visit(key, f, Tail(list),
               CASE key = "map" -> Append(out, v)
                 [] key = "filter" /\ Truthy(v) -> Append(out, list[1])
                 [] OTHER -> out, promises, s))

CallMethod(v, key, args, promises, st) ==
  CASE v[1] = "object" /\ v[2] = key -> CallFunction(v[3], promises, st)
    [] v[1] = "list" /\ key \in {"map", "filter", "forEach"} ->
         Then(Eval(args[1], promises, st), LAMBDA f, s : Visit(key, f, v[2], <<>>, promises, s))
    [] IsPromise(v) /\ key = "then" -> Ok(v, st)
    [] OTHER -> Throw(TypeError, st)

Eval(e, promises, st) ==
  CASE e[1] = "num" -> Ok(e, st)
    [] e[1] = "name" -> Ok(st.vars[e[2]], st)
    [] e[1] = "fn" -> Ok(<<"function", e[2]>>, st)
    [] e[1] = "object" -> Then(Eval(e[3], promises, st), LAMBDA v, s : Ok(<<"object", e[2], v>>, s))
    [] e[1] = "array" -> Elements(e[2], <<>>, promises, st)
    [] e[1] = "await" -> Then(Eval(e[2], promises, st), LAMBDA v, s : Unwrap(v, s))
    [] e[1] = "cond" ->
         Then(Eval(e[2], promises, st), LAMBDA v, s : Eval(IF Truthy(v) THEN e[3] ELSE e[4], promises, s))
    [] IsPromiseBatch(e) ->
         IF promises THEN PromiseAll(e[3][1], e[2][3] = "allSettled", st)
         ELSE Batch(e[3][1], e[2][3] = "allSettled", st)
    [] IsCall(e) /\ e[2][1] = "member" ->
         Then(Eval(e[2][2], promises, st), LAMBDA v, s : CallMethod(v, e[2][3], e[3], promises, s))
    [] IsCall(e) -> Then(Eval(e[2], promises, st), LAMBDA v, s : CallFunction(v, promises, s))

RECURSIVE Exec(_, _, _)
ExecOne(s, promises, st) ==
  CASE s[1] \in {"const", "set"} ->
         Then(Eval(s[3], promises, st), LAMBDA v, t : Ok(Undefined, [t EXCEPT !.vars = (s[2] :> v) @@ @]))
    [] s[1] = "do" -> Then(Eval(s[2], promises, st), LAMBDA v, t :
                        Ok(Undefined, IF IsPromise(v) THEN Log(<<"floating">>, t) ELSE t))
    [] s[1] = "log" -> Then(Eval(s[2], promises, st), LAMBDA v, t : Ok(Undefined, Log(<<"log", Shown(v)>>, t)))
    [] s[1] = "return" -> Then(Eval(s[2], promises, st), LAMBDA v, t : [k |-> "return", v |-> v, st |-> t])
    [] s[1] = "try" -> LET r == Exec(s[2], promises, st)
                       IN  IF r.k = "throw" THEN Exec(s[3], promises, r.st) ELSE r
Exec(list, promises, st) ==
  IF list = <<>> THEN Ok(Undefined, st)
  ELSE Then(ExecOne(list[1], promises, st), LAMBDA v, t : Exec(Tail(list), promises, t))

\* What the host sees: the calls and lines, and the value or error of the main
\* function, which awaits what it returns.
Run(program, promises) ==
  LET r == Exec(program, promises, [vars |-> <<>>, trace |-> <<>>])
      end == IF r.k = "return" THEN Unwrap(r.v, r.st) ELSE r
  IN  [trace |-> end.st.trace, k |-> IF end.k = "throw" THEN "throw" ELSE "none", v |-> Shown(end.v)]
=============================================================================
