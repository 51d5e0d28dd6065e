------------------------------ MODULE MCBatches ------------------------------
(* Batches of two items: every statement on every target and callee, twice in  *)
(* one callback or once in each element of an array.                           *)
EXTENDS Batches

VARIABLES
  input,   \* what runs, or "none"
  output   \* its answer: none yet, or one

vars == <<input, output>>

Name(x) == <<"name", x>>
Call(callee, args) == <<"call", callee, args>>
Method(e, key, args) == Call(<<"member", e, key>>, args)
Arrow(params, body) == <<"function", "", params, body>>
Do(e) == <<"do", e>>

\* The names a statement may use: around the batch, the item, and its own.
Targets == {Name(x) : x \in {"n", "o", "x", "y"}} \cup {<<"member", Name(x), "k">> : x \in {"o", "x", "y"}}
Objects == {Name(x) : x \in {"o", "a", "x", "y"}} \cup {<<"num">>, <<"member", Name("o"), "k">>}
Keys == {"at", "push", "setTime", "map"}

Statements ==
  {Do(<<"update", t>>) : t \in Targets} \cup {Do(<<"delete", t>>) : t \in {u \in Targets : u[1] = "member"}}
    \cup {Do(<<"assign", t, e>>) : t \in Targets, e \in {<<"num">>, Name("o"), <<"member", Name("o"), "k">>}}
    \cup {Do(Method(e, k, <<>>)) : e \in Objects \ {Name("o")}, k \in Keys}
    \cup {Do(Method(e, "run", <<>>)) : e \in Objects \ {Name("x"), Name("y")}}
    \cup {Do(Method(Name("o"), k, <<>>)) : k \in Keys \ {"at"}}
    \cup {Do(Method(Name("tools"), "run", <<Name("n")>>))}
    \cup {Do(Method(Name("Object"), "assign", <<e>>)) : e \in {Name("o"), Name("x")}}
    \cup {Do(Call(f, <<>>)) : f \in {Name("f"), Name("g"), Name("tools"), <<"member", Name("o"), "run">>,
                                    Arrow(<<>>, <<Do(<<"update", Name("n")>>)>>)}}
    \cup {<<"let", x, e>> : x \in {"y", "n"}, e \in {<<"num">>, Name("o"), Name("x"), Name("n")}}
    \cup {<<"let", "g", Arrow(<<"y">>, <<Do(<<"assign", t, <<"num">>>>)>>)>> : t \in {Name("n"), Name("y")}}
    \cup {Do(Method(Name("a"), "map", <<Arrow(<<"z">>, <<Do(<<"update", Name(x)>>)>>)>>)) : x \in {"z", "n"}}
    \cup {<<"forof", <<"decl", x>>, Name("a"), <<Do(<<"update", Name(x)>>)>>>> : x \in {"z", "n"}}
    \cup {<<"try", <<>>, "e", <<Do(<<"assign", Name(x), <<"num">>>>)>>>> : x \in {"e", "n"}}
    \cup {<<"return", e>> : e \in {Name("n"), Name("x")}}

\* What isolated() does not see (finding 6): a loop that assigns to a name, a function that
\* is called through an item, a variable or a built-in, and a member of an outer
\* object that has the name of a built-in method.
Unseen ==
  {<<"forof", Name("n"), Name("a"), <<>>>>, <<"let", "g", Name("f")>>, <<"let", "y", Name("o")>>,
   Do(Call(Name("g"), <<>>)), Do(Method(Name("x"), "run", <<>>)), Do(Method(Name("y"), "run", <<>>)),
   Do(Method(Name("a"), "map", <<Name("f")>>)), Do(Method(Name("o"), "at", <<>>))}

\* The names a node takes from around it: in an accepted script every name is
\* declared, before it is used, and once.
RECURSIVE Free(_), FreeIn(_)
Free(e) ==
  CASE e[1] = "name" -> {e[2]}
    [] e[1] = "function" -> FreeIn(e[4]) \ Range(e[3])
    [] e[1] = "forof" -> UNION {Free(k) : k \in Children(e)} \ Binds(e)
    [] e[1] = "try" -> FreeIn(e[2]) \cup (FreeIn(e[4]) \ {e[3]})
    [] OTHER -> UNION {Free(k) : k \in Children(e)}
FreeIn(list) == IF list = <<>> THEN {} ELSE
  Free(list[1]) \cup (FreeIn(Tail(list)) \ (IF list[1][1] = "let" THEN {list[1][2]} ELSE {}))

Accepted(s, t) ==
  /\ FreeIn(<<s, t>>) \subseteq Outer \cup Aliases \cup {"x", "Object"}
  /\ \A x \in {"n", "y", "g"} : s[1] = "let" /\ x = s[2] => x \notin Free(s) /\ (t[1] = "let" => t[2] # x)
  /\ t[1] = "let" => t[2] \notin Free(s) \cup Free(t)

Init == input = <<"none">> /\ output = <<>>
Idle == input = <<"none">>

\* anywhere: items and members of o hold functions of the script (Stored).
Run(arg, anywhere) == input' = <<"batch", arg, anywhere>> /\ UNCHANGED output
Mapped(body) == Method(Name("a"), "map", <<Arrow(<<"x">>, body)>>)

RunMap == Idle /\ \E s, t \in Statements : Accepted(s, t) /\ Run(Mapped(<<s, t>>), FALSE)
RunList == Idle /\ \E s, t \in Statements :
  s[1] = "do" /\ t[1] = "do" /\ Accepted(s, t) /\ Run(<<"array", <<s[2], t[2]>>>>, FALSE)
RunUnseen == Idle /\ \E s, t \in Unseen : Accepted(s, t) /\ Run(Mapped(<<s, t>>), TRUE)

Decide ==
  /\ input[1] = "batch" /\ output = <<>>
  /\ output' = <<Isolated(input[2])>>
  /\ UNCHANGED input

Next == RunMap \/ RunList \/ Decide
Spec == Init /\ [][Next]_vars
UnseenSpec == Init /\ [][RunUnseen \/ Decide]_vars

---------------------------------------------------------------------------
\* What the items of a batch touch when they run, by the meaning their statements
\* have in JavaScript.  Nothing in this section is translated from the repository.

\* What running an item touches: [v, env, reads, writes] with the value, the
\* item's own variables, and the variables and objects outside them.  Values
\* are <<"num">>, <<"object", where>> and <<"closure", function>>.
Number == <<"num">>
ObjectAt(where) == <<"object", where>>
Writer == <<"function", "f", <<>>, <<<<"do", <<"assign", <<"name", "n">>, <<"num">>>>>>>>>>

OuterValue(x) ==
  CASE x = "f" -> <<"closure", Writer>>
    [] x \in {"o", "a"} -> ObjectAt(<<"outer", x>>)
    [] OTHER -> Number

\* The members that hold a function of the script: a method of o, or, when
\* functions are anywhere, also one with the name of a built-in method and a
\* method of each item.
Stored(where, key, anywhere) ==
  \/ where = <<"outer", "o">> /\ (key = "run" \/ (key = "at" /\ anywhere))
  \/ where[1] = "item" /\ key = "run" /\ anywhere

Touch(v, t, kind) ==
  IF v[1] # "object" THEN t
  ELSE IF kind = "read" THEN [t EXCEPT !.reads = @ \cup {v[2]}] ELSE [t EXCEPT !.writes = @ \cup {v[2]}]
Value(v, t) == [t EXCEPT !.v = v]

ReadVariable(x, t) ==
  CASE x \in DOMAIN t.env -> Value(t.env[x], t)
    [] x \in Outer -> Value(OuterValue(x), [t EXCEPT !.reads = @ \cup {<<"variable", x>>}])
    [] OTHER -> Value(Number, t)
WriteVariable(x, t) ==
  IF x \in DOMAIN t.env THEN [t EXCEPT !.env[x] = t.v]
  ELSE [t EXCEPT !.writes = @ \cup {<<"variable", x>>}]

RECURSIVE Eval(_, _), Each(_, _), Enter(_, _)

ReadMember(e, t) ==
  LET u == Eval(e[2], t)
  IN  Value(IF u.v[1] = "object" /\ Stored(u.v[2], e[3], t.anywhere) THEN <<"closure", Writer>> ELSE Number,
            Touch(u.v, u, "read"))

Store(target, t) ==
  IF target[1] = "name" THEN WriteVariable(target[2], t)
  ELSE LET u == Eval(target[2], t) IN Touch(u.v, u, "write")

\* A function the script wrote runs now, or is called back by a built-in.
Enter(f, t) ==
  IF f[1] # "closure" THEN t
  ELSE LET params == f[2][3]
           env == t.env
           u == Each(f[2][4], [t EXCEPT !.env = [x \in Range(params) |-> Number] @@ @])
       IN  [u EXCEPT !.env = env, !.v = Number]

\* The arguments, and the functions among them that a built-in calls back.
RECURSIVE Passed(_, _, _)
Passed(args, back, t) ==
  IF args = <<>> THEN t
  ELSE LET u == Eval(args[1], t) IN Passed(Tail(args), back, IF back THEN Enter(u.v, u) ELSE u)

CallMethod(e, t) ==
  LET object == e[2][2]
      key == e[2][3]
      u == Eval(object, t)
      stored == u.v[1] = "object" /\ Stored(u.v[2], key, t.anywhere)
      s == Passed(e[3], ~stored, Touch(u.v, u, "read"))
      first == IF e[3] = <<>> THEN Number ELSE Eval(e[3][1], t).v
  IN  Value(Number,
        CASE stored -> Enter(<<"closure", Writer>>, s)
          [] object = <<"name", "Object">> /\ key = "assign" -> Touch(first, s, "write")
          [] key \in MutatingMethods \cup Setters -> Touch(u.v, s, "write")
          [] OTHER -> s)

CallFunction(e, t) ==
  LET u == Eval(e[2], t) IN Enter(u.v, Passed(e[3], FALSE, u))

Eval(e, t) ==
  CASE e[1] = "name" -> ReadVariable(e[2], t)
    [] e[1] = "member" -> ReadMember(e, t)
    [] e[1] = "assign" -> Store(e[2], Eval(e[3], t))
    [] e[1] \in {"update", "delete"} -> Store(e[2], Value(Number, t))
    [] e[1] = "call" /\ e[2][1] = "member" -> CallMethod(e, t)
    [] e[1] = "call" -> CallFunction(e, t)
    [] e[1] = "function" -> Value(<<"closure", e>>, t)
    [] e[1] \in {"do", "return"} -> Eval(e[2], t)
    [] e[1] = "let" -> LET u == Eval(e[3], t) IN [u EXCEPT !.env = (e[2] :> u.v) @@ @]
    [] e[1] = "forof" ->
         LET u == Value(Number, Eval(e[3], t))
         IN  Each(e[4], IF e[2][1] = "decl" THEN [u EXCEPT !.env = (e[2][2] :> Number) @@ @] ELSE Store(e[2], u))
    [] e[1] = "try" -> Each(e[4], LET u == Each(e[2], t) IN [u EXCEPT !.env = (e[3] :> Number) @@ @])
    [] e[1] = "array" -> Value(Number, Each(e[2], t))
    [] OTHER -> Value(Number, t)

Each(list, t) == IF list = <<>> THEN t ELSE Each(Tail(list), Eval(list[1], t))

\* Item i: a call of the function that map was given, or an element.
Start(anywhere) == [v |-> Number, env |-> <<>>, reads |-> {}, writes |-> {}, anywhere |-> anywhere]
RunItem(arg, i, anywhere) ==
  IF arg[1] = "array" THEN Eval(arg[2][i], Start(anywhere))
  ELSE LET f == arg[3][1]
           own == [x \in Range(f[3]) |-> ObjectAt(<<"item", i>>)]
       IN  Each(f[4], [Start(anywhere) EXCEPT !.env = own])

---------------------------------------------------------------------------
\* call.go: batch items that run in parallel cannot observe each other's
\* effects.  What one item of an isolated batch writes no other item reads or
\* writes.
IsolatedItemsApart ==
  input[1] = "batch" /\ output = <<TRUE>> =>
    \A i, j \in 1..2 : i # j =>
      LET one == RunItem(input[2], i, input[3])
          two == RunItem(input[2], j, input[3])
      IN  one.writes \cap (two.reads \cup two.writes) = {}
=============================================================================
