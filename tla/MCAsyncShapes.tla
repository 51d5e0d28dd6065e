---------------------------- MODULE MCAsyncShapes ----------------------------
(* Programs of two statements after declarations of async functions, a plain   *)
(* one, an object with an async method and a list.                             *)
EXTENDS AsyncShapes

VARIABLES
  input,   \* what runs, or "none"
  output   \* its answer: none yet, or one

vars == <<input, output>>

Name(x) == <<"name", x>>
Fn(id) == <<"fn", id>>
CallOf(e) == <<"call", e, <<>>>>
Method(e, key, args) == <<"call", <<"member", e, key>>, args>>
Await(e) == <<"await", e>>
Gather(key, arg) == Method(Promised, key, <<arg>>)

Prelude ==
  <<<<"const", "f", Fn("one")>>, <<"const", "g", Fn("plain")>>, <<"set", "g2", Fn("fails")>>,
    <<"const", "o", <<"object", "m", Fn("zero")>>>>, <<"const", "xs", <<"array", <<<<"num", 1>>, <<"num", 0>>>>>>>>>>

Promises == {CallOf(e) : e \in {Name("f"), Name("g"), Name("g2"), Fn("zero"), Fn("plain")}} \cup
            {Method(Name("o"), "m", <<>>)}
Lists == {<<"array", <<a, b>>>> : a, b \in {CallOf(Name("f")), CallOf(Name("g2")), CallOf(Name("g")),
                                            Await(CallOf(Name("f")))}}
           \cup {Method(Name("xs"), "map", <<e>>) : e \in {Fn("one"), Fn("fails"), Fn("plain"), Name("f"), Name("g")}}
           \cup {Method(Name("xs"), key, <<e>>) : key \in {"forEach", "filter"}, e \in {Fn("zero"), Fn("plain"), Name("f")}}
           \cup {Name("xs"), <<"array", <<CallOf(Name("g")), Gather("all", Name("xs"))>>>>}
Batched == {Gather(key, l) : key \in {"all", "allSettled"}, l \in Lists}

Uses1 == Promises \cup Lists \cup Batched
Uses2 == Uses1 \cup {Await(e) : e \in Promises \cup Batched}
           \cup {<<"cond", a, b, c>> : a \in {CallOf(Name("f")), Await(Method(Name("o"), "m", <<>>))},
                                      b \in {CallOf(Name("g2")), CallOf(Name("g"))}, c \in {CallOf(Name("f"))}}
           \cup {Await(<<"cond", a, b, c>>) : a \in {CallOf(Fn("zero")), Await(Method(Name("o"), "m", <<>>))},
                                      b \in {CallOf(Name("g2")), CallOf(Name("g"))}, c \in {CallOf(Name("f"))}}
           \cup {Method(e, "then", <<Name("g")>>) : e \in {CallOf(Name("f")), CallOf(Name("g"))}}

First == {<<kind, e>> : kind \in {"do", "log"}, e \in Uses2} \cup {<<"const", "y", Await(e)>> : e \in Promises}
           \cup {<<"const", "y", e>> : e \in Uses2}
           \cup {<<"try", <<<<"log", e>>>>, <<<<"log", <<"num", 7>>>>>>>> : e \in Uses2}
Second == {<<"return", e>> : e \in Promises \cup {Gather("all", Name("xs")), Gather("allSettled", Name("xs"))}}
           \cup {<<"log", Await(CallOf(Name("g")))>>}
After == {<<"return", Gather(key, Name("y"))>> : key \in {"all", "allSettled"}}

Init == input = <<"none">> /\ output = <<>>
Idle == input = <<"none">>

\* Only a program the compiler accepts runs.
RunProgram(body) ==
  /\ Accepted(Prelude \o body)
  /\ input' = <<"async", Prelude \o body>>
  /\ UNCHANGED output

\* A list that is bound may hold promises: it is then only gathered, and none of
\* them is rejected (README).
Bound(s) == s[1] = "const" /\ IsMapCall(s[3])
RunShapes ==
  Idle /\ \E s \in First : \E t \in IF Bound(s) THEN After ELSE Second :
    (Bound(s) => s[3][3][1] # Fn("fails")) /\ RunProgram(<<s, t>>)

\* What the check takes for awaited but is not: a return in a try, a variable
\* that holds a list of promises, rejected ones too, an async function of
\* another name.
RunUnseen ==
  Idle /\ \E e \in Promises \cup Lists :
    \/ RunProgram(<<<<"try", <<<<"return", e>>>>, <<<<"return", <<"num", 7>>>>>>>>>>)
    \/ RunProgram(<<<<"const", "y", e>>, <<"log", Name("y")>>>>)
    \/ RunProgram(<<<<"const", "y", Method(Name("xs"), "map", <<Fn("fails")>>)>>,
                     <<"return", Gather("allSettled", Name("y"))>>>>)
    \/ RunProgram(<<<<"const", "y", Name("f")>>, <<"log", CallOf(Name("y"))>>>>)

Execute ==
  /\ input[1] = "async" /\ output = <<>>
  /\ output' = <<Run(input[2], FALSE)>>
  /\ UNCHANGED input

Next == RunShapes \/ Execute
Spec == Init /\ [][Next]_vars
UnseenSpec == Init /\ [][RunUnseen \/ Execute]_vars

\* asyncshape.go: where a script could observe a promise it declines, so an
\* accepted one calls, logs and returns what it would with promises.
PromisesUnseen ==
  input[1] = "async" /\ output # <<>> => output[1] = Run(input[2], TRUE)
=============================================================================
