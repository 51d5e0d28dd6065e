------------------------------ MODULE MCScopes ------------------------------
(* Families of small programs about names, each against what ECMAScript      *)
(* makes of it: the values logged, and how it ends.                          *)
EXTENDS Scopes, JsScopes

VARIABLES
  input,   \* what runs, or "none"
  output   \* its answer: none yet, or one

vars == <<input, output>>

Num(n) == <<"num", n>>
Name(x) == <<"name", x>>
Fn(params, body) == <<"fn", "", params, body>>
CallOf(e, args) == <<"call", e, args>>
Do(e) == <<"log", e>>
P(x) == <<x, Absent>>

\* No clash of declarations, here and inside: with one another, or of a var with
\* the variable of a loop around it.
HidesVar(x, list) == \E i \in DOMAIN HoistedVars(list) : HoistedVars(list)[i][1] = x

RECURSIVE Legal(_)
Legal(list) ==
  /\ LexicalScope(list).ok
  /\ \A i \in DOMAIN list : LET b == list[i]
     IN  CASE b[1] = "block" -> Legal(b[2])
           [] b[1] = "switch" -> Legal(b[3])
           [] b[1] = "for" -> Legal(b[3]) /\ ~HidesVar(b[2], b[3])
           [] b[1] = "forof" -> Legal(b[4]) /\ (b[2] = "var" \/ ~HidesVar(b[3], b[4]))
           [] b[1] = "try" -> Legal(b[2]) /\ Legal(b[4])
           [] b[1] = "log" /\ b[2][1] = "call" /\ b[2][2][1] = "fn" -> Accepted(b[2][2][4]) /\ Legal(b[2][2][4])
           [] OTHER -> TRUE

\* What can be told of a result: functions are not looked into.
Plain(v) == IF v[1] \in {"closure", "function"} THEN <<"function">> ELSE v
Visible(r) == [k |-> r.k, v |-> Plain(r.v), log |-> [i \in DOMAIN r.st.log |->
                 IF r.st.log[i] = "tool" THEN <<"tool">> ELSE Plain(r.st.log[i])]]

Init == input = <<"none">> /\ output = <<>>
Idle == input = <<"none">>
RunProgram(body) ==
  /\ Accepted(body) /\ Legal(body)
  /\ input' = <<"program", body>>
  /\ UNCHANGED output

Execute ==
  /\ input[1] = "program" /\ output = <<>>
  /\ output' = <<Visible(Run(input[2]))>>
  /\ UNCHANGED input

---------------------------------------------------------------------------
\* Hoisting, shadowing and the dead zone: three statements about x in each kind
\* of place, inside a program that has an x and a function g of its own.
Declarations == {<<kind, "x", e>> : kind \in {"let", "var"}, e \in {Absent, Name("x")}}
                \cup {<<"const", "x", Num(2)>>}
Uses == {Do(Name("x")), Do(<<"set", "x", Num(5)>>), Do(CallOf(Name("g"), <<>>)),
         Do(CallOf(Fn(<<>>, <<Do(<<"set", "x", Num(6)>>)>>), <<>>))}
Hoisted == {<<"function", "g", <<>>, <<Do(Name("x"))>>>>, <<"function", "x", <<>>, <<>>>>}

Places(list) ==
  {<<"block", list>>, <<"for", "x", list>>, <<"for", "i", list>>, <<"switch", 2, list>>,
   <<"try", list, "e", <<Do(Name("e"))>>>>,
   <<"try", <<Do(CallOf(Num(0), <<>>))>>, "x", list>>}
    \cup {<<"forof", kind, "i", list>> : kind \in {"let", "const", "var"}}

G == <<"var", "g", Fn(<<>>, <<Do(Name("x"))>>)>>

RunHoisting ==
  Idle /\ \E a, b \in Declarations \cup Uses, c \in Uses,
             kind \in {"let", "var"} :
    \/ \E st \in Places(<<a, b, c>>) :
         RunProgram(<<<<kind, "x", Num(9)>>, G, st, Do(Name("x"))>>)
    \/ \E f \in Hoisted, nested \in BOOLEAN :
         RunProgram(<<<<kind, "x", Num(9)>>, G,
                      Do(CallOf(Fn(<<>>, IF nested THEN <<a, <<"block", <<b, c>>>>, f>>
                                         ELSE <<a, f, b, c>>), <<>>)), Do(Name("x"))>>)

\* Closures of a loop, called when it is over: each has its own variables.
LoopBodies ==
  {<<"block", <<st>>>> : st \in
     {Do(<<"set", f, Fn(<<>>, <<Do(<<"set", "x", Num(7)>>), Do(Name("x"))>>)>>) : f \in {"f", "g"}}}
    \cup {Do(<<"set", "g", Name("f")>>), Do(<<"set", "f", Fn(<<>>, <<Do(Name("x"))>>)>>),
          Do(Name("x")), Do(CallOf(Name("f"), <<>>)), <<"let", "x", Num(3)>>,
          Do(<<"set", "x", Num(2)>>)}

RunLoop ==
  Idle /\ \E a, b, c \in LoopBodies :
    \E loop \in {<<"for", "x", <<a, b, c>>>>} \cup
                {<<"forof", kind, "x", <<a, b, c>>>> : kind \in {"let", "const", "var"}} :
      RunProgram(<<<<"let", "f", Fn(<<>>, <<>>)>>, <<"let", "g", Absent>>,
                   <<"try", <<loop>>, "e", <<Do(Name("e"))>>>>,
                   Do(CallOf(Name("f"), <<>>)), Do(CallOf(Name("g"), <<>>))>>)

\* Leaf functions whose frames are pooled, functions that return closures and
\* functions that throw, as arguments of each other.
Callees == {"leaf", "make", "both", "fails"}
Library ==
  <<<<"function", "leaf", <<P("x")>>, <<<<"var", "y", Name("x")>>, <<"let", "z", Absent>>,
                                        Do(Name("z")), <<"return", Name("y")>>>>>>,
    <<"function", "both", <<P("x"), P("y")>>, <<Do(Name("y")), <<"return", Name("x")>>>>>>,
    <<"function", "fails", <<P("x")>>, <<Do(Name("x")), <<"return", <<"set", "z", Num(0)>>>>,
                                         <<"let", "z", Absent>>>>>>,
    <<"function", "make", <<P("x")>>, <<<<"return", Fn(<<>>, <<Do(Name("x")),
                                                          <<"return", Name("x")>>>>)>>>>>>>>

Arguments == {Num(1)} \cup {CallOf(Name(f), <<Num(2)>>) : f \in Callees}
               \cup {CallOf(CallOf(Name("make"), <<Num(3)>>), <<>>)}
Calls == {CallOf(Name(f), <<a, b>>) : f \in Callees, a \in Arguments, b \in Arguments}

RunCalls ==
  Idle /\ \E c \in Calls, d \in {e \in Calls : e[3][2] = Num(1)} :
    RunProgram(Library \o <<<<"var", "k", CallOf(Name("make"), <<Num(8)>>)>>,
                            <<"try", <<Do(c), Do(CallOf(Name("leaf"), <<c>>))>>, "e", <<Do(d)>>>>,
                            Do(d), Do(CallOf(Name("k"), <<>>))>>)

\* Parameters with defaults that read each other, the closure of a default, and
\* a body that declares the name of a parameter again.
DefaultsOf == {Absent, Num(4), Name("x"), Name("y"), Name("z"),
               Fn(<<>>, <<Do(<<"set", "x", Num(6)>>), <<"return", Name("x")>>>>)}
Bodies == {<<Do(Name("x"))>>, <<<<"var", "x", Absent>>, Do(Name("x")), Do(<<"set", "x", Num(5)>>)>>,
           <<<<"function", "x", <<>>, <<>>>>, Do(Name("x"))>>, <<<<"let", "z", Num(2)>>>>}

RunDefaults ==
  Idle /\ \E dx, dy \in DefaultsOf, body \in Bodies, n \in 0..2, more \in {Name("y"), Name("f"),
             CallOf(Name("y"), <<>>), <<"set", "f", Num(0)>>} :
    RunProgram(<<<<"let", "z", Num(3)>>,
      Do(CallOf(<<"fn", "f", <<<<"x", dx>>, <<"y", dy>>>>, body \o <<Do(more), Do(Name("x")), Do(Name("f"))>>>>,
                SubSeq(<<Num(7), Num(8)>>, 1, n)))>>)

\* An alias, used after its declaration, there or in a function.
Tools == {Do(<<"tool", "x">>), Do(CallOf(Fn(<<>>, <<Do(<<"tool", "x">>)>>), <<>>)),
          <<"block", <<Do(<<"tool", "x">>), <<"let", "y", Absent>>, Do(<<"tool", "x">>)>>>>,
          <<"block", <<Do(<<"tool", "x">>), <<"let", "x", Absent>>>>>>, Do(Name("x")),
          <<"block", <<<<"alias", "x">>, Do(<<"tool", "x">>)>>>>}

RunAlias ==
  Idle /\ \E a, b \in Tools :
    \/ RunProgram(<<<<"alias", "x">>, a, b>>)
    \/ RunProgram(<<<<"try", <<a>>, "e", <<Do(Name("e"))>>>>, <<"alias", "x">>, b>>)

\* ... and in a function that is compiled before it.
RunEarlyAlias ==
  Idle /\ \E early \in {<<"function", "f", <<>>, <<Do(<<"tool", "x">>)>>>>,
                        <<"var", "f", Fn(<<>>, <<Do(<<"tool", "x">>)>>)>>} :
    RunProgram(<<early, <<"alias", "x">>, Do(CallOf(Name("f"), <<>>))>>)

Next == RunHoisting \/ RunLoop \/ RunCalls \/ RunDefaults \/ RunAlias \/ Execute

Spec == Init /\ [][Next]_vars
EarlyAliasSpec == Init /\ [][RunEarlyAlias \/ Execute]_vars

\* README: every accepted script matches JavaScript, and aliases of namespaces
\* work too.  Whatever frames are shared and used again, a program logs what it
\* logs under environments that never are.
ScopesAsInJavaScript ==
  input[1] = "program" /\ output # <<>> => output[1] = Visible(JsRun(input[2]))
=============================================================================
