--------------------------- MODULE MCCompletions ---------------------------
(* Every small program: a labelled loop around two nested constructs around *)
(* a jump, each construct chosen as a context the next one fills, and what  *)
(* ECMAScript makes of them.                                                *)
EXTENDS Completions

---------------------------------------------------------------------------
\* The completions of ECMAScript statements: a completion carries its own target,
\* so that a jump cannot be mistaken for another one.  Uncatchable errors, which
\* JavaScript lacks, are as the README has them: no catch and no finally sees them.

\* The target of an unlabelled jump is NoLabel.
Completion ==
  [type : {"normal", "break", "continue", "return", "throw", "fail"}, target : Targets,
   v : Nat, trace : Seq(Marks)]

Done(c) == [c EXCEPT !.type = "normal", !.target = NoLabel, !.v = 0]
IsAbrupt(c) == c.type # "normal"
Throwing(type, c) == [Done(c) EXCEPT !.type = type]
Jumping(s, c) == [c EXCEPT !.type = s[1], !.target = s[2]]
Returning(value, c) == [c EXCEPT !.type = "return", !.v = value]
Note(c, what) == [c EXCEPT !.trace = Append(@, what)]

\* A loop with these labels absorbs a jump that is its own.
Own(c, labels) == c.target \in labels \cup {NoLabel}

\* js has what each of the statements inside makes of a completion.
EvalList(js, list, c) ==
  Through([i \in 1..Len(list) |-> [d \in Completion |-> IF IsAbrupt(d) THEN d ELSE js[list[i]][d]]],
          Done(c))

\* What a loop evaluates before its first round, and between two rounds.
JsFirst(e) == [while |-> <<<<"test", e>>>>, do |-> <<>>, for |-> <<<<"test", e>>>>,
               forof |-> <<<<"test", e>>>>, forin |-> <<<<"test", e>>>>]
JsNext(e) == [JsFirst(e) EXCEPT !.do = <<<<"test", e>>>>, !.for = <<<<"update", e>>, <<"test", e>>>>]

\* The step limit is reached where a round begins: before the test of a loop that
\* has one, after the next item is there.
Ended(form, e, n, c) ==
  /\ JsFirst(e)[form] # <<>> \/ n > 1
  /\ ValueOf(e, c.trace) # TRUE
  /\ form \in {"forof", "forin"} \/ n <= MaxRounds

EvalRound(js, form, labels, work, e, n, c) ==
  LET head == IF n = 1 THEN JsFirst(e)[form] ELSE JsNext(e)[form]
      h == [c EXCEPT !.trace = @ \o head]
      d == js[work][h]
      over == n > MaxRounds
  IN  IF over /\ form \notin {"forof", "forin"} THEN [over |-> TRUE, c |-> Throwing("fail", c)]
      ELSE IF Ended(form, e, n, h) THEN [over |-> TRUE, c |-> h]
      ELSE IF over THEN [over |-> TRUE, c |-> Throwing("fail", h)]
      ELSE IF d.type = "break" /\ Own(d, labels) THEN [over |-> TRUE, c |-> Done(d)]
      ELSE IF d.type = "continue" /\ Own(d, labels) THEN [over |-> FALSE, c |-> Done(d)]
      ELSE [over |-> IsAbrupt(d), c |-> d]

EvalLoop(js, s, c) ==
  Through([n \in 1..(MaxRounds + 1) |->
             [a \in [over : BOOLEAN, c : Completion] |->
                IF a.over THEN a ELSE EvalRound(js, s[1], s[2], s[3], s[4], n, a.c)]],
          [over |-> FALSE, c |-> c]).c

\* CaseBlockEvaluation: running is whether a clause was entered.
Equal(e, test, trace) == test # "default" /\ ValueOf(test, trace) = ValueOf(e, trace)

Entered(e, clauses, i, trace) ==
  IF \E j \in DOMAIN clauses : Equal(e, clauses[j].test, trace)
  THEN Equal(e, clauses[i].test, trace) ELSE clauses[i].test = "default"

EvalClause(js, list, on, c) ==
  [running |-> on, c |-> IF on /\ ~IsAbrupt(c) THEN EvalList(js, list, c) ELSE c]

EvalSwitch(js, e, clauses, c) ==
  LET d == Through([i \in 1..Len(clauses) |->
                      [a \in [running : BOOLEAN, c : Completion] |->
                         EvalClause(js, clauses[i].list, a.running \/ Entered(e, clauses, i, c.trace), a.c)]],
                   [running |-> FALSE, c |-> Done(c)]).c
  IN  IF d.type = "break" /\ d.target = NoLabel THEN Done(d) ELSE d

EvalIf(js, test, cons, alt, c) ==
  LET branch == IF ValueOf(test, c.trace) = TRUE THEN cons ELSE alt
  IN  IF branch = 0 THEN Done(c) ELSE js[branch][c]

EvalTry(js, work, catch, finally, c) ==
  LET b == js[work][c]
      d == IF b.type = "throw" /\ catch # 0 THEN js[catch][Done(b)] ELSE b
      f == js[finally][Done(d)]
  IN  IF finally = 0 \/ d.type = "fail" THEN d
      ELSE IF IsAbrupt(f) THEN f
      ELSE [d EXCEPT !.trace = f.trace]

EvalLabelled(js, labels, work, c) ==
  LET d == js[work][c]
  IN  IF d.type = "break" /\ d.target \in labels THEN Done(d) ELSE d

EvalBody(js, list, c) ==
  LET d == EvalList(js, list, c) IN IF d.type = "normal" THEN Done(d) ELSE d

EvalCall(js, list, c) ==
  LET d == EvalBody(js, list, c)
  IN  IF d.type \in {"throw", "fail"} THEN d ELSE Note(Done(d), <<"returned", d.v>>)

Eval(js, s, c) ==
  CASE s[1] = "mark" -> Note(Done(c), s)
    [] s[1] \in Jumps -> Jumping(s, c)
    [] s[1] = "return" -> Returning(s[2], c)
    [] s[1] \in {"throw", "fail"} -> Throwing(s[1], c)
    [] s[1] = "block" -> EvalList(js, s[2], c)
    [] s[1] = "if" -> EvalIf(js, s[2], s[3], s[4], c)
    [] s[1] = "switch" -> EvalSwitch(js, s[2], s[3], c)
    [] s[1] = "label" -> EvalLabelled(js, s[2], s[3], c)
    [] s[1] \in Loops -> EvalLoop(js, s, c)
    [] s[1] = "try" -> EvalTry(js, s[2], s[3], s[4], c)
    [] s[1] = "call" -> EvalCall(js, s[2], c)

\* What each statement of p makes of a completion.
Meanings(p) ==
  LET upto[n \in 0..Len(p)] ==
        IF n = 0 THEN <<>>
        ELSE LET js == upto[n - 1] IN Append(js, [c \in Completion |-> Eval(js, p[n], c)])
  IN  upto[Len(p)]

JsRun(p) ==
  EvalBody(Meanings(p), <<Len(p)>>, [type |-> "normal", target |-> NoLabel, v |-> 0, trace |-> <<>>])

---------------------------------------------------------------------------
JumpStatements == {<<"mark", 1>>, <<"throw">>, <<"fail">>, <<"return", 1>>,
                   <<"break", "B">>} \cup (Jumps \X {NoLabel, "A"})

Contexts ==
  (Loops \X {{}, {"B"}})
    \cup {<<"label">>, <<"call">>, <<"catch">>, <<"then">>, <<"else">>, <<"over">>, <<"limit">>}
    \cup ({"switch"} \X {"first", "last", "other"})
    \cup ({"try"} \X BOOLEAN \X BOOLEAN)

Bare == <<"bare">>

\* The last statement of p, and a mark.
Then(p, n) == p \o <<<<"mark", n>>, <<"block", <<Len(p), Len(p) + 1>>>>>>

\* The last statement of p in the context, with a mark wherever control may go on
\* after it; name is the test of a loop.
Fill(c, p, name) ==
  LET n == Len(p)
  IN  CASE c = Bare -> p
        [] c[1] \in Loops -> Append(Then(p, 2), <<c[1], c[2], n + 2, name>>)
        [] c[1] = "limit" -> Append(Then(p, 2), <<"do", {}, n + 2, "yes">>)
        [] c[1] = "then" -> Append(p, <<"if", "yes", n, 0>>)
        [] c[1] = "else" -> p \o <<<<"mark", 2>>, <<"if", "no", n + 1, n>>>>
        [] c[1] = "over" -> Append(p, <<"if", "no", n, 0>>)
        [] c[1] = "switch" ->
             p \o <<<<"mark", 2>>, <<"mark", 6>>, <<"mark", 7>>,
                    <<"switch", c[2], <<[test |-> "first", list |-> <<n, n + 1>>],
                                        [test |-> "default", list |-> <<n + 2>>],
                                        [test |-> "last", list |-> <<n + 3, n>>]>>>>>>
        [] c[1] = "label" -> Append(Then(p, 2), <<"label", {"B"}, n + 2>>)
        [] c[1] = "call" -> p \o <<<<"mark", 2>>, <<"call", <<n, n + 1>>>>>>
        [] c[1] = "catch" -> p \o <<<<"throw">>, <<"try", n + 1, n, 0>>>>
        [] c[1] = "try" -> p \o <<<<"mark", 3>>, <<"mark", 4>>,
                                  <<"try", n, IF c[2] THEN n + 1 ELSE 0, IF c[3] THEN n + 2 ELSE 0>>>>

\* A labelled loop around it all.
Whole(p, main) ==
  LET n == Len(p)
  IN  Then(p, 8) \o <<<<main, {"A"}, n + 2, "main">>, <<"mark", 9>>, <<"block", <<n + 3, n + 4>>>>>>

\* Conditions and switched values are what they are called; a loop runs at most two
\* rounds: of the times its test is evaluated, each third is false.
MCValueOf(e, trace) ==
  CASE e = "yes" -> TRUE
    [] e = "no" -> FALSE
    [] e \in {"main", "outer", "inner"} -> Cardinality({i \in DOMAIN trace : trace[i] = <<"test", e>>}) % 3 # 0
    [] OTHER -> e

\* The jump j in two contexts, with a finally that only marks under every try; or,
\* unless i is None, the jump j anywhere in the finally of a try that is left by i.
None == <<"none">>
Few == {c \in Contexts : c[1] \notin {"do", "for", "forin", "else", "over", "limit"}} \cup {Bare}
Shapes ==
  {x \in (JumpStatements \cup {None}) \X JumpStatements \X (Contexts \cup {Bare}) \X (Contexts \cup {Bare}) \X Loops :
     x[1] # None => {x[3], x[4]} \subseteq Few /\ x[5] = "while"}

Shaped(i, j, c, d, main) ==
  LET q == Fill(c, <<i>>, "outer")
      r == Then(Fill(d, Append(q, j), "inner"), 5)
  IN  IF i = None THEN Whole(Fill(c, Fill(d, <<j>>, "inner"), "outer"), main)
      ELSE Whole(Append(r, <<"try", Len(q), 0, Len(r)>>), main)

MCPrograms == {p \in {Shaped(x[1], x[2], x[3], x[4], x[5]) : x \in Shapes} : IsProgram(p)}

\* Those that the stale register makes go wrong are among these.
CrossingPrograms == {p \in MCPrograms : ~Apart(p)}

\* A statement of p is a jump without a label.
Unlabelled(p) == \E i \in DOMAIN p : p[i] \in Jumps \X {NoLabel}

---------------------------------------------------------------------------
\* README: every accepted script matches JavaScript.  Each body has the marks
\* and the completion ECMAScript gives it, whatever ran on the same rt before.
MatchesJavaScript ==
  ~Idle =>
    LET js == JsRun(body)
    IN  /\ last.trace = js.trace
        /\ last.err = IF js.type \in {"throw", "fail"} THEN js.type ELSE "none"
        /\ js.type = "return" <=> last.k = "return"
        /\ last.v = js.v

\* Between two bodies of one rt (two items of a batch worker, two calls) no
\* labelled jump is in flight.
NoLabelInFlight == label = NoLabel

\* A body that began with the register empty, and in which no labelled jump
\* crosses a finally that may disturb it, is what it is in ECMAScript and leaves
\* the register empty for the next, however it ends.
StatementsMatch ==
  ~Idle /\ entry = NoLabel /\ Apart(body) => MatchesJavaScript /\ NoLabelInFlight

\* How far a label left by the body before reaches (another call, another item of
\* the worker): only an unlabelled break or continue can be taken for it, and a
\* body without one does not see it.
StaleLabelUnseen ==
  ~Idle /\ Apart(body) /\ ~Unlabelled(body) => MatchesJavaScript
============================================================================
