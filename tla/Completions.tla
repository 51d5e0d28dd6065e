---------------------------- MODULE Completions ----------------------------
(***************************************************************************)
(* How compiled statements complete (compile.go): each stmtFn returns a    *)
(* control kind, a value and an error, while the target of a labelled      *)
(* break or continue travels beside them in one register, rt.label, that   *)
(* every statement run by the same rt shares.                              *)
(*                                                                         *)
(* A program is the sequence of its statements in the order in which they  *)
(* are compiled: the statements inside a statement come before it, and it  *)
(* has their numbers (0: absent); the last is the whole program.  A        *)
(* statement is a tuple whose head names its form:                         *)
(*   <<"mark", n>>         an expression statement with an effect          *)
(*   <<"break", l>>, <<"continue", l>>, <<"return", n>>   (l: a Target)    *)
(*   <<"throw">>           raises a Throw; <<"fail">> an uncatchable error *)
(*   <<"block", list>>, <<"call", list>>                                   *)
(*   <<"if", test, then, else>>                                            *)
(*   <<"switch", e, clauses>>: a clause is [test, list]                    *)
(*   <<form, labels, body, test>>: a loop, for a form of Loops             *)
(*   <<"label", labels, body>>: a labelled statement that is not a loop    *)
(*   <<"try", body, catch, finally>>                                       *)
(***************************************************************************)
EXTENDS Integers, Sequences, FiniteSets

CONSTANTS
  ValueOf(_, _),   \* what an expression comes to, after the effects of a trace
  Programs,      \* the bodies that one rt may run: any legal ones
  Labels,        \* the names of labels; those that programs use
  MaxRounds      \* bound: the rounds of a loop before the step limit ends it

ASSUME RoundsAssumption == MaxRounds \in Nat

TestLoops == {"while", "do", "for"}
ItemLoops == {"forof", "forin"}
Loops == TestLoops \cup ItemLoops

True(e, trace) == ValueOf(e, trace) = TRUE

---------------------------------------------------------------------------
(* What a stmtFn takes and returns, with the rt's label register and the   *)
(* effects so far.                                                         *)
NoLabel == ""
Targets == Labels \cup {NoLabel}

Marks == ({"mark", "returned"} \X Nat) \cup ({"test", "update"} \X STRING)

Reg == [k : {"normal", "break", "continue", "return"}, v : Nat,
        err : {"none", "throw", "fail"}, label : Targets, trace : Seq(Marks)]

Fresh(label) ==
  [k |-> "normal", v |-> 0, err |-> "none", label |-> label, trace |-> <<>>]

\* Between the rounds of a loop, and the clauses of a switch.
Going == [stop : BOOLEAN, r : Reg]

Normal(r) == [r EXCEPT !.k = "normal", !.v = 0]
Raise(err, r) == [Normal(r) EXCEPT !.err = err]
Abrupt(r) == r.err # "none" \/ r.k # "normal"
Mark(r, what) == [r EXCEPT !.trace = Append(@, what)]

HasLabel(labels, l) == l \in labels

(* loopControl: resolves a loop body's completion, in [stop, r].           *)
LoopControl_LabelFirst(r, labels) ==
  IF HasLabel(labels, r.label)
  THEN [stop |-> r.k # "continue", r |-> [Normal(r) EXCEPT !.label = NoLabel]]
  ELSE LET own == r.label = NoLabel /\ r.k \in {"break", "continue"}
       IN  [stop |-> r.k \in {"break", "return"} \/ (r.k = "continue" /\ ~own),
            r |-> IF own THEN Normal(r) ELSE r]

LoopControl(r, labels) ==
  LET mine == r.label = NoLabel \/ HasLabel(labels, r.label)
      own == [Normal(r) EXCEPT !.label = NoLabel]
  IN  CASE r.k = "break" -> [stop |-> TRUE, r |-> IF mine THEN own ELSE r]
        [] r.k = "continue" -> [stop |-> ~mine, r |-> IF mine THEN own ELSE r]
        [] OTHER -> [stop |-> r.k = "return", r |-> r]

\* The body of forInOf's step, once the loop's own labels are resolved.
StepResult(r, labels) ==
  LET jump == r.k \in {"break", "continue"}
      s == IF jump /\ r.label # NoLabel /\ HasLabel(labels, r.label)
           THEN [r EXCEPT !.label = NoLabel] ELSE r
  IN  IF s.k = "continue" /\ s.label = NoLabel THEN Normal(s) ELSE s

\* A catch takes a Throw; nothing takes an uncatchable error.
Caught(r) == r.err = "throw"

---------------------------------------------------------------------------
(* The closures.  run has those of the statements inside, by their numbers. *)

\* What a sequence of functions, each applied to what the one before returns, makes of c.
Through(steps, c) ==
  LET after[i \in 0..Len(steps)] == IF i = 0 THEN c ELSE steps[i][after[i - 1]]
  IN  after[Len(steps)]

RunList(run, list, r) ==
  Through([i \in 1..Len(list) |-> [s \in Reg |-> IF Abrupt(s) THEN s ELSE run[list[i]][s]]], Normal(r))

If(run, test, cons, alt, r) ==
  IF True(test, r.trace) THEN run[cons][r]
  ELSE IF alt # 0 THEN run[alt][r] ELSE Normal(r)

\* What a loop's head evaluates in its nth round: a for its update, after the
\* first; all but a do the test, which a do skips once.
LoopHead(form, test, n, r) ==
  LET u == IF form = "for" /\ n # 1 THEN Mark(r, <<"update", test>>) ELSE r
  IN  IF form = "do" /\ n = 1 THEN u ELSE Mark(u, <<"test", test>>)

\* One round of a loop with a test: tick, head, body.
While(run, s, n, r) ==
  LET h == LoopHead(s[1], s[4], n, r)
      b == run[s[3]][h]
  IN  IF n > MaxRounds THEN [stop |-> TRUE, r |-> Raise("fail", r)]
      ELSE IF ~(s[1] = "do" /\ n = 1) /\ ~True(s[4], h.trace) THEN [stop |-> TRUE, r |-> Normal(h)]
      ELSE IF b.err # "none" THEN [stop |-> TRUE, r |-> b]
      ELSE LoopControl(b, s[2])

\* iterate, one item of an array, a string or an iterator; for-in's own round
\* over the keys of an object is the same.
Iterate(run, s, n, r) ==
  LET h == Mark(r, <<"test", s[4]>>)
      e == run[s[3]][h]
      b == StepResult(e, s[2])
  IN  IF ~True(s[4], h.trace) THEN [stop |-> TRUE, r |-> Normal(h)]
      ELSE IF n > MaxRounds THEN [stop |-> TRUE, r |-> Raise("fail", h)]
      ELSE IF e.err # "none" THEN [stop |-> TRUE, r |-> e]
      ELSE IF b.k = "break" /\ b.label = NoLabel THEN [stop |-> TRUE, r |-> Normal(b)]
      ELSE [stop |-> b.k # "normal", r |-> b]

Round(run, s, n, r) == IF s[1] \in TestLoops THEN While(run, s, n, r) ELSE Iterate(run, s, n, r)

Loop(run, s, r) ==
  Through([n \in 1..(MaxRounds + 1) |->
             [a \in Going |-> IF a.stop THEN a ELSE Round(run, s, n, a.r)]],
          [stop |-> FALSE, r |-> r]).r

\* finish: the finally block, whose abrupt completion overrides the try's.
Finish_TryWins(run, finally, r) ==
  IF finally = 0 \/ r.err = "fail" THEN r
  ELSE LET f == run[finally][[Normal(r) EXCEPT !.err = "none"]]
       IN  IF Abrupt(r) THEN [r EXCEPT !.label = f.label, !.trace = f.trace] ELSE f

Finish(run, finally, r) ==
  IF finally = 0 \/ r.err = "fail" THEN r
  ELSE LET f == run[finally][[Normal(r) EXCEPT !.err = "none"]]
       IN  IF Abrupt(f) THEN f
           ELSE [r EXCEPT !.label = f.label, !.trace = f.trace]

Try(run, body, catch, finally, r) ==
  LET b == run[body][r]
      c == IF Caught(b) /\ catch # 0
           THEN run[catch][[Normal(b) EXCEPT !.err = "none"]]
           ELSE b
  IN  Finish(run, finally, c)

\* The first clause whose test equals e, wherever the default is; else the default.
Start(e, clauses, trace) ==
  LET cases == {i \in DOMAIN clauses : /\ clauses[i].test # "default"
                                       /\ ValueOf(clauses[i].test, trace) = ValueOf(e, trace)}
      def == {i \in DOMAIN clauses : clauses[i].test = "default"}
      from == IF cases # {} THEN cases ELSE def
  IN  IF from = {} THEN Len(clauses) + 1
      ELSE CHOOSE i \in from : \A j \in from : i <= j

\* A clause falls through to the next; an unlabelled break ends the switch, any
\* other completion goes on out.
Clause(run, list, r) ==
  LET b == RunList(run, list, r)
  IN  IF b.err = "none" /\ b.k = "break" /\ b.label = NoLabel THEN [stop |-> TRUE, r |-> Normal(b)]
      ELSE [stop |-> Abrupt(b), r |-> b]

Switch(run, e, clauses, r) ==
  LET start == Start(e, clauses, r.trace)
  IN  Through([i \in 1..Len(clauses) |->
                 [a \in Going |-> IF a.stop \/ i < start THEN a ELSE Clause(run, clauses[i].list, a.r)]],
              [stop |-> FALSE, r |-> Normal(r)]).r

Labelled(run, labels, body, r) ==
  LET s == run[body][r]
  IN  IF s.err = "none" /\ s.k = "break" /\ HasLabel(labels, s.label)
      THEN [Normal(s) EXCEPT !.label = NoLabel] ELSE s

\* runBody: the call's value is that of a return, undefined (0) otherwise.
RunBody(run, list, r) ==
  LET s == RunList(run, list, r)
  IN  IF s.err # "none" \/ s.k = "return" THEN s ELSE Normal(s)

Call(run, list, r) ==
  LET s == RunBody(run, list, r)
  IN  IF s.err # "none" THEN s ELSE Mark(Normal(s), <<"returned", s.v>>)

\* A jump without a label leaves the register as it is.
Jump(s, r) == [r EXCEPT !.k = s[1], !.label = IF s[2] = NoLabel THEN @ ELSE s[2]]
GiveBack(value, r) == [r EXCEPT !.k = "return", !.v = value]

Exec(run, s, r) ==
  CASE s[1] = "mark" -> Mark(Normal(r), s)
    [] s[1] \in {"break", "continue"} -> Jump(s, r)
    [] s[1] = "return" -> GiveBack(s[2], r)
    [] s[1] \in {"throw", "fail"} -> Raise(s[1], r)
    [] s[1] = "block" -> RunList(run, s[2], r)
    [] s[1] = "if" -> If(run, s[2], s[3], s[4], r)
    [] s[1] = "switch" -> Switch(run, s[2], s[3], r)
    [] s[1] = "label" -> Labelled(run, s[2], s[3], r)
    [] s[1] \in Loops -> Loop(run, s, r)
    [] s[1] = "try" -> Try(run, s[2], s[3], s[4], r)
    [] s[1] = "call" -> Call(run, s[2], r)

\* Each statement becomes a closure over those compiled before it.
Compiled(p) ==
  LET upto[n \in 0..Len(p)] ==
        IF n = 0 THEN <<>>
        ELSE LET run == upto[n - 1] IN Append(run, [r \in Reg |-> Exec(run, p[n], r)])
  IN  upto[Len(p)]

---------------------------------------------------------------------------
(* One rt runs body after body: the calls of a script, the items a batch   *)
(* worker claims.  The label register is all that survives from one to the *)
(* next.                                                                   *)

VARIABLES
  label,   \* rt.label
  body,    \* the body that ran last, or none
  last,    \* what it came to
  entry    \* history: the label that was in the register when it began

vars == <<label, body, last, entry>>

Idle == body = <<>>

Init == label = NoLabel /\ Idle /\ last = Fresh(NoLabel) /\ entry = NoLabel

Run(p) ==
  /\ body' = p
  /\ last' = RunBody(Compiled(p), <<Len(p)>>, Fresh(label))
  /\ label' = last'.label
  /\ entry' = label

\* The result is handed back; the rt keeps its register.
Return ==
  /\ ~Idle
  /\ body' = <<>>
  /\ last' = Fresh(NoLabel)
  /\ entry' = NoLabel
  /\ UNCHANGED label

Next == (Idle /\ \E p \in Programs : Run(p)) \/ Return

Spec == Init /\ [][Next]_vars

---------------------------------------------------------------------------
(* The bodies it runs: the legal ones; and those of them in which no       *)
(* labelled jump crosses a finally that may disturb the register.          *)

\* The statements inside s.
Parts(s) ==
  CASE s[1] \in {"block", "call"} -> {s[2][i] : i \in DOMAIN s[2]}
    [] s[1] = "switch" -> UNION {{s[3][i].list[j] : j \in DOMAIN s[3][i].list} : i \in DOMAIN s[3]}
    [] s[1] = "if" -> {s[3], s[4]} \ {0}
    [] s[1] \in Loops \cup {"label"} -> {s[3]}
    [] s[1] = "try" -> {s[2], s[3], s[4]} \ {0}
    [] OTHER -> {}

\* s is a statement around statements with numbers of at most n.
IsStatement(s, n) ==
  /\ s[1] \in {"mark", "break", "continue", "return", "throw", "fail", "block", "call", "if",
              "switch", "label", "try"} \cup Loops
  /\ s[1] = "mark" => s \in {"mark"} \X Nat
  /\ s[1] \in {"break", "continue"} => s \in {s[1]} \X Targets
  /\ s[1] = "return" => s[2] \in Nat
  /\ s[1] \in {"block", "call"} => s[2] \in Seq(1..n)
  /\ s[1] = "if" => s[3] \in 1..n /\ s[4] \in 0..n
  /\ s[1] = "switch" => DOMAIN s[3] = 1..Len(s[3]) /\ Len(s[3]) \in Nat
                         /\ \A i \in DOMAIN s[3] : s[3][i].list \in Seq(1..n)
  /\ s[1] = "label" => s[3] \in 1..n
  /\ s[1] \in Loops => s[3] \in 1..n /\ s[4] \in STRING
  /\ s[1] = "try" => s[2] \in 1..n /\ s[3] \in 0..n /\ s[4] \in 0..n

Jumps == {"break", "continue"}

\* The jumps to a target outside s; exits has those of the statements inside.
Leaving(exits, s) ==
  LET inner == UNION {exits[i] : i \in Parts(s)}
  IN  CASE s[1] \in Jumps -> {s}
        [] s[1] \in {"block", "if", "try"} -> inner
        [] s[1] = "switch" -> inner \ {<<"break", NoLabel>>}
        [] s[1] = "label" -> inner \ ({"break"} \X s[2])
        [] s[1] \in Loops -> inner \ (Jumps \X (s[2] \cup {NoLabel}))
        [] OTHER -> {}

Exits(p) ==
  LET upto[n \in 0..Len(p)] ==
        IF n = 0 THEN <<>> ELSE LET exits == upto[n - 1] IN Append(exits, Leaving(exits, p[n]))
  IN  upto[Len(p)]

\* The statements that have nothing abrupt in them, and no loop that may reach
\* the step limit.
Quiet(p) ==
  LET upto[n \in 0..Len(p)] ==
        IF n = 0 THEN {}
        ELSE LET quiet == upto[n - 1]
             IN  IF p[n][1] \notin Jumps \cup Loops \cup {"return", "throw", "fail"}
                    /\ Parts(p[n]) \subseteq quiet
                 THEN quiet \cup {n} ELSE quiet
  IN  upto[Len(p)]

\* Every jump has its target in its own function.
Legal(p) ==
  LET exits == Exits(p)
  IN  /\ \A i \in DOMAIN p : p[i][1] = "call" => \A j \in Parts(p[i]) : exits[j] = {}
      /\ exits[Len(p)] = {}

\* A labelled jump leaves a try only if its finally is quiet.
Apart(p) ==
  LET exits == Exits(p)
      quiet == Quiet(p)
  IN  \A i \in DOMAIN p : p[i][1] = "try" /\ p[i][4] \notin quiet \cup {0} =>
        \A j \in {p[i][2], p[i][3]} \ {0} : exits[j] \subseteq Jumps \X {NoLabel}

IsProgram(p) ==
  /\ DOMAIN p = 1..Len(p) /\ Len(p) \in Nat \ {0}
  /\ \A i \in DOMAIN p : IsStatement(p[i], i - 1)
  /\ Legal(p)

ASSUME ProgramsAssumption == \A p \in Programs : IsProgram(p)
=============================================================================
