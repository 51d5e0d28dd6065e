----------------------------- MODULE Execution -----------------------------
(***************************************************************************)
(* Program.Execute (execute.go) on one rt: a script without a parallel     *)
(* batch.  The script is any script: at each step it takes some statement, *)
(* call, try, tool call or serial batch, or leaves the construct it is in. *)
(* What is kept exactly is how the interpreter charges steps and calls,    *)
(* counts its depth, lets errors pass through catch, finally and batches,  *)
(* and reports the end of the execution.                                   *)
(***************************************************************************)
EXTENDS Integers, Sequences, FiniteSets

CONSTANTS
  MaxSteps,    \* ExecuteOptions.MaxSteps
  StepBatch,   \* execution.batch: steps taken per publication
  MaxCalls,    \* ExecuteOptions.MaxCalls, or MaxHostCalls for host functions
  MaxDepth,    \* ExecuteOptions.MaxCallDepth
  MaxItems,    \* ExecuteOptions.MaxItems
  Source,      \* bound: constructs that take no step, between two that do
  MaxFrames,   \* bound: constructs entered and not left
  MaxSize      \* bound: items of a batch

ASSUME LimitAssumption ==
  /\ MaxSteps \in Nat \ {0} /\ StepBatch \in Nat \ {0} /\ MaxCalls \in Nat \ {0}
  /\ MaxDepth \in Nat \ {0} /\ MaxItems \in Nat \ {0}
  /\ Source \in Nat /\ MaxFrames \in Nat /\ MaxSize \in Nat

\* An exception is a *Throw; any other error is uncatchable.
Error == {"throw", "uncatchable"}

\* The constructs a script may be inside of: a call; a try, whose catch and
\* finally are still to come or not; a finally block, which holds back the
\* exception it interrupted; a serial batch with the items left to run.
CallFrame == [kind : {"call"}]
TryFrame == [kind : {"try"}, catch : BOOLEAN, finally : BOOLEAN]
FinallyFrame == [kind : {"finally"}, held : {"none", "throw"}]
BatchFrame == [kind : {"batch"}, left : Nat, settled : BOOLEAN, failed : BOOLEAN]
Frame == CallFrame \cup TryFrame \cup FinallyFrame \cup BatchFrame

VARIABLES
  phase,      \* Execute: before, inside and after the program body
  pc,         \* where a tool call stands
  stack, depth,
  err,        \* the error on its way up, or "none"
  pending, steps, calls,
  aborted, cancelled,
  result,
  conversions, \* toString and valueOf called for an uncaught exception
  idle,       \* constructs since the last step, see Source
  ticks,      \* history: steps really taken
  lateTicks,  \* history: of these, after the cancellation
  lateCalls   \* history: dispatches begun after the cancellation

budget == <<pending, steps, ticks, lateTicks, idle>>
vars == <<phase, pc, stack, depth, err, budget, calls, aborted, cancelled,
          result, conversions, lateCalls>>

TypeOK ==
  /\ phase \in {"start", "main", "text", "done"}
  /\ pc \in {"run", "effect", "dispatch"}
  /\ stack \in Seq(Frame) /\ depth \in Int
  /\ err \in Error \cup {"none"}
  /\ pending \in 0..(StepBatch - 1) /\ steps \in Nat /\ calls \in 0..MaxCalls
  /\ aborted \in BOOLEAN /\ cancelled \in BOOLEAN
  /\ result \in {"none", "value", "throw", "uncatchable", "fatal"}
  /\ conversions \in 0..2
  /\ idle \in Nat /\ ticks \in Nat /\ lateTicks \in Nat /\ lateCalls \in Nat

Init ==
  /\ phase = "start" /\ pc = "run"
  /\ stack = <<>> /\ depth = 0 /\ err = "none"
  /\ pending = 0 /\ steps = 0 /\ calls = 0
  /\ aborted = FALSE /\ cancelled = FALSE /\ result = "none"
  /\ conversions = 0
  /\ idle = 0 /\ ticks = 0 /\ lateTicks = 0 /\ lateCalls = 0

---------------------------------------------------------------------------
(* Steps.  tick charges one and publishes a full batch of them with flush, *)
(* which also looks for the reasons to stop.                               *)

OverLimit_Late(n) == n > MaxSteps + StepBatch

OverLimit(n) == n > MaxSteps

Stopped_OnAbort == aborted

Stopped == aborted \/ cancelled

Publishes == pending + 1 >= StepBatch

Refused == Publishes /\ (OverLimit(steps + pending + 1) \/ Stopped)

TakeStep_Uncharged ==
  /\ idle' = 0
  /\ UNCHANGED <<pending, steps, ticks, lateTicks>>

TakeStep ==
  /\ pending' = IF Publishes THEN 0 ELSE pending + 1
  /\ steps' = IF Publishes THEN steps + pending + 1 ELSE steps
  /\ ticks' = ticks + 1
  /\ lateTicks' = IF cancelled THEN lateTicks + 1 ELSE lateTicks
  /\ idle' = 0

NoStep ==
  /\ idle < Source
  /\ idle' = idle + 1
  /\ UNCHANGED <<pending, steps, ticks, lateTicks>>

\* The script has control.
Running == phase \in {"main", "text"} /\ pc = "run" /\ err = "none" /\ stack # <<>>

Push(f) == Len(stack) < MaxFrames /\ stack' = Append(stack, f)
Top == stack[Len(stack)]
Rest == SubSeq(stack, 1, Len(stack) - 1)

Statement ==
  /\ Running
  /\ TakeStep
  /\ err' = IF Refused THEN "uncatchable" ELSE "none"
  /\ UNCHANGED <<phase, pc, stack, depth, calls, aborted, cancelled, result,
                 conversions, lateCalls>>

\* A throw statement is a step; an expression that raises an exception is not.
Throw ==
  /\ Running
  /\ \/ TakeStep /\ err' = IF Refused THEN "uncatchable" ELSE "throw"
     \/ NoStep /\ err' = "throw"
  /\ UNCHANGED <<phase, pc, stack, depth, calls, aborted, cancelled, result,
                 conversions, lateCalls>>

Overflows == depth >= MaxDepth

\* invoke, up to the body of the function.
EnterCall ==
  /\ TakeStep
  /\ IF Refused \/ Overflows
     THEN err' = "uncatchable" /\ UNCHANGED <<stack, depth>>
     ELSE Push([kind |-> "call"]) /\ depth' = depth + 1 /\ UNCHANGED err

Invoke ==
  /\ Running
  /\ EnterCall
  /\ UNCHANGED <<phase, pc, calls, aborted, cancelled, result, conversions, lateCalls>>

EnterTry ==
  /\ Running
  /\ NoStep
  /\ \E c, f \in BOOLEAN :
       (c \/ f) /\ Push([kind |-> "try", catch |-> c, finally |-> f])
  /\ UNCHANGED <<phase, pc, depth, err, calls, aborted, cancelled, result,
                 conversions, lateCalls>>

\* runBatch on one worker; a batch of no items is over at once.
EnterBatch ==
  /\ Running
  /\ NoStep
  /\ \E n \in 1..MaxSize, s \in BOOLEAN :
       IF n > MaxItems
       THEN err' = "uncatchable" /\ UNCHANGED stack
       ELSE /\ Push([kind |-> "batch", left |-> n, settled |-> s, failed |-> FALSE])
            /\ UNCHANGED err
  /\ UNCHANGED <<phase, pc, depth, calls, aborted, cancelled, result, conversions, lateCalls>>

---------------------------------------------------------------------------
(* effect: publish, look at the context, charge the budget, dispatch.      *)

CallTool ==
  /\ Running
  /\ NoStep
  /\ pc' = "effect"
  /\ UNCHANGED <<phase, stack, depth, err, calls, aborted, cancelled, result,
                 conversions, lateCalls>>

Flush ==
  /\ pc = "effect"
  /\ steps' = steps + pending
  /\ pending' = 0
  /\ IF OverLimit(steps') \/ Stopped
     THEN pc' = "run" /\ err' = "uncatchable"
     ELSE pc' = "dispatch" /\ UNCHANGED err
  /\ UNCHANGED <<phase, stack, depth, calls, aborted, cancelled, result, ticks,
                 lateTicks, idle, conversions, lateCalls>>

Charge ==
  /\ calls' = calls + 1
  /\ lateCalls' = IF cancelled THEN lateCalls + 1 ELSE lateCalls

\* The host answers; an ordinary failure and an exhausted budget are exceptions,
\* a host panic or the context's own error is not.
Dispatch ==
  /\ pc = "dispatch"
  /\ pc' = "run"
  /\ IF calls >= MaxCalls
     THEN err' = "throw" /\ UNCHANGED <<calls, lateCalls>>
     ELSE Charge /\ err' \in {"none", "throw", "uncatchable"}
  /\ UNCHANGED <<phase, stack, depth, budget, aborted, cancelled, result, conversions>>

DispatchFatal ==
  /\ pc = "dispatch" /\ calls < MaxCalls
  /\ Charge
  /\ pc' = "run"
  /\ aborted' = TRUE
  /\ err' = "uncatchable"
  /\ UNCHANGED <<phase, stack, depth, budget, cancelled, result, conversions>>

---------------------------------------------------------------------------
(* Leaving the innermost construct, normally (at its end, or by a return,  *)
(* break or continue, which drops the exception a finally holds back) or   *)
(* with an error.                                                          *)

\* The next item of a batch, or its end: the first exception, if it is not
\* settled.
AfterItem(f) ==
  IF f.left > 1
  THEN stack' = Append(Rest, [f EXCEPT !.left = @ - 1]) /\ err' = "none"
  ELSE stack' = Rest /\ err' = IF f.failed THEN "throw" ELSE "none"

DepthOutside_OnSuccess ==
  IF Top.kind = "call" /\ err = "none" THEN depth - 1 ELSE depth

DepthOutside == IF Top.kind = "call" THEN depth - 1 ELSE depth

Leave ==
  /\ Running
  /\ CASE Top.kind = "call" -> stack' = Rest /\ UNCHANGED err
       [] Top.kind = "try" ->
            /\ stack' = IF Top.finally
                        THEN Append(Rest, [kind |-> "finally", held |-> "none"])
                        ELSE Rest
            /\ UNCHANGED err
       [] Top.kind = "finally" -> stack' = Rest /\ err' \in {Top.held, "none"}
       [] Top.kind = "batch" -> AfterItem(Top)
  /\ depth' = DepthOutside
  /\ UNCHANGED <<phase, pc, budget, calls, aborted, cancelled, result, conversions, lateCalls>>

Catches_Everything(f) == f.kind = "try" /\ f.catch

Catches(f) == f.kind = "try" /\ f.catch /\ err = "throw" /\ ~aborted

Unwinding == phase \in {"main", "text"} /\ pc = "run" /\ err # "none" /\ stack # <<>>

Unwind ==
  /\ Unwinding
  /\ CASE Catches(Top) ->
            /\ stack' = Append(Rest, [Top EXCEPT !.catch = FALSE])
            /\ err' = "none"
       [] ~Catches(Top) /\ Top.kind = "try" /\ Top.finally /\ err = "throw" ->
            /\ stack' = Append(Rest, [kind |-> "finally", held |-> "throw"])
            /\ err' = "none"
       [] Top.kind = "batch" /\ err = "throw" ->
            AfterItem([Top EXCEPT !.failed = @ \/ ~Top.settled])
       [] OTHER -> stack' = Rest /\ UNCHANGED err
  /\ depth' = DepthOutside
  /\ UNCHANGED <<phase, pc, budget, calls, aborted, cancelled, result, conversions, lateCalls>>

---------------------------------------------------------------------------
(* Execute itself.                                                         *)

Report(e) == result' = IF aborted THEN "fatal" ELSE e

Start ==
  /\ phase = "start"
  /\ IF cancelled
     THEN /\ phase' = "done" /\ Report("uncatchable")
          /\ UNCHANGED <<stack, depth, err, budget>>
     ELSE phase' = "main" /\ EnterCall /\ UNCHANGED result
  /\ UNCHANGED <<pc, calls, aborted, cancelled, conversions, lateCalls>>

Ended(p) == phase = p /\ pc = "run" /\ stack = <<>>

\* The body's last steps are published.  Its value may not be exportable; an
\* exception whose value has a toString of its own is reported by calling it.
EndMain ==
  /\ Ended("main")
  /\ steps' = steps + pending
  /\ \/ /\ err = "none"
        /\ phase' = "done" /\ err' = err
        /\ Report("value") \/ Report("uncatchable")
     \/ /\ err # "none"
        /\ phase' = "done" /\ err' = err /\ Report(err)
     \/ /\ err = "throw"
        /\ phase' = "text" /\ err' = "none" /\ result' = "throw"
  /\ UNCHANGED <<pc, stack, depth, pending, ticks, lateTicks, idle, calls,
                 aborted, cancelled, conversions, lateCalls>>

\* toString, or valueOf after a toString that returned an object.
CallText ==
  /\ Ended("text") /\ err = "none"
  /\ conversions < 2
  /\ conversions' = conversions + 1
  /\ EnterCall
  /\ UNCHANGED <<phase, pc, calls, aborted, cancelled, result, lateCalls>>

EndText ==
  /\ Ended("text")
  /\ phase' = "done"
  /\ Report("throw")
  /\ UNCHANGED <<pc, stack, depth, err, budget, calls, aborted, cancelled,
                 conversions, lateCalls>>

Cancel ==
  /\ ~cancelled /\ phase # "done"
  /\ cancelled' = TRUE
  /\ UNCHANGED <<phase, pc, stack, depth, err, budget, calls, aborted, result,
                 conversions, lateCalls>>

Terminated == phase = "done" /\ UNCHANGED vars

Step ==
  \/ Start \/ Statement \/ Throw \/ Invoke \/ EnterTry \/ EnterBatch
  \/ CallTool \/ Flush \/ Dispatch \/ DispatchFatal
  \/ Leave \/ Unwind \/ EndMain \/ CallText \/ EndText

Next == Step \/ Cancel \/ Terminated

Spec == Init /\ [][Next]_vars

\* The goroutine runs, and a dispatched call returns.
FairSpec == Spec /\ WF_vars(Step)
---------------------------------------------------------------------------
(* Properties.                                                             *)

CallsIn(s) == {n \in DOMAIN s : s[n].kind = "call"}

\* Whatever errors passed through, the depth is that of the calls in progress,
\* and the limit on it was never passed: no exit forgets r.depth--.
DepthRestored == depth = Cardinality(CallsIn(stack)) /\ depth <= MaxDepth

\* An uncatchable error is never caught: it only goes further out, and nothing
\* of the script (a catch, a finally, the next item of a batch) runs meanwhile.
UncatchableUnwinds ==
  [][err = "uncatchable" => /\ err' = err \/ phase' # phase
                            /\ UNCHANGED <<ticks, calls>>]_vars

\* The step limit bounds the work done, a publication late: MaxSteps is only
\* compared with what has been published.
WorkBounded == ticks <= MaxSteps + StepBatch

\* README: the context is checked every so many steps and before every
\* dispatch.  After a cancellation the script goes on for less than one more
\* publication, and can begin one call, if it had just been checked.
CancelBounded == lateTicks <= StepBatch /\ lateCalls <= 1

\* A fatal host error ends the script, in a catch or a settled batch too: not
\* one step or call follows, and it is what Execute reports.
FatalEnds ==
  [][aborted => UNCHANGED <<ticks, calls>> /\ result' \in {result, "fatal"}]_vars

\* The limits make every script end, however it loops, calls and catches.
ExecutionEnds == <>(phase = "done")

\* Result.Steps, "statements, calls and loop iterations executed".
StepsExact == phase = "done" => steps = ticks

============================================================================
