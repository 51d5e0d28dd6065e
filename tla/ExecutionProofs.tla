-------------------------- MODULE ExecutionProofs --------------------------
(* Theorems about Execution, for every setting of the limits.              *)
EXTENDS Execution, FiniteSetTheorems, TLAPS

\* The stack without its top, and with another frame.
LEMMA StackParts ==
  ASSUME TypeOK, stack # <<>>
  PROVE  Top \in Frame /\ Rest \in Seq(Frame)
  BY DEF TypeOK, Top, Rest

LEMMA Pushed ==
  ASSUME NEW s \in Seq(Frame), NEW f \in Frame
  PROVE  Append(s, f) \in Seq(Frame)
  OBVIOUS

LEMMA FrameKinds ==
  ASSUME NEW f \in Frame
  PROVE  /\ f.kind = "call" <=> f \in CallFrame
         /\ f.kind = "try" <=> f \in TryFrame
         /\ f.kind = "finally" <=> f \in FinallyFrame
         /\ f.kind = "batch" <=> f \in BatchFrame
         /\ f.kind \in {"call", "try", "finally", "batch"}
  BY DEF Frame, CallFrame, TryFrame, FinallyFrame, BatchFrame

LEMMA NewFrames ==
  /\ [kind |-> "call"] \in Frame
  /\ \A c, f \in BOOLEAN : [kind |-> "try", catch |-> c, finally |-> f] \in Frame
  /\ \A h \in {"none", "throw"} : [kind |-> "finally", held |-> h] \in Frame
  /\ \A n \in Nat, s, f \in BOOLEAN :
       [kind |-> "batch", left |-> n, settled |-> s, failed |-> f] \in Frame
  BY DEF Frame, CallFrame, TryFrame, FinallyFrame, BatchFrame

---------------------------------------------------------------------------
\* The ways of spending steps, and of moving the stack, keep the types.
BudgetOK ==
  /\ pending \in 0..(StepBatch - 1) /\ steps \in Nat
  /\ idle \in Nat /\ ticks \in Nat /\ lateTicks \in Nat

StackOK == stack \in Seq(Frame) /\ depth \in Int /\ err \in Error \cup {"none"}

LEMMA TakeStepTyped ==
  ASSUME BudgetOK, TakeStep
  PROVE  BudgetOK'
  BY LimitAssumption DEF BudgetOK, TakeStep, Publishes

LEMMA NoStepTyped ==
  ASSUME BudgetOK, NoStep
  PROVE  BudgetOK'
  BY DEF BudgetOK, NoStep

LEMMA EnterCallTyped ==
  ASSUME TypeOK, EnterCall
  PROVE  BudgetOK' /\ StackOK'
<1>1. BudgetOK' BY TakeStepTyped DEF EnterCall, TypeOK, BudgetOK
<1>2. CASE Refused \/ Overflows BY <1>1, <1>2 DEF EnterCall, TypeOK, StackOK, Error
<1>3. CASE ~(Refused \/ Overflows)
  <2>1. stack' = Append(stack, [kind |-> "call"]) /\ depth' = depth + 1 /\ err' = err
    BY <1>3 DEF EnterCall, Push
  <2> QED BY <1>1, <2>1, NewFrames, Pushed DEF TypeOK, StackOK
<1> QED BY <1>2, <1>3

LEMMA AfterItemTyped ==
  ASSUME TypeOK, stack # <<>>, NEW f \in BatchFrame, AfterItem(f)
  PROVE  stack' \in Seq(Frame) /\ err' \in {"none", "throw"}
<1>1. CASE f.left > 1
  <2>1. [f EXCEPT !.left = @ - 1] \in Frame BY <1>1 DEF BatchFrame, Frame
  <2> QED BY <1>1, <2>1, StackParts, Pushed DEF AfterItem
<1>2. CASE ~(f.left > 1) BY <1>2, StackParts DEF AfterItem
<1> QED BY <1>1, <1>2

LEMMA LeaveTyped ==
  ASSUME TypeOK, Leave
  PROVE  StackOK'
<1>0. stack # <<>> /\ Top \in Frame /\ Rest \in Seq(Frame) /\ depth' \in Int /\ err = "none"
  BY StackParts DEF Leave, Running, DepthOutside, TypeOK
<1>1. CASE Top.kind = "call" BY <1>0, <1>1 DEF Leave, StackOK, TypeOK
<1>2. CASE Top.kind = "try"
  <2>1. stack' \in {Rest, Append(Rest, [kind |-> "finally", held |-> "none"])} /\ err' = err
    BY <1>2 DEF Leave
  <2> QED BY <1>0, <2>1, NewFrames, Pushed DEF StackOK, TypeOK
<1>3. CASE Top.kind = "finally"
  <2>1. stack' = Rest /\ err' \in {Top.held, "none"} BY <1>3 DEF Leave
  <2>2. Top.held \in {"none", "throw"} BY <1>0, <1>3, FrameKinds DEF FinallyFrame
  <2> QED BY <1>0, <2>1, <2>2 DEF StackOK, Error
<1>4. CASE Top.kind = "batch"
  <2>1. AfterItem(Top) /\ Top \in BatchFrame BY <1>0, <1>4, FrameKinds DEF Leave
  <2> QED BY <1>0, <2>1, AfterItemTyped DEF StackOK, Error
<1> QED BY <1>0, <1>1, <1>2, <1>3, <1>4, FrameKinds

\* The four ways an error meets the innermost construct.
UnwindCaught ==
  /\ Catches(Top)
  /\ stack' = Append(Rest, [Top EXCEPT !.catch = FALSE]) /\ err' = "none"
UnwindFinally ==
  /\ ~Catches(Top) /\ Top.kind = "try" /\ err = "throw"
  /\ stack' = Append(Rest, [kind |-> "finally", held |-> "throw"]) /\ err' = "none"
UnwindItem ==
  /\ Top.kind = "batch" /\ err = "throw"
  /\ AfterItem([Top EXCEPT !.failed = @ \/ ~Top.settled])
UnwindThrough == ~Catches(Top) /\ stack' = Rest /\ err' = err

LEMMA UnwindCases ==
  ASSUME Unwind
  PROVE  UnwindCaught \/ UnwindFinally \/ UnwindItem \/ UnwindThrough
<1>1. CASE Catches(Top) BY <1>1 DEF Unwind, UnwindCaught, Catches
<1>2. CASE ~Catches(Top) /\ Top.kind = "try" /\ Top.finally /\ err = "throw"
  BY <1>2 DEF Unwind, UnwindFinally
<1>3. CASE Top.kind = "batch" /\ err = "throw"
  BY <1>3 DEF Unwind, UnwindItem, Catches
<1>4. CASE /\ ~Catches(Top) /\ ~(Top.kind = "batch" /\ err = "throw")
           /\ ~(Top.kind = "try" /\ Top.finally /\ err = "throw")
  BY <1>4 DEF Unwind, UnwindThrough
<1> QED BY <1>1, <1>2, <1>3, <1>4

LEMMA UnwindTyped ==
  ASSUME TypeOK, Unwind
  PROVE  StackOK'
<1>0. stack # <<>> /\ Top \in Frame /\ Rest \in Seq(Frame) /\ depth' \in Int
  BY StackParts DEF Unwind, Unwinding, DepthOutside, TypeOK
<1>1. CASE UnwindCaught
  <2>1. Top \in TryFrame BY <1>0, <1>1, FrameKinds DEF UnwindCaught, Catches
  <2>2. [Top EXCEPT !.catch = FALSE] \in Frame BY <2>1 DEF TryFrame, Frame
  <2> QED BY <1>0, <1>1, <2>2, Pushed DEF UnwindCaught, StackOK
<1>2. CASE UnwindFinally
  BY <1>0, <1>2, NewFrames, Pushed DEF UnwindFinally, StackOK
<1>3. CASE UnwindItem
  <2> DEFINE f == [Top EXCEPT !.failed = @ \/ ~Top.settled]
  <2>1. Top \in BatchFrame BY <1>0, <1>3, FrameKinds DEF UnwindItem
  <2>2. f \in BatchFrame BY <2>1 DEF BatchFrame
  <2>3. AfterItem(f) BY <1>3 DEF UnwindItem
  <2> QED BY <1>0, <2>2, <2>3, AfterItemTyped DEF StackOK, Error
<1>4. CASE UnwindThrough BY <1>0, <1>4 DEF UnwindThrough, StackOK, TypeOK
<1> QED BY <1>1, <1>2, <1>3, <1>4, UnwindCases
---------------------------------------------------------------------------
\* Type correctness.
LEMMA TypeStep ==
  ASSUME TypeOK, [Next]_vars
  PROVE  TypeOK'
<1> USE DEF TypeOK
<1>b. BudgetOK /\ StackOK BY DEF BudgetOK, StackOK
<1>1. CASE Start
  <2>1. CASE cancelled BY <1>1, <2>1 DEF Start, Report, budget
  <2>2. CASE ~cancelled
    BY <1>1, <2>2, EnterCallTyped DEF Start, BudgetOK, StackOK
  <2> QED BY <2>1, <2>2
<1>2. CASE Statement
  BY <1>2, <1>b, TakeStepTyped DEF Statement, BudgetOK, Error
<1>3. CASE Throw
  <2>1. BudgetOK' BY <1>3, <1>b, TakeStepTyped, NoStepTyped DEF Throw
  <2> QED BY <1>3, <2>1 DEF Throw, BudgetOK, Error
<1>4. CASE Invoke
  BY <1>4, EnterCallTyped DEF Invoke, BudgetOK, StackOK
<1>5. CASE EnterTry
  <2>1. BudgetOK' BY <1>5, <1>b, NoStepTyped DEF EnterTry
  <2>2. stack' \in Seq(Frame) BY <1>5, NewFrames, Pushed DEF EnterTry, Push
  <2> QED BY <1>5, <2>1, <2>2 DEF EnterTry, BudgetOK
<1>6. CASE EnterBatch
  <2>1. BudgetOK' BY <1>6, <1>b, NoStepTyped DEF EnterBatch
  <2>2. PICK n \in 1..MaxSize, s \in BOOLEAN :
          IF n > MaxItems
          THEN err' = "uncatchable" /\ UNCHANGED stack
          ELSE /\ Push([kind |-> "batch", left |-> n, settled |-> s, failed |-> FALSE])
               /\ UNCHANGED err
    BY <1>6 DEF EnterBatch
  <2>3. stack' \in Seq(Frame) /\ err' \in Error \cup {"none"}
    <3>1. CASE n > MaxItems BY <2>2, <3>1 DEF Error
    <3>2. CASE ~(n > MaxItems)
      <4>1. n \in Nat BY LimitAssumption
      <4>2. [kind |-> "batch", left |-> n, settled |-> s, failed |-> FALSE] \in Frame
        BY <4>1, NewFrames
      <4> QED BY <2>2, <3>2, <4>2, Pushed DEF Push
    <3> QED BY <3>1, <3>2
  <2> QED BY <1>6, <2>1, <2>3 DEF EnterBatch, BudgetOK
<1>7. CASE CallTool
  <2>1. BudgetOK' BY <1>7, <1>b, NoStepTyped DEF CallTool
  <2> QED BY <1>7, <2>1 DEF CallTool, BudgetOK
<1>8. CASE Flush BY <1>8, LimitAssumption DEF Flush, Error
<1>9. CASE Dispatch
  BY <1>9, LimitAssumption DEF Dispatch, Charge, Error, budget
<1>10. CASE DispatchFatal
  BY <1>10, LimitAssumption DEF DispatchFatal, Charge, Error, budget
<1>11. CASE Leave BY <1>11, LeaveTyped DEF Leave, StackOK, budget
<1>12. CASE Unwind BY <1>12, UnwindTyped DEF Unwind, StackOK, budget
<1>13. CASE EndMain BY <1>13 DEF EndMain, Report, Error
<1>14. CASE CallText
  <2>1. conversions' \in 0..2 BY <1>14 DEF CallText
  <2> QED BY <1>14, <2>1, EnterCallTyped DEF CallText, BudgetOK, StackOK
<1>15. CASE EndText BY <1>15 DEF EndText, Report, budget
<1>16. CASE Cancel BY <1>16 DEF Cancel, budget
<1>17. CASE UNCHANGED vars BY <1>17 DEF vars, budget
<1> QED BY <1>1, <1>2, <1>3, <1>4, <1>5, <1>6, <1>7, <1>8, <1>9, <1>10, <1>11,
           <1>12, <1>13, <1>14, <1>15, <1>16, <1>17 DEF Next, Step, Terminated

\* Every variable keeps its type: the calls stay within the budget, and never
\* more than one publication of steps is held back.
THEOREM TypeCorrect == Spec => []TypeOK
<1>1. Init => TypeOK
  <2> SUFFICES ASSUME Init PROVE TypeOK OBVIOUS
  <2>1. stack \in Seq(Frame) BY DEF Init
  <2>2. 0 \in 0..(StepBatch - 1) /\ 0 \in 0..MaxCalls BY LimitAssumption
  <2>3. BudgetOK BY <2>2 DEF Init, BudgetOK
  <2>4. StackOK BY <2>1 DEF Init, StackOK
  <2>5. /\ phase \in {"start", "main", "text", "done"}
        /\ pc \in {"run", "effect", "dispatch"}
        /\ result \in {"none", "value", "throw", "uncatchable", "fatal"}
    BY DEF Init
  <2>6. calls \in 0..MaxCalls /\ conversions \in 0..2 /\ lateCalls \in Nat
    BY <2>2 DEF Init
  <2>7. aborted \in BOOLEAN /\ cancelled \in BOOLEAN BY DEF Init
  <2> QED BY <2>3, <2>4, <2>5, <2>6, <2>7 DEF TypeOK, BudgetOK, StackOK
<1> QED BY <1>1, TypeStep, PTL DEF Spec
---------------------------------------------------------------------------
\* A call on its way to the host is the script's own, and no error is in flight.
Shape ==
  /\ pc # "run" => err = "none" /\ phase \in {"main", "text"}
  /\ phase = "start" => err = "none" /\ ~aborted

LEMMA ShapeStep ==
  ASSUME Shape, [Next]_vars
  PROVE  Shape'
<1>1. CASE Start BY <1>1 DEF Start, Shape, Running, Unwinding, Ended
<1>2. CASE Statement BY <1>2 DEF Statement, Shape, Running, Unwinding, Ended
<1>3. CASE Throw BY <1>3 DEF Throw, Shape, Running, Unwinding, Ended
<1>4. CASE Invoke BY <1>4 DEF Invoke, Shape, Running, Unwinding, Ended
<1>5. CASE EnterTry BY <1>5 DEF EnterTry, Shape, Running, Unwinding, Ended
<1>6. CASE EnterBatch BY <1>6 DEF EnterBatch, Shape, Running, Unwinding, Ended
<1>7. CASE CallTool BY <1>7 DEF CallTool, Shape, Running, Unwinding, Ended
<1>8. CASE Flush BY <1>8 DEF Flush, Shape, Running, Unwinding, Ended
<1>9. CASE Dispatch BY <1>9 DEF Dispatch, Shape, Running, Unwinding, Ended
<1>10. CASE DispatchFatal BY <1>10 DEF DispatchFatal, Shape, Running, Unwinding, Ended
<1>11. CASE Leave BY <1>11 DEF Leave, Shape, Running, Unwinding, Ended
<1>12. CASE Unwind BY <1>12 DEF Unwind, Shape, Running, Unwinding, Ended
<1>13. CASE EndMain BY <1>13 DEF EndMain, Shape, Running, Unwinding, Ended
<1>14. CASE CallText BY <1>14 DEF CallText, Shape, Running, Unwinding, Ended
<1>15. CASE EndText BY <1>15 DEF EndText, Shape, Running, Unwinding, Ended
<1>16. CASE Cancel BY <1>16 DEF Cancel, Shape, Running, Unwinding, Ended
<1>17. CASE UNCHANGED vars BY <1>17 DEF vars, Shape
<1> QED BY <1>1, <1>2, <1>3, <1>4, <1>5, <1>6, <1>7, <1>8, <1>9, <1>10,
           <1>11, <1>12, <1>13, <1>14, <1>15, <1>16, <1>17 DEF Next, Step, Terminated

THEOREM ShapeInvariant == Spec => []Shape
<1>1. Init => Shape BY DEF Init, Shape
<1> QED BY <1>1, ShapeStep, PTL DEF Spec

\* Where an uncatchable error can go: outwards, or to the end.
LEMMA Uncaught ==
  ASSUME TypeOK, Shape, [Next]_vars, err = "uncatchable"
  PROVE  /\ UNCHANGED <<ticks, calls, aborted, lateTicks, lateCalls>>
         /\ \/ err' = err /\ phase' = phase
            \/ phase # "done" /\ phase' = "done"
<1>0. pc = "run" /\ phase # "start" BY DEF Shape
<1>1. CASE Unwind
  <2>1. ~UnwindCaught /\ ~UnwindFinally /\ ~UnwindItem
    BY DEF UnwindCaught, UnwindFinally, UnwindItem, Catches
  <2> QED BY <1>1, <2>1, UnwindCases DEF UnwindThrough, Unwind, budget
<1>2. CASE EndMain BY <1>2 DEF EndMain, Ended
<1>3. CASE EndText BY <1>3 DEF EndText, Ended, budget
<1>4. CASE Cancel BY <1>4 DEF Cancel, budget
<1>5. CASE UNCHANGED vars BY <1>5 DEF vars, budget
<1>6. ~(Start \/ Flush \/ Dispatch \/ DispatchFatal)
  BY <1>0 DEF Start, Flush, Dispatch, DispatchFatal
<1>7. ~(Statement \/ Throw \/ Invoke \/ EnterTry \/ EnterBatch \/ CallTool
         \/ Leave \/ CallText)
  BY DEF Statement, Throw, Invoke, EnterTry, EnterBatch, CallTool, Leave, CallText,
         Running
<1> QED BY <1>1, <1>2, <1>3, <1>4, <1>5, <1>6, <1>7 DEF Next, Step, Terminated

\* An uncatchable error is never caught, and nothing of the script runs while
\* it is on its way.
THEOREM UncatchableNotCaught == Spec => UncatchableUnwinds
<1>1. ASSUME TypeOK, Shape, [Next]_vars
      PROVE  [err = "uncatchable" => /\ err' = err \/ phase' # phase
                                     /\ UNCHANGED <<ticks, calls>>]_vars
  BY <1>1, Uncaught
<1> QED BY <1>1, TypeCorrect, ShapeInvariant, PTL DEF Spec, UncatchableUnwinds

---------------------------------------------------------------------------
\* Once aborted, the error that aborted the execution is on its way out.
AbortInv == aborted => err = "uncatchable" \/ phase = "done"

LEMMA AbortedStep ==
  ASSUME TypeOK, Shape, AbortInv, aborted, [Next]_vars
  PROVE  /\ UNCHANGED <<ticks, calls>> /\ result' \in {result, "fatal"}
         /\ AbortInv'
<1>1. CASE err = "uncatchable"
  <2>1. result' \in {result, "fatal"}
    <3>0. pc = "run" /\ phase # "start" BY <1>1 DEF Shape
    <3>1. CASE EndMain BY <1>1, <3>1 DEF EndMain, Report
    <3>2. CASE EndText BY <3>2 DEF EndText, Report
    <3>3. CASE ~EndMain /\ ~EndText
      BY <3>0, <3>3 DEF Next, Step, Start, Statement, Throw, Invoke, EnterTry,
         EnterBatch, CallTool, Flush, Dispatch, DispatchFatal, Leave, Unwind,
         CallText, Cancel, Terminated, vars
    <3> QED BY <3>1, <3>2, <3>3
  <2> QED BY <1>1, <2>1, Uncaught DEF AbortInv
<1>2. CASE phase = "done"
  <2>0. pc = "run" BY <1>2 DEF Shape
  <2>1. UNCHANGED vars
    BY <1>2, <2>0 DEF Next, Step, Start, Statement, Throw, Invoke, EnterTry,
       EnterBatch, CallTool, Flush, Dispatch, DispatchFatal, Leave, Unwind,
       EndMain, CallText, EndText, Cancel, Terminated, Running, Unwinding, Ended
  <2> QED BY <1>2, <2>1 DEF vars, budget, AbortInv
<1> QED BY <1>1, <1>2 DEF AbortInv

LEMMA AbortStep ==
  ASSUME TypeOK, Shape, AbortInv, [Next]_vars
  PROVE  AbortInv'
<1>1. CASE aborted BY <1>1, AbortedStep
<1>2. CASE ~aborted
  <2>1. CASE DispatchFatal BY <2>1 DEF DispatchFatal, AbortInv
  <2>2. CASE ~DispatchFatal
    <3>1. aborted' = aborted
      BY <2>2 DEF Next, Step, Start, Statement, Throw, Invoke, EnterTry,
         EnterBatch, CallTool, Flush, Dispatch, Leave, Unwind, EndMain, CallText,
         EndText, Cancel, Terminated, vars
    <3> QED BY <1>2, <3>1 DEF AbortInv
  <2> QED BY <2>1, <2>2
<1> QED BY <1>1, <1>2

THEOREM AbortInvariant == Spec => []AbortInv
<1>1. Init => AbortInv BY DEF Init, AbortInv
<1> QED BY <1>1, AbortStep, TypeCorrect, ShapeInvariant, PTL DEF Spec

\* After a fatal host error not one step or call follows, and it is what the
\* execution reports.
THEOREM FatalIsFinal == Spec => FatalEnds
<1>1. ASSUME TypeOK, Shape, AbortInv, [Next]_vars
      PROVE  [aborted => UNCHANGED <<ticks, calls>> /\ result' \in {result, "fatal"}]_vars
  BY <1>1, AbortedStep
<1> QED BY <1>1, TypeCorrect, ShapeInvariant, AbortInvariant, PTL DEF Spec, FatalEnds

---------------------------------------------------------------------------
\* Live: the execution may still take steps.
Live == err # "uncatchable" /\ phase # "done"

\* What has not been compared with the limit yet is pending; what was published
\* twice only makes the comparison stricter.
WorkInv ==
  /\ ticks <= steps + pending
  /\ ticks <= MaxSteps + StepBatch
  /\ Live => ticks - pending <= MaxSteps

LEMMA TakeStepWork ==
  ASSUME TypeOK, WorkInv, Live, TakeStep, Refused => err' = "uncatchable"
  PROVE  WorkInv'
<1> USE LimitAssumption DEF TypeOK, WorkInv, TakeStep, Refused, Publishes, OverLimit
<1>1. CASE ~Publishes BY <1>1
<1>2. CASE Publishes /\ Refused BY <1>2 DEF Live
<1>3. CASE Publishes /\ ~Refused BY <1>3
<1> QED BY <1>1, <1>2, <1>3

LEMMA QuietWork ==
  ASSUME WorkInv, UNCHANGED <<ticks, pending, steps>>, Live' => Live
  PROVE  WorkInv'
  BY DEF WorkInv

LEMMA WorkStep ==
  ASSUME TypeOK, Shape, WorkInv, [Next]_vars
  PROVE  WorkInv'
<1>0. err = "uncatchable" \/ phase = "done" => ~Live' /\ ticks' = ticks
  <2>1. CASE err = "uncatchable" BY <2>1, Uncaught DEF Live
  <2>2. CASE phase = "done"
    <3>1. pc = "run" BY <2>2 DEF Shape
    <3>2. UNCHANGED vars
      BY <2>2, <3>1 DEF Next, Step, Start, Statement, Throw, Invoke, EnterTry,
         EnterBatch, CallTool, Flush, Dispatch, DispatchFatal, Leave, Unwind,
         EndMain, CallText, EndText, Cancel, Terminated, Running, Unwinding, Ended
    <3> QED BY <2>2, <3>2 DEF vars, budget, Live
  <2> QED BY <2>1, <2>2
<1>e. EnterCall => TakeStep /\ (Refused => err' = "uncatchable") BY DEF EnterCall
<1>1. CASE Start
  <2>1. CASE cancelled BY <1>1, <2>1, QuietWork DEF Start, budget, Live
  <2>2. CASE ~cancelled
    <3>1. EnterCall /\ Live BY <1>1, <2>2 DEF Start, Shape, Live
    <3> QED BY <1>e, <3>1, TakeStepWork
  <2> QED BY <2>1, <2>2
<1>2. CASE Statement BY <1>2, TakeStepWork DEF Statement, Running, Live
<1>3. CASE Throw
  BY <1>3, TakeStepWork, QuietWork DEF Throw, NoStep, Running, Live
<1>4. CASE Invoke BY <1>4, <1>e, TakeStepWork DEF Invoke, Running, Live
<1>5. CASE EnterTry BY <1>5, QuietWork DEF EnterTry, NoStep, Running, Live
<1>6. CASE EnterBatch BY <1>6, QuietWork DEF EnterBatch, NoStep, Running, Live
<1>7. CASE CallTool BY <1>7, QuietWork DEF CallTool, NoStep, Running, Live
<1>8. CASE Flush
  <2>1. Live BY <1>8 DEF Flush, Shape, Live
  <2>2. CASE OverLimit(steps') \/ Stopped
    BY <1>8, <2>2 DEF Flush, TypeOK, WorkInv, Live
  <2>3. CASE ~(OverLimit(steps') \/ Stopped)
    BY <1>8, <2>1, <2>3, LimitAssumption DEF Flush, TypeOK, WorkInv, OverLimit
  <2> QED BY <2>2, <2>3
<1>9. CASE Dispatch
  <2>1. Live BY <1>9 DEF Dispatch, Shape, Live
  <2> QED BY <1>9, <2>1, QuietWork DEF Dispatch, budget
<1>10. CASE DispatchFatal
  <2>1. Live BY <1>10 DEF DispatchFatal, Shape, Live
  <2> QED BY <1>10, <2>1, QuietWork DEF DispatchFatal, budget
<1>11. CASE Leave BY <1>11, QuietWork DEF Leave, Running, Live, budget
<1>12. CASE Unwind BY <1>0, <1>12, QuietWork DEF Unwind, Live, budget
<1>13. CASE EndMain
  <2>1. Live' => Live BY <1>13 DEF EndMain, Ended, Live
  <2> QED BY <1>13, <2>1 DEF EndMain, TypeOK, WorkInv
<1>14. CASE CallText BY <1>14, <1>e, TakeStepWork DEF CallText, Ended, Live
<1>15. CASE EndText BY <1>0, <1>15, QuietWork DEF EndText, Ended, Live, budget
<1>16. CASE Cancel BY <1>0, <1>16, QuietWork DEF Cancel, Live, budget
<1>17. CASE UNCHANGED vars BY <1>0, <1>17, QuietWork DEF vars, Live, budget
<1> QED BY <1>1, <1>2, <1>3, <1>4, <1>5, <1>6, <1>7, <1>8, <1>9,
           <1>10, <1>11, <1>12, <1>13, <1>14, <1>15, <1>16, <1>17 DEF Next, Step, Terminated

THEOREM WorkInvariant == Spec => []WorkInv
<1>1. Init => WorkInv BY LimitAssumption DEF Init, WorkInv
<1> QED BY <1>1, WorkStep, TypeCorrect, ShapeInvariant, PTL DEF Spec

\* The step limit bounds the steps a script takes, one publication late.
THEOREM StepsLimited == Spec => []WorkBounded
<1>1. WorkInv => WorkBounded BY DEF WorkInv, WorkBounded
<1> QED BY <1>1, WorkInvariant, PTL

---------------------------------------------------------------------------
\* The steps taken since the cancellation are all still to be published, as
\* the publication would have ended the execution.
CancelInv ==
  /\ lateTicks <= StepBatch /\ lateCalls <= 1
  /\ ~cancelled => lateTicks = 0 /\ lateCalls = 0
  /\ cancelled /\ Live => lateTicks <= pending
  /\ pc = "dispatch" => lateCalls = 0

LEMMA TakeStepCancel ==
  ASSUME TypeOK, CancelInv, Live, TakeStep, Refused => err' = "uncatchable",
         UNCHANGED <<cancelled, lateCalls>>, pc' = "run"
  PROVE  CancelInv'
<1> USE LimitAssumption DEF TypeOK, CancelInv, TakeStep, Refused, Publishes, Stopped
<1>1. CASE ~Publishes BY <1>1
<1>2. CASE Publishes /\ Refused BY <1>2 DEF Live
<1>3. CASE Publishes /\ ~Refused BY <1>3
<1> QED BY <1>1, <1>2, <1>3

LEMMA QuietCancel ==
  ASSUME CancelInv, UNCHANGED <<cancelled, lateTicks, lateCalls, pending>>,
         Live' => Live, pc' # "dispatch"
  PROVE  CancelInv'
  BY DEF CancelInv

LEMMA CancelStep ==
  ASSUME TypeOK, Shape, CancelInv, [Next]_vars
  PROVE  CancelInv'
<1>0. CASE err = "uncatchable"
  <2>1. ~Live' /\ UNCHANGED <<lateTicks, lateCalls>> BY <1>0, Uncaught DEF Live
  <2>2. pc = "run" BY <1>0 DEF Shape
  <2>3. pc' # "dispatch" /\ (cancelled => cancelled')
    BY <1>0, <2>2 DEF Next, Step, Start, Statement, Throw, Invoke, EnterTry,
       EnterBatch, CallTool, Flush, Dispatch, DispatchFatal, Leave, Unwind,
       EndMain, CallText, EndText, Cancel, Terminated, vars, Running
  <2> QED BY <2>1, <2>3 DEF CancelInv
<1>a. SUFFICES ASSUME err # "uncatchable" PROVE CancelInv' BY <1>0
<1>e. EnterCall => TakeStep /\ (Refused => err' = "uncatchable") BY DEF EnterCall
<1>1. CASE Start
  <2>1. CASE cancelled
    BY <1>1, <2>1, QuietCancel DEF Start, budget, Live, Shape
  <2>2. CASE ~cancelled
    <3>1. EnterCall /\ Live BY <1>1, <2>2 DEF Start, Shape, Live
    <3>2. pc' = "run" /\ UNCHANGED <<cancelled, lateCalls>>
      BY <1>1 DEF Start, Shape, TypeOK
    <3> QED BY <1>e, <3>1, <3>2, TakeStepCancel
  <2> QED BY <2>1, <2>2
<1>2. CASE Statement BY <1>2, TakeStepCancel DEF Statement, Running, Live
<1>3. CASE Throw
  BY <1>3, TakeStepCancel, QuietCancel DEF Throw, NoStep, Running, Live
<1>4. CASE Invoke BY <1>4, <1>e, TakeStepCancel DEF Invoke, Running, Live
<1>5. CASE EnterTry BY <1>5, QuietCancel DEF EnterTry, NoStep, Running, Live
<1>6. CASE EnterBatch BY <1>6, QuietCancel DEF EnterBatch, NoStep, Running, Live
<1>7. CASE CallTool BY <1>7, QuietCancel DEF CallTool, NoStep, Running, Live
<1>8. CASE Flush
  <2>1. Live BY <1>8 DEF Flush, Shape, Live
  <2>2. CASE OverLimit(steps') \/ Stopped
    BY <1>8, <2>2 DEF Flush, CancelInv, Live
  <2>3. CASE ~(OverLimit(steps') \/ Stopped)
    BY <1>8, <2>1, <2>3, LimitAssumption DEF Flush, TypeOK, CancelInv, Stopped
  <2> QED BY <2>2, <2>3
<1>9. CASE Dispatch
  <2>1. Live BY <1>9 DEF Dispatch, Shape, Live
  <2> QED BY <1>9, <2>1 DEF Dispatch, Charge, budget, CancelInv, TypeOK
<1>10. CASE DispatchFatal
  BY <1>10 DEF DispatchFatal, Charge, budget, CancelInv, TypeOK, Live
<1>11. CASE Leave BY <1>11, QuietCancel DEF Leave, Running, Live, budget
<1>12. CASE Unwind
  BY <1>a, <1>12, QuietCancel DEF Unwind, Unwinding, Live, budget
<1>13. CASE EndMain
  BY <1>a, <1>13, QuietCancel DEF EndMain, Ended, Live
<1>14. CASE CallText BY <1>14, <1>e, TakeStepCancel DEF CallText, Ended, Live
<1>15. CASE EndText BY <1>a, <1>15, QuietCancel DEF EndText, Ended, Live, budget
<1>16. CASE Cancel BY <1>16 DEF Cancel, budget, CancelInv, TypeOK, Live
<1>17. CASE UNCHANGED vars BY <1>17 DEF vars, budget, CancelInv, Live
<1> QED BY <1>1, <1>2, <1>3, <1>4, <1>5, <1>6, <1>7, <1>8, <1>9,
           <1>10, <1>11, <1>12, <1>13, <1>14, <1>15, <1>16, <1>17 DEF Next, Step, Terminated

THEOREM CancelInvariant == Spec => []CancelInv
<1>1. Init => CancelInv BY LimitAssumption DEF Init, CancelInv
<1> QED BY <1>1, CancelStep, TypeCorrect, ShapeInvariant, PTL DEF Spec

\* A cancelled script takes at most one publication of steps more, and begins at
\* most the one call that had just been checked.
THEOREM CancellationPrompt == Spec => []CancelBounded
<1>1. CancelInv => CancelBounded BY DEF CancelInv, CancelBounded
<1> QED BY <1>1, CancelInvariant, PTL

---------------------------------------------------------------------------
(* The depth.  The stack grows by a frame and shrinks by one; only a frame *)
(* of a call is counted.                                                   *)

LEMMA CallsFinite ==
  ASSUME NEW s \in Seq(Frame)
  PROVE  IsFiniteSet(CallsIn(s))
<1>1. CallsIn(s) \in SUBSET (1..Len(s)) BY DEF CallsIn
<1> QED BY <1>1, FS_Interval, FS_Subset

LEMMA CallsOfAppend ==
  ASSUME NEW s \in Seq(Frame), NEW f \in Frame
  PROVE  Cardinality(CallsIn(Append(s, f))) =
           Cardinality(CallsIn(s)) + IF f.kind = "call" THEN 1 ELSE 0
<1>1. CASE f.kind = "call"
  <2>1. CallsIn(Append(s, f)) = CallsIn(s) \cup {Len(s) + 1}
    BY <1>1 DEF CallsIn
  <2>2. Len(s) + 1 \notin CallsIn(s) BY DEF CallsIn
  <2> QED BY <1>1, <2>1, <2>2, CallsFinite, FS_AddElement
<1>2. CASE f.kind # "call"
  <2>1. CallsIn(Append(s, f)) = CallsIn(s) BY <1>2 DEF CallsIn
  <2>2. Cardinality(CallsIn(s)) \in Nat BY CallsFinite, FS_CardinalityType
  <2> QED BY <1>2, <2>1, <2>2
<1> QED BY <1>1, <1>2

LEMMA CallsOfRest ==
  ASSUME TypeOK, stack # <<>>
  PROVE  Cardinality(CallsIn(Rest)) =
           Cardinality(CallsIn(stack)) - IF Top.kind = "call" THEN 1 ELSE 0
<1> DEFINE n == Len(stack)
<1>0. stack \in Seq(Frame) /\ n \in Nat \ {0} BY DEF TypeOK
<1>1. CallsIn(Rest) = CallsIn(stack) \ {n}
  <2>1. DOMAIN Rest = 1..(n - 1) /\ DOMAIN stack = 1..n BY <1>0 DEF Rest
  <2>2. \A m \in 1..(n - 1) : Rest[m] = stack[m] BY <1>0 DEF Rest
  <2> QED BY <1>0, <2>1, <2>2 DEF CallsIn
<1>2. n \in CallsIn(stack) <=> Top.kind = "call" BY <1>0 DEF CallsIn, Top
<1>3. Cardinality(CallsIn(stack)) \in Nat BY <1>0, CallsFinite, FS_CardinalityType
<1>4. Cardinality(CallsIn(stack) \ {n}) =
        IF n \in CallsIn(stack) THEN Cardinality(CallsIn(stack)) - 1
                               ELSE Cardinality(CallsIn(stack))
  <2>1. IsFiniteSet(CallsIn(stack)) BY <1>0, CallsFinite
  <2> HIDE DEF n
  <2> QED BY <2>1, FS_RemoveElement
<1> QED BY <1>1, <1>2, <1>3, <1>4

\* What leaving a construct, either way, does to the stack: the top goes, or a
\* try or batch frame takes the place of another.
Shrinks ==
  \/ stack' = Rest
  \/ /\ Top.kind # "call"
     /\ \E g \in Frame : g.kind # "call" /\ stack' = Append(Rest, g)

LEMMA AfterItemShrinks ==
  ASSUME NEW f \in BatchFrame, Top.kind = "batch", AfterItem(f)
  PROVE  Shrinks
<1>1. CASE f.left > 1
  <2>1. [f EXCEPT !.left = @ - 1] \in Frame /\ [f EXCEPT !.left = @ - 1].kind # "call"
    BY <1>1 DEF BatchFrame, Frame
  <2> QED BY <1>1, <2>1 DEF AfterItem, Shrinks
<1>2. CASE ~(f.left > 1) BY <1>2 DEF AfterItem, Shrinks
<1> QED BY <1>1, <1>2

LEMMA LeaveShrinks ==
  ASSUME TypeOK, Leave
  PROVE  Shrinks
<1>0. Top \in Frame BY StackParts DEF Leave, Running
<1>1. CASE Top.kind = "call" BY <1>1 DEF Leave, Shrinks
<1>2. CASE Top.kind = "try"
  <2>1. stack' \in {Rest, Append(Rest, [kind |-> "finally", held |-> "none"])}
    BY <1>2 DEF Leave
  <2>2. [kind |-> "finally", held |-> "none"] \in Frame BY NewFrames
  <2> QED BY <1>2, <2>1, <2>2 DEF Shrinks
<1>3. CASE Top.kind = "finally" BY <1>3 DEF Leave, Shrinks
<1>4. CASE Top.kind = "batch"
  <2>1. AfterItem(Top) /\ Top \in BatchFrame BY <1>0, <1>4, FrameKinds DEF Leave
  <2> QED BY <1>4, <2>1, AfterItemShrinks
<1> QED BY <1>0, <1>1, <1>2, <1>3, <1>4, FrameKinds

LEMMA UnwindShrinks ==
  ASSUME TypeOK, Unwind
  PROVE  Shrinks
<1>0. Top \in Frame BY StackParts DEF Unwind, Unwinding
<1>1. CASE UnwindCaught
  <2>1. Top \in TryFrame BY <1>0, <1>1, FrameKinds DEF UnwindCaught, Catches
  <2>2. [Top EXCEPT !.catch = FALSE] \in Frame /\ [Top EXCEPT !.catch = FALSE].kind # "call"
    BY <2>1 DEF TryFrame, Frame
  <2>3. Top.kind # "call" BY <2>1 DEF TryFrame
  <2> QED BY <1>1, <2>2, <2>3 DEF UnwindCaught, Shrinks
<1>2. CASE UnwindFinally
  <2>1. [kind |-> "finally", held |-> "throw"] \in Frame BY NewFrames
  <2> QED BY <1>2, <2>1 DEF UnwindFinally, Shrinks
<1>3. CASE UnwindItem
  <2> DEFINE f == [Top EXCEPT !.failed = @ \/ ~Top.settled]
  <2>1. Top \in BatchFrame BY <1>0, <1>3, FrameKinds DEF UnwindItem
  <2>2. f \in BatchFrame BY <2>1 DEF BatchFrame
  <2>3. Top.kind = "batch" /\ AfterItem(f) BY <1>3 DEF UnwindItem
  <2> QED BY <2>2, <2>3, AfterItemShrinks
<1>4. CASE UnwindThrough BY <1>4 DEF UnwindThrough, Shrinks
<1> QED BY <1>1, <1>2, <1>3, <1>4, UnwindCases

LEMMA ShrinkRestores ==
  ASSUME TypeOK, DepthRestored, stack # <<>>, Shrinks, depth' = DepthOutside
  PROVE  DepthRestored'
<1>0. Top \in Frame /\ Rest \in Seq(Frame) BY StackParts
<1>1. Cardinality(CallsIn(Rest)) = depth' BY CallsOfRest DEF DepthRestored, DepthOutside, TypeOK
<1>2. Cardinality(CallsIn(stack')) = depth'
  <2>1. CASE stack' = Rest BY <1>1, <2>1
  <2>2. ASSUME NEW g \in Frame, g.kind # "call", stack' = Append(Rest, g)
        PROVE  Cardinality(CallsIn(stack')) = depth'
    <3>1. Cardinality(CallsIn(Rest)) \in Nat BY <1>0, CallsFinite, FS_CardinalityType
    <3> QED BY <1>0, <1>1, <2>2, <3>1, CallsOfAppend
  <2> QED BY <2>1, <2>2 DEF Shrinks
<1>3. depth' <= MaxDepth BY LimitAssumption DEF DepthRestored, DepthOutside, TypeOK
<1> QED BY <1>2, <1>3 DEF DepthRestored, CallsIn

LEMMA PushKeeps ==
  ASSUME TypeOK, DepthRestored, NEW f \in Frame, stack' = Append(stack, f),
         depth' = depth + IF f.kind = "call" THEN 1 ELSE 0,
         f.kind = "call" => depth < MaxDepth
  PROVE  DepthRestored'
<1>1. Cardinality(CallsIn(stack')) = depth'
  BY CallsOfAppend DEF TypeOK, DepthRestored
<1>2. depth' <= MaxDepth BY LimitAssumption DEF DepthRestored, TypeOK
<1> QED BY <1>1, <1>2 DEF DepthRestored, CallsIn

LEMMA SameKeeps ==
  ASSUME DepthRestored, UNCHANGED <<stack, depth>>
  PROVE  DepthRestored'
  BY DEF DepthRestored, CallsIn

LEMMA EnterCallKeeps ==
  ASSUME TypeOK, DepthRestored, EnterCall
  PROVE  DepthRestored'
<1>1. CASE Refused \/ Overflows BY <1>1, SameKeeps DEF EnterCall
<1>2. CASE ~(Refused \/ Overflows)
  <2>1. stack' = Append(stack, [kind |-> "call"]) /\ depth' = depth + 1
    BY <1>2 DEF EnterCall, Push
  <2>2. depth < MaxDepth BY <1>2, LimitAssumption DEF Overflows, TypeOK
  <2> QED BY <2>1, <2>2, NewFrames, PushKeeps
<1> QED BY <1>1, <1>2

LEMMA DepthStep ==
  ASSUME TypeOK, Shape, DepthRestored, [Next]_vars
  PROVE  DepthRestored'
<1>1. CASE Start BY <1>1, EnterCallKeeps, SameKeeps DEF Start
<1>2. CASE Statement \/ Throw BY <1>2, SameKeeps DEF Statement, Throw
<1>3. CASE Invoke BY <1>3, EnterCallKeeps DEF Invoke
<1>4. CASE EnterTry
  <2>1. PICK c, f \in BOOLEAN :
          Push([kind |-> "try", catch |-> c, finally |-> f]) /\ depth' = depth
    BY <1>4 DEF EnterTry
  <2> QED BY <2>1, NewFrames, PushKeeps DEF Push, TypeOK
<1>5. CASE EnterBatch
  <2>1. PICK n \in 1..MaxSize, s \in BOOLEAN :
          /\ depth' = depth
          /\ \/ stack' = stack
             \/ stack' = Append(stack,
                  [kind |-> "batch", left |-> n, settled |-> s, failed |-> FALSE])
    BY <1>5 DEF EnterBatch, Push
  <2>2. n \in Nat BY LimitAssumption
  <2>3. [kind |-> "batch", left |-> n, settled |-> s, failed |-> FALSE] \in Frame
    BY <2>2, NewFrames
  <2> QED BY <2>1, <2>3, SameKeeps, PushKeeps DEF TypeOK
<1>6. CASE CallTool \/ Flush \/ Dispatch \/ DispatchFatal
  BY <1>6, SameKeeps DEF CallTool, Flush, Dispatch, DispatchFatal
<1>7. CASE Leave BY <1>7, LeaveShrinks, ShrinkRestores DEF Leave, Running
<1>8. CASE Unwind BY <1>8, UnwindShrinks, ShrinkRestores DEF Unwind, Unwinding
<1>9. CASE CallText BY <1>9, EnterCallKeeps DEF CallText
<1>10. CASE EndMain \/ EndText \/ Cancel \/ UNCHANGED vars
  BY <1>10, SameKeeps DEF EndMain, EndText, Cancel, vars
<1> QED BY <1>1, <1>2, <1>3, <1>4, <1>5, <1>6, <1>7, <1>8, <1>9, <1>10
        DEF Next, Step, Terminated

\* Whatever errors passed through which constructs, the depth is the number of
\* calls in progress, and never above MaxCallDepth.
THEOREM DepthIsRestored == Spec => []DepthRestored
<1>1. Init => DepthRestored
  <2>1. CallsIn(<<>>) = {} BY DEF CallsIn
  <2> QED BY <2>1, LimitAssumption, FS_EmptySet DEF Init, DepthRestored
<1> QED BY <1>1, DepthStep, TypeCorrect, ShapeInvariant, PTL DEF Spec

============================================================================
