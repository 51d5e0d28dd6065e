------------------------ MODULE ParallelBatchProofs ------------------------
(* Theorems about ParallelBatch, for every batch, every number of workers   *)
(* and every budget.                                                        *)
EXTENDS ParallelBatch, TLAPS

\* Facts about the data types the machine is built from.
LEMMA AppendTyped ==
  ASSUME NEW S, NEW s \in Seq(S), NEW e \in S
  PROVE  Append(s, e) \in Seq(S)
  OBVIOUS

LEMMA TailTyped ==
  ASSUME NEW S, NEW s \in Seq(S), s # <<>>
  PROVE  Tail(s) \in Seq(S) /\ Head(s) \in S
  OBVIOUS

LEMMA UpdateTyped ==
  ASSUME NEW S, NEW T, NEW f \in [S -> T], NEW x, NEW v \in T
  PROVE  [f EXCEPT ![x] = v] \in [S -> T]
  OBVIOUS

LEMMA ItemCount == N \in Nat /\ N >= 2
<1>1. \A c : c \in 2..N => N >= 2 BY BatchAssumption
<1> QED BY <1>1, WorkerAssumption, BatchAssumption

---------------------------------------------------------------------------
\* What the ways of leaving a step do to the worker's control state.
LEMMA GotoTyped ==
  ASSUME WorkersOK, NEW w \in Worker, NEW label \in PC, Goto(w, label)
  PROVE  pc' \in [Worker -> PC]
  BY DEF Goto, WorkersOK

LEMMA AdvanceTyped ==
  ASSUME WorkersOK, NEW w \in Worker, Advance(w)
  PROVE  pc' \in [Worker -> PC] /\ ip' \in [Worker -> Nat] /\ out' = out
<1>1. "run" \in PC BY DEF PC, ItemPC
<1>2. pc' \in [Worker -> PC] BY <1>1, GotoTyped DEF Advance
<1>3. ip' \in [Worker -> Nat] BY DEF Advance, WorkersOK
<1> QED BY <1>2, <1>3 DEF Advance

LEMMA EndItemTyped ==
  ASSUME WorkersOK, OutcomeOK, NEW w \in Worker,
         NEW o \in {"value", "throw", "plain"}, EndItem(w, o)
  PROVE  pc' \in [Worker -> PC] /\ ip' = ip /\ out' \in [Item -> Outcome]
<1>1. "lock" \in PC BY DEF PC, ItemPC
<1>2. pc' \in [Worker -> PC] BY <1>1, GotoTyped DEF EndItem
<1>3. Settle(o) \in Outcome BY DEF Settle, Outcome
<1>4. out' \in [Item -> Outcome] BY <1>3 DEF EndItem, OutcomeOK
<1> QED BY <1>2, <1>4 DEF EndItem

LEMMA ThrownTyped ==
  ASSUME WorkersOK, OutcomeOK, NEW w \in Worker, Thrown(w)
  PROVE  /\ pc' \in [Worker -> PC]
         /\ ip' \in [Worker -> Nat]
         /\ out' \in [Item -> Outcome]
<1>1. CASE Advance(w) BY <1>1, AdvanceTyped DEF OutcomeOK
<1>2. CASE EndItem(w, "throw") BY <1>2, EndItemTyped DEF WorkersOK
<1> QED BY <1>1, <1>2 DEF Thrown

---------------------------------------------------------------------------
(* Type correctness, part by part.                                         *)

LEMMA TypeInit == Init => TypeOK
<1> SUFFICES ASSUME Init PROVE TypeOK
  OBVIOUS
<1>1. 0 \in Item BY ItemCount DEF Item
<1>2. WorkersOK BY <1>1 DEF Init, WorkersOK, PC
<1>3. SharedOK BY DEF Init, SharedOK
<1>4. QueueOK BY ItemCount DEF Init, QueueOK
<1>5. OutcomeOK BY DEF Init, OutcomeOK, Outcome, Result
<1>6. HistoryOK BY DEF Init, HistoryOK
<1> QED BY <1>2, <1>3, <1>4, <1>5, <1>6 DEF TypeOK

LEMMA WorkersStep == ASSUME TypeOK, [Next]_vars PROVE WorkersOK'
<1> USE DEF TypeOK, workerVars
<1> USE GotoTyped, AdvanceTyped, EndItemTyped, ThrownTyped
<1>0. ItemPC \cup {"claim", "publish", "exited", "dead"} = PC BY DEF PC
<1>1. ASSUME NEW w \in Worker, Claim(w) PROVE WorkersOK'
  <2>1. "run" \in PC /\ "publish" \in PC BY <1>0 DEF ItemPC
  <2>2. pc' \in [Worker -> PC] BY <1>1, <2>1 DEF Claim
  <2>3. next' \in Nat BY <1>1 DEF Claim, WorkersOK
  <2>4. ~NoMoreItems => next \in Item
    BY ItemCount DEF NoMoreItems, Item, WorkersOK
  <2>5. item' \in [Worker -> Item] BY <1>1, <2>4 DEF Claim, WorkersOK
  <2>6. ip' \in [Worker -> Nat] BY <1>1 DEF Claim, WorkersOK
  <2>7. logs' \in [Worker -> Seq(Item \X Nat)]
    <3>1. <<>> \in Seq(Item \X Nat) OBVIOUS
    <3>2. logs' = logs \/ logs' = [logs EXCEPT ![w] = <<>>] BY <1>1 DEF Claim
    <3>3. logs \in [Worker -> Seq(Item \X Nat)] BY DEF WorkersOK
    <3> QED BY <3>1, <3>2, <3>3, UpdateTyped
  <2> QED BY <1>1, <2>2, <2>3, <2>5, <2>6, <2>7 DEF Claim, WorkersOK
<1>2. ASSUME NEW w \in Worker, Publish(w) PROVE WorkersOK'
  BY <1>0, <1>2 DEF Publish, WorkersOK
<1>3. ASSUME NEW w \in Worker, Tick(w) PROVE WorkersOK'
  <2>1. "flush" \in PC BY <1>0 DEF ItemPC
  <2>2. pending' \in [Worker -> Nat] BY <1>3 DEF Tick, WorkersOK
  <2>3. pc' \in [Worker -> PC] /\ ip' \in [Worker -> Nat]
    BY <1>3, <2>1 DEF Tick, WorkersOK
  <2> QED BY <1>3, <2>2, <2>3 DEF Tick, WorkersOK
<1>4. ASSUME NEW w \in Worker, Log(w) PROVE WorkersOK'
  <2>1. <<item[w], ip[w]>> \in Item \X Nat BY DEF WorkersOK
  <2>2. Append(logs[w], <<item[w], ip[w]>>) \in Seq(Item \X Nat)
    BY <2>1, AppendTyped DEF WorkersOK
  <2>3. logs' \in [Worker -> Seq(Item \X Nat)]
    BY <1>4, <2>2, UpdateTyped DEF Log, WorkersOK
  <2> QED BY <1>4, <2>3 DEF Log, WorkersOK
<1>5. ASSUME NEW w \in Worker, Complete(w) PROVE WorkersOK'
  BY <1>5 DEF Complete, WorkersOK
<1>6. ASSUME NEW w \in Worker, Panic(w) PROVE WorkersOK'
  BY <1>0, <1>6 DEF Panic, WorkersOK, ItemPC
<1>7. ASSUME NEW w \in Worker, Call(w) PROVE WorkersOK'
  BY <1>0, <1>7 DEF Call, WorkersOK, ItemPC
<1>8. ASSUME NEW w \in Worker, Wait(w) PROVE WorkersOK'
  BY <1>0, <1>8 DEF Wait, WorkersOK, ItemPC
<1>9. ASSUME NEW w \in Worker, Flush(w) PROVE WorkersOK'
  <2>1. "check" \in PC BY <1>0 DEF ItemPC
  <2> QED BY <1>9, <2>1 DEF Flush, WorkersOK
<1>10. ASSUME NEW w \in Worker, Check(w) PROVE WorkersOK'
  <2>1. "load" \in PC BY <1>0 DEF ItemPC
  <2> QED BY <1>10, <2>1 DEF Check, WorkersOK
<1>11. ASSUME NEW w \in Worker, Load(w) PROVE WorkersOK'
  <2>1. "cas" \in PC BY <1>0 DEF ItemPC
  <2>2. seen' \in [Worker -> Nat]
    BY <1>11 DEF Load, Counter, WorkersOK, SharedOK
  <2> QED BY <1>11, <2>1, <2>2 DEF Load, WorkersOK
<1>12. ASSUME NEW w \in Worker, CompareAndSwap(w) PROVE WorkersOK'
  BY <1>0, <1>12 DEF CompareAndSwap, BeginDispatch, WorkersOK, ItemPC
<1>13. ASSUME NEW w \in Worker, Return(w) PROVE WorkersOK'
  BY <1>13 DEF Return, WorkersOK
<1>14. ASSUME NEW w \in Worker, ReturnUncatchable(w) \/ ReturnFatal(w)
       PROVE WorkersOK'
  BY <1>14 DEF ReturnUncatchable, ReturnFatal, WorkersOK
<1>15. ASSUME NEW w \in Worker, Finish(w) PROVE WorkersOK'
  BY <1>0, <1>15 DEF Finish, WorkersOK, ItemPC
<1>16. ASSUME NEW w \in Worker, ConsolePanic(w) PROVE WorkersOK'
  BY <1>0, <1>16 DEF ConsolePanic, WorkersOK
<1>17. ASSUME NEW w \in Worker, Unlock(w) PROVE WorkersOK'
  BY <1>0, <1>17 DEF Unlock, WorkersOK, ItemPC
<1>18. ASSUME UNCHANGED workerVars PROVE WorkersOK'
  BY <1>18 DEF WorkersOK
<1>19. ASSUME NEW w \in Worker, Emit(w) \/ AdvanceTurn(w)
       PROVE UNCHANGED workerVars
  BY <1>19 DEF Emit, AdvanceTurn
<1>20. Join \/ Cancel \/ UNCHANGED vars => UNCHANGED workerVars
  BY DEF Join, Cancel, vars
<1> QED
  BY <1>1, <1>2, <1>3, <1>4, <1>5, <1>6, <1>7, <1>8, <1>9, <1>10, <1>11,
     <1>12, <1>13, <1>14, <1>15, <1>16, <1>17, <1>18, <1>19, <1>20
  DEF Next, WorkerStep, CallStep, FinishStep, Terminated

LEMMA SharedStep == ASSUME TypeOK, [Next]_vars PROVE SharedOK'
<1> USE DEF TypeOK, counters, flags
<1>1. ASSUME NEW w \in Worker, Publish(w) \/ Flush(w) PROVE SharedOK'
  <2>1. steps + pending[w] \in Nat BY DEF SharedOK, WorkersOK
  <2> QED BY <1>1, <2>1 DEF Publish, Flush, SharedOK
<1>2. ASSUME NEW w \in Worker, CompareAndSwap(w) PROVE SharedOK'
  <2>1. seen[w] + 1 \in Nat BY DEF WorkersOK
  <2> QED BY <1>2, <2>1 DEF CompareAndSwap, BeginDispatch, SharedOK
<1>3. ASSUME NEW w \in Worker, ReturnFatal(w) PROVE SharedOK'
  <2>1. item[w] \in Item BY DEF WorkersOK
  <2> QED BY <1>3, <2>1 DEF ReturnFatal, SharedOK
<1>4. ASSUME NEW w \in Worker, ConsolePanic(w) \/ Unlock(w) PROVE SharedOK'
  BY <1>4 DEF ConsolePanic, Unlock, SharedOK
<1>5. CASE Cancel
  BY <1>5 DEF Cancel, SharedOK
<1>6. ASSUME UNCHANGED <<counters, flags>> PROVE SharedOK'
  BY <1>6 DEF SharedOK
<1>7. ASSUME NEW w \in Worker,
             \/ Claim(w) \/ Tick(w) \/ Log(w) \/ Complete(w) \/ Panic(w)
             \/ Call(w) \/ Wait(w) \/ Check(w) \/ Load(w) \/ Return(w)
             \/ ReturnUncatchable(w) \/ Finish(w) \/ Emit(w) \/ AdvanceTurn(w)
      PROVE UNCHANGED <<counters, flags>>
  BY <1>7 DEF Claim, Tick, Log, Complete, Panic, Call, Wait, Check, Load,
              Return, ReturnUncatchable, Finish, Emit, AdvanceTurn
<1>8. Join \/ UNCHANGED vars => UNCHANGED <<counters, flags>>
  BY DEF Join, vars
<1> QED
  BY <1>1, <1>2, <1>3, <1>4, <1>5, <1>6, <1>7, <1>8
  DEF Next, WorkerStep, CallStep, FinishStep, Terminated

LEMMA QueueStep == ASSUME TypeOK, [Next]_vars PROVE QueueOK'
<1> USE DEF TypeOK, queue
<1>1. ASSUME NEW w \in Worker, Finish(w) PROVE QueueOK'
  BY <1>1 DEF Finish, QueueOK, WorkersOK
<1>2. ASSUME NEW w \in Worker, Emit(w) PROVE QueueOK'
  <2>1. turn \in Item BY <1>2, ItemCount DEF Emit, Releasing, QueueOK, Item
  <2>2. Tail(qlogs[turn]) \in Seq(Item \X Nat)
    BY <1>2, <2>1, TailTyped DEF Emit, QueueOK
  <2>3. qlogs' \in [Item -> Seq(Item \X Nat)]
    BY <1>2, <2>2, UpdateTyped DEF Emit, QueueOK
  <2> QED BY <1>2, <2>3 DEF Emit, QueueOK
<1>3. ASSUME NEW w \in Worker, AdvanceTurn(w) PROVE QueueOK'
  <2>1. turn + 1 \in 0..N
    BY <1>3, ItemCount DEF AdvanceTurn, Releasing, QueueOK
  <2> QED BY <1>3, <2>1 DEF AdvanceTurn, QueueOK
<1>4. ASSUME NEW w \in Worker, Unlock(w) PROVE QueueOK'
  BY <1>4 DEF Unlock, QueueOK
<1>5. ASSUME UNCHANGED queue PROVE QueueOK'
  BY <1>5 DEF QueueOK
<1>6. ASSUME NEW w \in Worker,
             \/ Claim(w) \/ Publish(w) \/ Tick(w) \/ Log(w) \/ Complete(w)
             \/ Panic(w) \/ CallStep(w) \/ ConsolePanic(w)
      PROVE UNCHANGED queue
  BY <1>6 DEF Claim, Publish, Tick, Log, Complete, Panic, CallStep, Call, Wait,
              Flush, Check, Load, CompareAndSwap, Return, ReturnUncatchable,
              ReturnFatal, ConsolePanic
<1>7. Join \/ Cancel \/ UNCHANGED vars => UNCHANGED queue
  BY DEF Join, Cancel, vars
<1> QED
  BY <1>1, <1>2, <1>3, <1>4, <1>5, <1>6, <1>7
  DEF Next, WorkerStep, FinishStep, Terminated

LEMMA OutcomeStep == ASSUME TypeOK, [Next]_vars PROVE OutcomeOK'
<1> USE DEF TypeOK
<1>1. ASSUME batch' = batch, result' = result, out' \in [Item -> Outcome]
      PROVE OutcomeOK'
  BY <1>1 DEF OutcomeOK
<1>2. ASSUME NEW w \in Worker,
             Complete(w) \/ Flush(w) \/ Check(w) \/ ReturnUncatchable(w)
               \/ ReturnFatal(w)
      PROVE OutcomeOK'
  BY <1>1, <1>2, EndItemTyped, AdvanceTyped
  DEF Complete, Flush, Check, ReturnUncatchable, ReturnFatal, OutcomeOK
<1>3. ASSUME NEW w \in Worker, Load(w) \/ Return(w) \/ Tick(w) \/ Log(w)
      PROVE OutcomeOK'
  BY <1>1, <1>3, ThrownTyped, AdvanceTyped DEF Load, Return, Tick, Log, OutcomeOK
<1>4. CASE Join
  BY <1>4 DEF Join, Failed, OutcomeOK, Result
<1>5. ASSUME UNCHANGED <<batch, out, result>> PROVE OutcomeOK'
  BY <1>5 DEF OutcomeOK
<1>6. ASSUME NEW w \in Worker,
             \/ Claim(w) \/ Publish(w) \/ Panic(w) \/ Call(w) \/ Wait(w)
             \/ CompareAndSwap(w) \/ FinishStep(w)
      PROVE UNCHANGED <<batch, out, result>>
  BY <1>6 DEF Claim, Publish, Panic, Call, Wait, CompareAndSwap, FinishStep,
              Finish, Emit, ConsolePanic, AdvanceTurn, Unlock
<1>7. Cancel \/ UNCHANGED vars => UNCHANGED <<batch, out, result>>
  BY DEF Cancel, vars
<1> QED
  BY <1>2, <1>3, <1>4, <1>5, <1>6, <1>7
  DEF Next, WorkerStep, CallStep, Terminated

LEMMA HistoryStep == ASSUME TypeOK, [Next]_vars PROVE HistoryOK'
<1> USE DEF TypeOK, history
<1>1. ASSUME NEW w \in Worker, Tick(w) PROVE HistoryOK'
  BY <1>1 DEF Tick, HistoryOK
<1>2. ASSUME NEW w \in Worker, Log(w) PROVE HistoryOK'
  <2>1. <<item[w], ip[w]>> \in Item \X Nat BY DEF WorkersOK
  <2> QED BY <1>2, <2>1 DEF Log, HistoryOK
<1>3. ASSUME NEW w \in Worker, CompareAndSwap(w) PROVE HistoryOK'
  <2>1. <<"effect", item[w], ip[w]>> \in {"effect", "line"} \X Item \X Nat
    BY DEF WorkersOK
  <2>2. trace' \in Seq({"effect", "line"} \X Item \X Nat)
    BY <1>3, <2>1, AppendTyped DEF CompareAndSwap, BeginDispatch, HistoryOK
  <2>3. sent' \in Nat /\ late' \in Nat
    BY <1>3 DEF CompareAndSwap, BeginDispatch, HistoryOK
  <2> QED BY <1>3, <2>2, <2>3 DEF CompareAndSwap, HistoryOK
<1>4. ASSUME NEW w \in Worker, Emit(w) PROVE HistoryOK'
  <2>1. turn \in Item BY <1>4, ItemCount DEF Emit, Releasing, QueueOK, Item
  <2>2. Head(qlogs[turn]) \in Item \X Nat
    BY <1>4, <2>1, TailTyped DEF Emit, QueueOK
  <2>3. <<"line", Head(qlogs[turn])[1], Head(qlogs[turn])[2]>>
          \in {"effect", "line"} \X Item \X Nat
    BY <2>2
  <2> QED BY <1>4, <2>3, AppendTyped DEF Emit, HistoryOK
<1>5. ASSUME UNCHANGED history PROVE HistoryOK'
  BY <1>5 DEF HistoryOK
<1>6. ASSUME NEW w \in Worker,
             \/ Claim(w) \/ Publish(w) \/ Complete(w) \/ Panic(w) \/ Call(w)
             \/ Wait(w) \/ Flush(w) \/ Check(w) \/ Load(w) \/ Return(w)
             \/ ReturnUncatchable(w) \/ ReturnFatal(w) \/ Finish(w)
             \/ ConsolePanic(w) \/ AdvanceTurn(w) \/ Unlock(w)
      PROVE UNCHANGED history
  BY <1>6 DEF Claim, Publish, Complete, Panic, Call, Wait, Flush, Check, Load,
              Return, ReturnUncatchable, ReturnFatal, Finish, ConsolePanic,
              AdvanceTurn, Unlock
<1>7. Join \/ Cancel \/ UNCHANGED vars => UNCHANGED history
  BY DEF Join, Cancel, vars
<1> QED
  BY <1>1, <1>2, <1>3, <1>4, <1>5, <1>6, <1>7
  DEF Next, WorkerStep, CallStep, FinishStep, Terminated

\* Every variable keeps its type: the sequencer's turn stays within the batch,
\* a worker's item is one of the batch, an outcome is one the caller knows.
THEOREM TypeCorrect == Spec => []TypeOK
<1>1. TypeOK /\ [Next]_vars => TypeOK'
  BY WorkersStep, SharedStep, QueueStep, OutcomeStep, HistoryStep DEF TypeOK
<1> QED BY <1>1, TypeInit, PTL DEF Spec

---------------------------------------------------------------------------
(* The ordering argument.  Items are claimed one by one, so two workers    *)
(* never run the same item and an item being run is not done; the turn     *)
(* only passes finished items whose lines are out; a worker that waited is *)
(* not ahead of the turn.                                                  *)

Active(w) == pc[w] \in ItemPC
EffectPC == {"flush", "check", "load", "cas", "dispatch"}

ClaimInv ==
  /\ \A w \in Worker : Active(w) => item[w] < next
  /\ \A v, w \in Worker :
       v # w /\ Active(v) /\ Active(w) => item[v] # item[w]
  /\ \A i \in Item : done[i] => i < next
  /\ \A w \in Worker : Active(w) /\ pc[w] # "release" => ~done[item[w]]

QueueInv ==
  /\ \A i \in Item : i < turn => done[i] /\ qlogs[i] = <<>>
  /\ \A i \in Item : qlogs[i] \in Seq({i} \X Nat)
  /\ \A w \in Worker : Active(w) => logs[w] \in Seq({item[w]} \X Nat)

TurnInv ==
  \A w \in Worker :
    pc[w] \in EffectPC /\ CurrentOp(w) \in OrderedOp => item[w] <= turn

OrderInv == ClaimInv /\ QueueInv /\ TurnInv

LEMMA OrderInit == Init => OrderInv
<1> SUFFICES ASSUME Init PROVE OrderInv
  OBVIOUS
<1>1. ClaimInv BY DEF Init, ClaimInv, Active, ItemPC
<1>2. QueueInv BY DEF Init, QueueInv, Active, ItemPC, Item
<1>3. TurnInv BY DEF Init, TurnInv, EffectPC
<1> QED BY <1>1, <1>2, <1>3 DEF OrderInv

\* Within an item a worker moves from one of its steps to another: nothing of
\* the claims changes, and the item stays undone up to finish.
LEMMA InsideItem ==
  ASSUME TypeOK, NEW w \in Worker,
         \/ Tick(w) \/ Log(w) \/ Complete(w) \/ Panic(w) \/ CallStep(w)
  PROVE  /\ pc[w] \in ItemPC \ {"release"}
         /\ pc' \in [Worker -> PC]
         /\ pc'[w] \in ItemPC \ {"release"}
         /\ \A v \in Worker \ {w} : pc'[v] = pc[v]
         /\ UNCHANGED <<batch, next, item, queue>>
<1> USE DEF ItemPC, At, Goto, EndItem, Advance, Thrown
<1>1. pc \in [Worker -> PC] BY DEF TypeOK, WorkersOK
<1>2. pc[w] \in ItemPC \ {"release"}
  BY DEF Tick, Log, Complete, Panic, CallStep, Call, Wait, Flush, Check, Load,
         CompareAndSwap, Return, ReturnUncatchable, ReturnFatal
<1>3. UNCHANGED <<batch, next, item, queue>>
  BY DEF Tick, Log, Complete, Panic, CallStep, Call, Wait, Flush, Check, Load,
         CompareAndSwap, Return, ReturnUncatchable, ReturnFatal
<1>4. \E label \in ItemPC \ {"release"} : pc' = [pc EXCEPT ![w] = label]
  <2>1. CASE Tick(w) \/ Log(w) \/ Complete(w) \/ Panic(w)
    BY <2>1 DEF Tick, Log, Complete, Panic
  <2>2. CASE Call(w) \/ Wait(w) \/ Flush(w) \/ Check(w)
    BY <2>2 DEF Call, Wait, Flush, Check
  <2>3. CASE Load(w) \/ CompareAndSwap(w)
    BY <2>3 DEF Load, CompareAndSwap, BeginDispatch
  <2>4. CASE Return(w) \/ ReturnUncatchable(w) \/ ReturnFatal(w)
    BY <2>4 DEF Return, ReturnUncatchable, ReturnFatal
  <2> QED BY <2>1, <2>2, <2>3, <2>4 DEF CallStep
<1> QED BY <1>1, <1>2, <1>3, <1>4 DEF PC

LEMMA ClaimStep == ASSUME TypeOK, OrderInv, [Next]_vars PROVE ClaimInv'
<1> USE DEF OrderInv
<1>0. /\ pc \in [Worker -> PC] /\ item \in [Worker -> Item]
      /\ next \in Nat /\ done \in [Item -> BOOLEAN] /\ Item \subseteq Int
  BY DEF TypeOK, WorkersOK, QueueOK, Item
<1>1. ASSUME NEW w \in Worker, Claim(w) PROVE ClaimInv'
  <2>1. CASE NoMoreItems
    <3>1. /\ pc' = [pc EXCEPT ![w] = "publish"] /\ next' = next + 1
          /\ UNCHANGED <<item, done>>
      BY <1>1, <2>1 DEF Claim, Goto, queue
    <3>2. \A v \in Worker : Active(v)' => Active(v) /\ pc'[v] = pc[v]
      BY <1>0, <3>1 DEF Active, ItemPC
    <3>3. \A i \in Item : i < next => i < next' BY <1>0, <3>1
    <3>4. \A v \in Worker : Active(v)' => item'[v] < next'
      BY <1>0, <3>1, <3>2, <3>3 DEF ClaimInv
    <3> QED BY <1>0, <3>1, <3>2, <3>3, <3>4 DEF ClaimInv
  <2>2. CASE ~NoMoreItems
    <3>1. /\ pc' = [pc EXCEPT ![w] = "run"] /\ next' = next + 1
          /\ item' = [item EXCEPT ![w] = next] /\ UNCHANGED done
      BY <1>1, <2>2 DEF Claim, Goto, queue
    <3>2. next \in Item BY <2>2, <1>0, ItemCount DEF NoMoreItems, Item
    <3>3. item'[w] = next /\ \A v \in Worker \ {w} : item'[v] = item[v]
      BY <1>0, <3>1
    <3>4. pc'[w] = "run" /\ \A v \in Worker \ {w} : pc'[v] = pc[v]
      BY <1>0, <3>1
    <3>5. ~done[next] BY <3>2, <1>0 DEF ClaimInv
    <3>6. \A v \in Worker \ {w} : Active(v)' <=> Active(v) BY <3>4 DEF Active
    <3>7. \A i \in Item : i < next => i < next' /\ i # next BY <1>0, <3>1
    <3>8. \A v \in Worker : Active(v)' => item'[v] < next'
      <4>1. item'[w] < next' BY <1>0, <3>1, <3>3
      <4>2. \A v \in Worker \ {w} : Active(v)' => item[v] \in Item /\ item[v] < next
        BY <1>0, <3>6 DEF ClaimInv
      <4> QED BY <3>3, <3>7, <4>1, <4>2
    <3>9. \A v \in Worker \ {w} : Active(v)' => item'[v] # item'[w]
      BY <1>0, <3>3, <3>6, <3>7 DEF ClaimInv
    <3>10. \A u, v \in Worker : u # v /\ Active(u)' /\ Active(v)' => item'[u] # item'[v]
      BY <3>3, <3>6, <3>9 DEF ClaimInv
    <3>11. \A v \in Worker : Active(v)' /\ pc'[v] # "release" => ~done'[item'[v]]
      BY <3>1, <3>3, <3>4, <3>5, <3>6 DEF ClaimInv
    <3>12. \A i \in Item : done'[i] => i < next'
      BY <3>1, <3>7 DEF ClaimInv
    <3> QED BY <3>8, <3>10, <3>11, <3>12 DEF ClaimInv
  <2> QED BY <2>1, <2>2
<1>2. ASSUME NEW w \in Worker,
             \/ Tick(w) \/ Log(w) \/ Complete(w) \/ Panic(w) \/ CallStep(w)
      PROVE ClaimInv'
  BY <1>0, <1>2, InsideItem DEF ClaimInv, Active, queue
<1>3. ASSUME NEW w \in Worker, Finish(w) PROVE ClaimInv'
  <2>1. /\ pc[w] = "lock" /\ pc' = [pc EXCEPT ![w] = "release"]
        /\ done' = [done EXCEPT ![item[w]] = TRUE]
        /\ UNCHANGED <<next, item>>
    BY <1>3 DEF Finish, Goto
  <2> QED BY <1>0, <2>1 DEF ClaimInv, Active, ItemPC
<1>4. ASSUME NEW w \in Worker,
             Publish(w) \/ ConsolePanic(w) \/ Unlock(w)
      PROVE ClaimInv'
  <2>1. /\ \A v \in Worker : Active(v)' => Active(v) /\ (pc'[v] = "release" <=> pc[v] = "release")
        /\ UNCHANGED <<next, item, done>>
    BY <1>0, <1>4 DEF Publish, ConsolePanic, Unlock, Goto, Active, ItemPC, queue
  <2> QED BY <1>0, <2>1 DEF ClaimInv
<1>5. ASSUME UNCHANGED <<pc, next, item, done>> PROVE ClaimInv'
  BY <1>5 DEF ClaimInv, Active
<1>6. ASSUME NEW w \in Worker, Emit(w) \/ AdvanceTurn(w)
      PROVE UNCHANGED <<pc, next, item, done>>
  BY <1>6 DEF Emit, AdvanceTurn, workerVars
<1>7. Join \/ Cancel \/ UNCHANGED vars => UNCHANGED <<pc, next, item, done>>
  BY DEF Join, Cancel, vars, workerVars, queue
<1> QED
  BY <1>1, <1>2, <1>3, <1>4, <1>5, <1>6, <1>7
  DEF Next, WorkerStep, FinishStep, Terminated

\* The queue holds, for each item, lines of that item only, and none any more
\* once the turn has passed.
LEMMA QueueInvStep == ASSUME TypeOK, OrderInv, [Next]_vars PROVE QueueInv'
<1> USE DEF OrderInv
<1>0. /\ pc \in [Worker -> PC] /\ item \in [Worker -> Item]
      /\ logs \in [Worker -> Seq(Item \X Nat)] /\ ip \in [Worker -> Nat]
      /\ done \in [Item -> BOOLEAN] /\ qlogs \in [Item -> Seq(Item \X Nat)]
      /\ turn \in 0..N /\ Item \subseteq Int
  BY DEF TypeOK, WorkersOK, QueueOK, Item
<1>1. ASSUME NEW w \in Worker, Claim(w) PROVE QueueInv'
  <2>1. UNCHANGED <<done, qlogs, turn>> BY <1>1 DEF Claim, queue
  <2>2. ASSUME NEW v \in Worker, Active(v)'
        PROVE  logs'[v] \in Seq({item'[v]} \X Nat)
    <3>1. CASE v = w
      <4>1. ~NoMoreItems
        BY <1>0, <1>1, <2>2, <3>1 DEF Claim, Goto, Active, ItemPC
      <4>2. logs'[v] = <<>> BY <1>0, <1>1, <3>1, <4>1 DEF Claim
      <4> QED BY <4>2
    <3>2. CASE v # w
      <4>1. Active(v) /\ logs'[v] = logs[v] /\ item'[v] = item[v]
        BY <1>0, <1>1, <2>2, <3>2 DEF Claim, Goto, Active
      <4> QED BY <4>1 DEF QueueInv
    <3> QED BY <3>1, <3>2
  <2> QED BY <2>1, <2>2 DEF QueueInv
<1>2. ASSUME NEW w \in Worker, Log(w) PROVE QueueInv'
  <2>1. UNCHANGED <<done, qlogs, turn, item>> BY <1>2 DEF Log, queue
  <2>2. Active(w) /\ \A v \in Worker \ {w} : pc'[v] = pc[v]
    BY <1>2, InsideItem DEF Active
  <2>3. logs' = [logs EXCEPT ![w] = Append(logs[w], <<item[w], ip[w]>>)]
    BY <1>2 DEF Log
  <2>4. Append(logs[w], <<item[w], ip[w]>>) \in Seq({item[w]} \X Nat)
    <3>1. logs[w] \in Seq({item[w]} \X Nat) BY <2>2 DEF QueueInv
    <3>2. <<item[w], ip[w]>> \in {item[w]} \X Nat BY <1>0
    <3> QED BY <3>1, <3>2, AppendTyped
  <2>5. \A v \in Worker : Active(v)' => logs'[v] \in Seq({item'[v]} \X Nat)
    BY <1>0, <2>1, <2>2, <2>3, <2>4 DEF QueueInv, Active
  <2> QED BY <2>1, <2>5 DEF QueueInv
<1>3. ASSUME NEW w \in Worker, Tick(w) \/ Complete(w) \/ Panic(w) \/ CallStep(w)
      PROVE QueueInv'
  <2>1. logs' = logs
    BY <1>3 DEF Tick, Complete, Panic, CallStep, Call, Wait, Flush, Check, Load,
                CompareAndSwap, Return, ReturnUncatchable, ReturnFatal
  <2> QED BY <1>3, <2>1, InsideItem DEF QueueInv, Active, queue
<1>4. ASSUME NEW w \in Worker, Finish(w) PROVE QueueInv'
  <2>1. /\ pc[w] = "lock" /\ pc' = [pc EXCEPT ![w] = "release"]
        /\ done' = [done EXCEPT ![item[w]] = TRUE]
        /\ qlogs' = [qlogs EXCEPT ![item[w]] = logs[w]]
        /\ UNCHANGED <<turn, item, logs>>
    BY <1>4 DEF Finish, Goto
  <2>2. Active(w) /\ ~done[item[w]] BY <2>1 DEF Active, ItemPC, ClaimInv
  <2>3. \A i \in Item : i < turn => i # item[w] BY <1>0, <2>2 DEF QueueInv
  <2>4. \A i \in Item : i < turn' => done'[i] /\ qlogs'[i] = <<>>
    BY <1>0, <2>1, <2>3 DEF QueueInv
  <2>5. \A i \in Item : qlogs'[i] \in Seq({i} \X Nat)
    BY <1>0, <2>1, <2>2 DEF QueueInv
  <2>6. \A v \in Worker : Active(v)' => Active(v)
    BY <1>0, <2>1 DEF Active, ItemPC
  <2> QED BY <2>1, <2>4, <2>5, <2>6 DEF QueueInv
<1>5. ASSUME NEW w \in Worker, Emit(w) PROVE QueueInv'
  <2>1. /\ qlogs' = [qlogs EXCEPT ![turn] = Tail(qlogs[turn])]
        /\ qlogs[turn] # <<>> /\ turn < N
        /\ UNCHANGED <<pc, done, turn, item, logs>>
    BY <1>5 DEF Emit, Releasing, workerVars
  <2>2. turn \in Item BY <1>0, <2>1, ItemCount DEF Item
  <2>3. Tail(qlogs[turn]) \in Seq({turn} \X Nat)
    BY <2>1, <2>2, TailTyped DEF QueueInv
  <2>4. \A i \in Item : qlogs'[i] \in Seq({i} \X Nat)
    BY <1>0, <2>1, <2>3 DEF QueueInv
  <2>5. \A i \in Item : i < turn => qlogs'[i] = qlogs[i] BY <1>0, <2>1
  <2> QED BY <2>1, <2>4, <2>5 DEF QueueInv, Active
<1>6. ASSUME NEW w \in Worker, AdvanceTurn(w) PROVE QueueInv'
  <2>1. /\ turn' = turn + 1 /\ done[turn] /\ qlogs[turn] = <<>>
        /\ UNCHANGED <<pc, done, qlogs, item, logs>>
    BY <1>6 DEF AdvanceTurn, Releasing, workerVars
  <2>2. \A i \in Item : i < turn' => i < turn \/ i = turn BY <1>0, <2>1
  <2> QED BY <2>1, <2>2 DEF QueueInv, Active
<1>7. ASSUME NEW w \in Worker, Publish(w) \/ ConsolePanic(w) \/ Unlock(w)
      PROVE QueueInv'
  <2>1. /\ \A v \in Worker : Active(v)' => Active(v)
        /\ UNCHANGED <<item, logs, done, qlogs, turn>>
    BY <1>0, <1>7 DEF Publish, ConsolePanic, Unlock, Goto, Active, ItemPC, queue
  <2> QED BY <2>1 DEF QueueInv
<1>8. ASSUME UNCHANGED <<pc, item, logs, done, qlogs, turn>> PROVE QueueInv'
  BY <1>8 DEF QueueInv, Active
<1>9. Join \/ Cancel \/ UNCHANGED vars
        => UNCHANGED <<pc, item, logs, done, qlogs, turn>>
  BY DEF Join, Cancel, vars, workerVars, queue
<1> QED
  BY <1>1, <1>2, <1>3, <1>4, <1>5, <1>6, <1>7, <1>8, <1>9
  DEF Next, WorkerStep, FinishStep, Terminated

\* A worker enters the steps of an ordered effect through wait, which lets it
\* by only when its turn has come; the turn never goes back.
LEMMA TurnInvStep == ASSUME TypeOK, OrderInv, [Next]_vars PROVE TurnInv'
<1> USE DEF OrderInv
<1>0. /\ pc \in [Worker -> PC] /\ item \in [Worker -> Item]
      /\ ip \in [Worker -> Nat] /\ turn \in Int /\ Item \subseteq Int
  BY DEF TypeOK, WorkersOK, QueueOK, Item
\* Enough: whoever is on such a step now was there before with the same
\* operation, or is not ahead of the turn.
<1>1. ASSUME batch' = batch, item' = item, turn' >= turn, turn' \in Int,
             \A v \in Worker :
               pc'[v] \in EffectPC =>
                 \/ pc[v] \in EffectPC /\ ip'[v] = ip[v]
                 \/ CurrentOp(v)' \in OrderedOp => item[v] <= turn
      PROVE TurnInv'
  <2> SUFFICES ASSUME NEW v \in Worker, pc'[v] \in EffectPC,
                      CurrentOp(v)' \in OrderedOp
               PROVE  item'[v] <= turn'
    BY DEF TurnInv
  <2>1. item[v] \in Int BY <1>0
  <2>2. ip'[v] = ip[v] => CurrentOp(v)' = CurrentOp(v)
    BY <1>1 DEF CurrentOp, Script
  <2>3. item[v] <= turn BY <1>1, <2>2 DEF TurnInv
  <2> QED BY <1>0, <1>1, <2>1, <2>3
<1>2. ASSUME NEW w \in Worker, Tick(w) PROVE TurnInv'
  <2>1. CASE UNCHANGED ip
    <3>1. CurrentOp(w)' = "tick"
      BY <1>2, <2>1, InsideItem DEF Tick, At, CurrentOp, Script
    <3>2. CurrentOp(w)' \notin OrderedOp BY <3>1 DEF OrderedOp
    <3> QED BY <1>0, <1>1, <1>2, <2>1, <3>2, InsideItem DEF queue
  <2>2. CASE Advance(w)
    <3>1. pc'[w] = "run" /\ \A v \in Worker \ {w} : ip'[v] = ip[v]
      BY <1>0, <2>2 DEF Advance, Goto
    <3>2. pc'[w] \notin EffectPC BY <3>1 DEF EffectPC
    <3> QED BY <1>0, <1>1, <1>2, <3>1, <3>2, InsideItem DEF queue
  <2> QED BY <1>2, <2>1, <2>2 DEF Tick
<1>3. ASSUME NEW w \in Worker, Call(w) PROVE TurnInv'
  <2>1. UNCHANGED ip BY <1>3 DEF Call
  <2>2. pc'[w] \in EffectPC => CurrentOp(w)' \notin OrderedOp
    BY <1>0, <1>3 DEF Call, Goto, TakesTurn, EffectPC, CurrentOp, Script
  <2> QED BY <1>0, <1>1, <1>3, <2>1, <2>2, InsideItem DEF queue, CallStep
<1>4. ASSUME NEW w \in Worker, Wait(w) PROVE TurnInv'
  <2>1. UNCHANGED ip BY <1>4 DEF Wait
  <2>2. pc'[w] \in EffectPC => item[w] <= turn
    <3>1. item[w] \in Int BY <1>0
    <3>2. pc'[w] = IF MustWait(w) THEN "asleep" ELSE "flush"
      BY <1>0, <1>4 DEF Wait, Goto
    <3> QED BY <1>0, <3>1, <3>2 DEF MustWait, EffectPC
  <2> QED BY <1>0, <1>1, <1>4, <2>1, <2>2, InsideItem DEF queue, CallStep
<1>5. ASSUME NEW w \in Worker,
             Flush(w) \/ Check(w) \/ Load(w) \/ CompareAndSwap(w) \/ Return(w)
               \/ ReturnUncatchable(w) \/ ReturnFatal(w)
      PROVE TurnInv'
  <2>1. pc[w] \in EffectPC
    BY <1>5 DEF Flush, Check, Load, CompareAndSwap, Return, ReturnUncatchable,
                ReturnFatal, EffectPC
  <2>2. UNCHANGED ip \/ Advance(w)
    BY <1>5 DEF Flush, Check, Load, CompareAndSwap, Return, ReturnUncatchable,
                ReturnFatal, Thrown, EndItem
  <2>3. Advance(w) => pc'[w] \notin EffectPC
    BY <1>0 DEF Advance, Goto, EffectPC
  <2>4. \A v \in Worker \ {w} : ip'[v] = ip[v] BY <1>0, <2>2 DEF Advance
  <2> QED BY <1>0, <1>1, <1>5, <2>1, <2>2, <2>3, <2>4, InsideItem DEF queue, CallStep
<1>6. ASSUME NEW w \in Worker, Log(w) \/ Complete(w) \/ Panic(w) PROVE TurnInv'
  <2>1. pc'[w] \notin EffectPC
    BY <1>0, <1>6 DEF Log, Complete, Panic, Advance, EndItem, Goto, EffectPC
  <2>2. \A v \in Worker \ {w} : ip'[v] = ip[v]
    BY <1>0, <1>6 DEF Log, Complete, Panic, Advance, EndItem
  <2> QED BY <1>0, <1>1, <1>6, <2>1, <2>2, InsideItem DEF queue
<1>7. ASSUME NEW w \in Worker, Claim(w) PROVE TurnInv'
  <2>1. pc'[w] \notin EffectPC
    BY <1>0, <1>7 DEF Claim, Goto, EffectPC
  <2>2. \A v \in Worker \ {w} : /\ pc'[v] = pc[v] /\ ip'[v] = ip[v]
                                /\ item'[v] = item[v]
    BY <1>0, <1>7 DEF Claim, Goto
  <2>3. UNCHANGED <<batch, turn>> BY <1>7 DEF Claim, queue
  <2>4. \A v \in Worker \ {w} : CurrentOp(v)' = CurrentOp(v)
    BY <2>2, <2>3 DEF CurrentOp, Script
  <2> QED BY <2>1, <2>2, <2>3, <2>4 DEF TurnInv
<1>8. ASSUME NEW w \in Worker, Publish(w) \/ FinishStep(w) PROVE TurnInv'
  <2>1. \A v \in Worker : pc'[v] \in EffectPC => pc[v] \in EffectPC
    BY <1>0, <1>8 DEF Publish, FinishStep, Finish, Emit, ConsolePanic,
       AdvanceTurn, Unlock, Goto, EffectPC, workerVars
  <2>2. UNCHANGED <<batch, item, ip>>
    BY <1>8 DEF Publish, FinishStep, Finish, Emit, ConsolePanic, AdvanceTurn,
       Unlock, workerVars
  <2>3. turn' = turn \/ turn' = turn + 1
    BY <1>8 DEF Publish, FinishStep, Finish, Emit, ConsolePanic, AdvanceTurn,
       Unlock, queue
  <2> QED BY <1>0, <1>1, <2>1, <2>2, <2>3
<1>9. ASSUME UNCHANGED <<batch, pc, item, ip, turn>> PROVE TurnInv'
  BY <1>9 DEF TurnInv, CurrentOp, Script
<1>10. Join \/ Cancel \/ UNCHANGED vars => UNCHANGED <<batch, pc, item, ip, turn>>
  BY DEF Join, Cancel, vars, workerVars, queue
<1> QED
  BY <1>2, <1>3, <1>4, <1>5, <1>6, <1>7, <1>8, <1>9, <1>10
  DEF Next, WorkerStep, CallStep, Terminated

THEOREM OrderInvariant == Spec => []OrderInv
<1>1. TypeOK /\ OrderInv /\ [Next]_vars => OrderInv'
  BY ClaimStep, QueueInvStep, TurnInvStep DEF OrderInv
<1> QED BY <1>1, OrderInit, TypeCorrect, PTL DEF Spec

\* Item i performs an ordered effect only once items 0..i-1 have finished and
\* their lines are out, and no two ordered effects overlap: for any number of
\* items and workers, under every fault, a panicking console included.
THEOREM OrderedEffectsExclusive == Spec => []OrderedExclusive
<1>1. ASSUME TypeOK, OrderInv PROVE OrderedExclusive
  <2>1. \A w \in Worker : InOrderedEffect(w) =>
          /\ item[w] \in Item /\ item[w] <= turn
          /\ Active(w) /\ ~done[item[w]]
    BY <1>1 DEF TypeOK, WorkersOK, OrderInv, TurnInv, ClaimInv, InOrderedEffect,
       EffectPC, Active, ItemPC
  <2>2. turn \in Int /\ Item \subseteq Int BY <1>1 DEF TypeOK, QueueOK, Item
  <2>3. \A w \in Worker : InOrderedEffect(w) =>
          \A i \in Item : i < item[w] => done[i] /\ qlogs[i] = <<>>
    BY <1>1, <2>1, <2>2 DEF OrderInv, QueueInv
  <2>4. \A v, w \in Worker :
          InOrderedEffect(v) /\ InOrderedEffect(w) /\ v # w =>
            item[v] < item[w] \/ item[w] < item[v]
    <3> SUFFICES ASSUME NEW v \in Worker, NEW w \in Worker, v # w,
                        InOrderedEffect(v), InOrderedEffect(w)
                 PROVE  item[v] < item[w] \/ item[w] < item[v]
      OBVIOUS
    <3>1. item[v] \in Int /\ item[w] \in Int BY <2>1, <2>2
    <3>2. item[v] # item[w] BY <1>1, <2>1 DEF OrderInv, ClaimInv
    <3> QED BY <3>1, <3>2
  <2> QED BY <2>1, <2>3, <2>4 DEF OrderedExclusive
<1> QED BY <1>1, OrderInvariant, TypeCorrect, PTL

---------------------------------------------------------------------------
(* The batch implements the machine with a single turn.                    *)

\* The traces agree: the abstract one forgets the place in the script.
Seen(t) == [n \in DOMAIN t |-> <<t[n][1], t[n][2]>>]

LEMMA SeenAppend ==
  ASSUME NEW t \in Seq({"effect", "line"} \X Item \X Nat),
         NEW kind \in {"effect", "line"}, NEW i \in Item, NEW n \in Nat
  PROVE  Seen(Append(t, <<kind, i, n>>)) = Append(Seen(t), <<kind, i>>)
<1> DEFINE e == <<kind, i, n>>
           a == Append(t, e)
<1>0. e \in {"effect", "line"} \X Item \X Nat OBVIOUS
<1>1. /\ Len(t) \in Nat /\ DOMAIN t = 1..Len(t)
      /\ DOMAIN a = 1..(Len(t) + 1)
      /\ \A m \in 1..Len(t) : a[m] = t[m]
      /\ a[Len(t) + 1] = e
  BY <1>0
<1>2. e[1] = kind /\ e[2] = i OBVIOUS
<1> HIDE DEF a, e
<1> DEFINE s == Seen(t)
           T == {<<t[m][1], t[m][2]>> : m \in DOMAIN t} \cup {<<kind, i>>}
<1>3. /\ s \in Seq(T) /\ Len(s) = Len(t)
      /\ \A m \in 1..Len(t) : s[m] = <<t[m][1], t[m][2]>>
  BY <1>1 DEF Seen
<1> HIDE DEF s
<1>4. Append(s, <<kind, i>>) =
        [m \in 1..(Len(t) + 1) |->
           IF m = Len(t) + 1 THEN <<kind, i>> ELSE <<t[m][1], t[m][2]>>]
  <2>1. <<kind, i>> \in T OBVIOUS
  <2>2. Append(s, <<kind, i>>) \in Seq(T) BY <1>3, <2>1, AppendTyped
  <2>3. /\ DOMAIN Append(s, <<kind, i>>) = 1..(Len(t) + 1)
        /\ \A m \in 1..Len(t) : Append(s, <<kind, i>>)[m] = s[m]
        /\ Append(s, <<kind, i>>)[Len(t) + 1] = <<kind, i>>
    BY <1>1, <1>3, <2>1
  <2>4. Append(s, <<kind, i>>) =
          [m \in 1..(Len(t) + 1) |-> Append(s, <<kind, i>>)[m]]
    BY <2>2, <2>3
  <2>5. \A m \in 1..(Len(t) + 1) : Append(s, <<kind, i>>)[m] =
          IF m = Len(t) + 1 THEN <<kind, i>> ELSE <<t[m][1], t[m][2]>>
    <3>1. \A m \in 1..(Len(t) + 1) : m = Len(t) + 1 \/ (m # Len(t) + 1 /\ m \in 1..Len(t))
      BY <1>1
    <3>2. \A m \in 1..Len(t) : Append(s, <<kind, i>>)[m] = <<t[m][1], t[m][2]>>
      BY <1>3, <2>3
    <3> QED BY <2>3, <3>1, <3>2
  <2> QED BY <2>4, <2>5
<1>5. Seen(a) =
        [m \in 1..(Len(t) + 1) |->
           IF m = Len(t) + 1 THEN <<kind, i>> ELSE <<t[m][1], t[m][2]>>]
  BY <1>1, <1>2 DEF Seen
<1> QED BY <1>4, <1>5 DEF a, e, s

LEMMA RefineInit == Init => Ordered!Init
  BY DEF Init, Ordered!Init

LEMMA RefineStep ==
  ASSUME TypeOK, OrderInv, [Next]_vars
  PROVE  [Ordered!Next]_Ordered!vars
<1> DEFINE fin == {i \in Item : done[i]}
<1>0. /\ item \in [Worker -> Item] /\ done \in [Item -> BOOLEAN]
      /\ turn \in 0..N /\ ip \in [Worker -> Nat]
      /\ trace \in Seq({"effect", "line"} \X Item \X Nat)
  BY DEF TypeOK, WorkersOK, QueueOK, HistoryOK
<1>1. ASSUME UNCHANGED <<turn, done, trace>> PROVE UNCHANGED Ordered!vars
  BY <1>1 DEF Ordered!vars
<1>2. ASSUME NEW w \in Worker, CompareAndSwap(w)
      PROVE [Ordered!Next]_Ordered!vars
  <2>1. UNCHANGED <<turn, done>> BY <1>2 DEF CompareAndSwap, queue
  <2>2. CASE trace' = trace BY <1>1, <2>1, <2>2
  <2>3. CASE trace' # trace
    <3>1. /\ pc[w] = "cas" /\ CurrentOp(w) \in OrderedOp
          /\ trace' = Append(trace, <<"effect", item[w], ip[w]>>)
      BY <1>2, <2>3 DEF CompareAndSwap, BeginDispatch
    <3>2. item[w] \in Item /\ ip[w] \in Nat BY <1>0
    <3>3. Seen(trace') = Append(Seen(trace), <<"effect", item[w]>>)
      BY <1>0, <3>1, <3>2, SeenAppend
    <3>4. item[w] \in Item /\ item[w] <= turn /\ ~done[item[w]]
      BY <1>0, <3>1 DEF OrderInv, TurnInv, ClaimInv, EffectPC, Active, ItemPC
    <3>5. item[w] = turn
      <4>1. item[w] < turn \/ item[w] = turn BY <1>0, <3>4 DEF Item
      <4> QED BY <3>4, <4>1 DEF OrderInv, QueueInv
    <3>6. PICK i \in Item : i = item[w] BY <3>4
    <3>7. Ordered!Perform(i)
      BY <2>1, <3>3, <3>4, <3>5, <3>6 DEF Ordered!Perform, Seen
    <3> QED BY <3>7 DEF Ordered!Next, Ordered!Item, Item
  <2> QED BY <2>2, <2>3
<1>3. ASSUME NEW w \in Worker, Finish(w) PROVE [Ordered!Next]_Ordered!vars
  <2>1. /\ done' = [done EXCEPT ![item[w]] = TRUE] /\ item[w] \in Item
        /\ UNCHANGED <<turn, trace>>
    BY <1>0, <1>3 DEF Finish, history
  <2>2. PICK i \in Item : i = item[w] BY <2>1
  <2>3. {j \in Item : done'[j]} = fin \cup {i} BY <1>0, <2>1, <2>2
  <2>4. Ordered!FinishItem(i) BY <2>1, <2>3 DEF Ordered!FinishItem
  <2> QED BY <2>4 DEF Ordered!Next, Ordered!Item, Item
<1>4. ASSUME NEW w \in Worker, Emit(w) PROVE [Ordered!Next]_Ordered!vars
  <2> DEFINE line == Head(qlogs[turn])
  <2>1. /\ turn < N /\ done[turn] /\ qlogs[turn] # <<>>
        /\ trace' = Append(trace, <<"line", line[1], line[2]>>)
        /\ UNCHANGED <<turn, done>>
    BY <1>4 DEF Emit, Releasing
  <2>2. turn \in Item BY <1>0, <2>1, ItemCount DEF Item
  <2>3. line \in {turn} \X Nat
    BY <2>1, <2>2, TailTyped DEF OrderInv, QueueInv
  <2>4. line[1] = turn /\ line[2] \in Nat BY <2>3
  <2> HIDE DEF line
  <2>5. Seen(trace') = Append(Seen(trace), <<"line", turn>>)
    BY <1>0, <2>1, <2>2, <2>4, SeenAppend
  <2>6. PICK i \in Item : i = turn BY <2>2
  <2>7. Ordered!Show(i)
    BY <2>1, <2>5, <2>6 DEF Ordered!Show, Seen
  <2> QED BY <2>7 DEF Ordered!Next, Ordered!Item, Item
<1>5. ASSUME NEW w \in Worker, AdvanceTurn(w) PROVE [Ordered!Next]_Ordered!vars
  <2>1. /\ turn < N /\ done[turn] /\ turn' = turn + 1
        /\ UNCHANGED <<done, trace>>
    BY <1>5 DEF AdvanceTurn, Releasing, history
  <2>2. turn \in Item BY <1>0, <2>1, ItemCount DEF Item
  <2>3. Ordered!Pass BY <2>1, <2>2 DEF Ordered!Pass
  <2> QED BY <2>3 DEF Ordered!Next
<1>6. ASSUME NEW w \in Worker,
             \/ Claim(w) \/ Publish(w) \/ Tick(w) \/ Log(w) \/ Complete(w)
             \/ Panic(w) \/ Call(w) \/ Wait(w) \/ Flush(w) \/ Check(w)
             \/ Load(w) \/ Return(w) \/ ReturnUncatchable(w) \/ ReturnFatal(w)
             \/ ConsolePanic(w) \/ Unlock(w)
      PROVE UNCHANGED <<turn, done, trace>>
  BY <1>6 DEF Claim, Publish, Tick, Log, Complete, Panic, Call, Wait, Flush,
       Check, Load, Return, ReturnUncatchable, ReturnFatal, ConsolePanic,
       Unlock, queue, history
<1>7. Join \/ Cancel \/ UNCHANGED vars => UNCHANGED <<turn, done, trace>>
  BY DEF Join, Cancel, vars, queue, history
<1> QED
  BY <1>1, <1>2, <1>3, <1>4, <1>5, <1>6, <1>7
  DEF Next, WorkerStep, CallStep, FinishStep, Terminated

\* Every behaviour of the batch, seen by the host, is one of the machine in
\* which a single turn passes from item to item.
THEOREM ImplementsOrdered == Spec => OrderedSpec
  BY RefineInit, RefineStep, TypeCorrect, OrderInvariant, PTL
  DEF Spec, OrderedSpec, Ordered!Spec

---------------------------------------------------------------------------
(* The call budget.                                                        *)


\* Between reading the counter and swapping it a worker knows there is room.
SeenInv == \A w \in Worker : pc[w] = "cas" => seen[w] < Limit(w)

BudgetInv == BudgetRespected /\ SeenInv

LEMMA BudgetInit == Init => BudgetInv
  BY BatchAssumption DEF Init, BudgetInv, BudgetRespected, SeenInv

LEMMA BudgetStep ==
  ASSUME TypeOK, BudgetInv, [Next]_vars
  PROVE  BudgetInv'
<1> USE DEF BudgetInv
<1>0. /\ pc \in [Worker -> PC] /\ seen \in [Worker -> Nat]
      /\ calls \in Nat /\ hostCalls \in Nat /\ sent \in Nat
      /\ MaxCalls \in Nat /\ MaxHostCalls \in Nat
  BY BatchAssumption DEF TypeOK, WorkersOK, SharedOK, HistoryOK
\* Enough for SeenInv: whoever stands before the swap stood there before.
<1>1. ASSUME batch' = batch,
             \A v \in Worker : pc'[v] = "cas" =>
               /\ pc[v] = "cas"
               /\ item'[v] = item[v] /\ ip'[v] = ip[v] /\ seen'[v] = seen[v]
      PROVE SeenInv'
  BY <1>1 DEF SeenInv, Limit, CurrentOp, Script
<1>2. ASSUME NEW w \in Worker, Load(w) PROVE BudgetInv'
  <2>1. BudgetRespected' BY <1>2 DEF Load, counters, history, BudgetRespected
  <2>2. CASE Counter(w) >= Limit(w)
    <3>1. pc'[w] # "cas" /\ \A v \in Worker \ {w} : pc'[v] = pc[v] /\ ip'[v] = ip[v]
      <4>1. CASE Advance(w) BY <1>0, <4>1 DEF Advance, Goto
      <4>2. CASE EndItem(w, "throw") BY <1>0, <4>2 DEF EndItem, Goto
      <4> QED BY <1>2, <2>2, <4>1, <4>2 DEF Load, Thrown
    <3> QED BY <1>1, <1>2, <2>1, <2>2, <3>1 DEF Load
  <2>3. CASE ~(Counter(w) >= Limit(w))
    <3>1. /\ seen' = [seen EXCEPT ![w] = Counter(w)]
          /\ pc' = [pc EXCEPT ![w] = "cas"]
          /\ UNCHANGED <<batch, item, ip>>
      BY <1>2, <2>3 DEF Load, Goto
    <3>2. Counter(w) \in Nat /\ Limit(w) \in Nat BY <1>0 DEF Counter, Limit
    <3>3. seen'[w] < Limit(w) BY <1>0, <2>3, <3>1, <3>2
    <3>4. \A v \in Worker : Limit(v)' = Limit(v)
      BY <3>1 DEF Limit, CurrentOp, Script
    <3>5. SeenInv' BY <1>0, <3>1, <3>3, <3>4 DEF SeenInv
    <3> QED BY <2>1, <3>5
  <2> QED BY <2>2, <2>3
<1>3. ASSUME NEW w \in Worker, CompareAndSwap(w) PROVE BudgetInv'
  <2>1. SeenInv'
    <3>1. pc'[w] # "cas" /\ \A v \in Worker \ {w} : pc'[v] = pc[v]
      BY <1>0, <1>3 DEF CompareAndSwap, BeginDispatch, Goto
    <3> QED BY <1>1, <1>3, <3>1 DEF CompareAndSwap
  <2>2. BudgetRespected'
    <3>1. CASE ~Swaps(w)
      BY <1>3, <3>1 DEF CompareAndSwap, BudgetRespected
    <3>2. CASE Swaps(w)
      <4>1. seen[w] < Limit(w) /\ seen[w] \in Nat
        BY <1>0, <1>3 DEF CompareAndSwap, SeenInv
      <4>2. sent' = sent + 1 BY <1>3, <3>2 DEF CompareAndSwap, BeginDispatch
      <4>3. CASE CurrentOp(w) = "host"
        BY <1>0, <1>3, <3>2, <4>1, <4>2, <4>3
        DEF CompareAndSwap, Swaps, Counter, Limit, BudgetRespected
      <4>4. CASE CurrentOp(w) # "host"
        BY <1>0, <1>3, <3>2, <4>1, <4>2, <4>4
        DEF CompareAndSwap, Swaps, Counter, Limit, BudgetRespected
      <4> QED BY <4>3, <4>4
    <3> QED BY <3>1, <3>2
  <2> QED BY <2>1, <2>2
<1>4. ASSUME NEW w \in Worker,
             \/ Claim(w) \/ Publish(w) \/ Tick(w) \/ Log(w) \/ Complete(w)
             \/ Panic(w) \/ Call(w) \/ Wait(w) \/ Flush(w) \/ Check(w)
             \/ Return(w) \/ ReturnUncatchable(w) \/ ReturnFatal(w)
             \/ FinishStep(w)
      PROVE BudgetInv'
  <2>1. UNCHANGED <<batch, calls, hostCalls, sent, seen>>
    BY <1>4 DEF Claim, Publish, Tick, Log, Complete, Panic, Call, Wait, Flush,
         Check, Return, ReturnUncatchable, ReturnFatal, FinishStep, Finish,
         Emit, ConsolePanic, AdvanceTurn, Unlock, counters, history, workerVars
  <2>2. \A v \in Worker : pc'[v] = "cas" =>
          pc[v] = "cas" /\ item'[v] = item[v] /\ ip'[v] = ip[v]
    <3>1. CASE Claim(w) \/ Publish(w) \/ Call(w) \/ Wait(w) \/ Panic(w)
      <4>1. /\ pc'[w] # "cas" /\ \A v \in Worker \ {w} : pc'[v] = pc[v]
        BY <1>0, <3>1 DEF Claim, Publish, Call, Wait, Panic, Goto
      <4>2. \A v \in Worker \ {w} : item'[v] = item[v] /\ ip'[v] = ip[v]
        BY <1>0, <3>1 DEF Claim, Publish, Call, Wait, Panic, TypeOK, WorkersOK
      <4> QED BY <4>1, <4>2
    <3>2. CASE \/ Tick(w) \/ Log(w) \/ Complete(w) \/ Flush(w) \/ Check(w)
               \/ Return(w) \/ ReturnUncatchable(w) \/ ReturnFatal(w)
      <4>1. item' = item
        BY <3>2 DEF Tick, Log, Complete, Flush, Check, Return,
             ReturnUncatchable, ReturnFatal
      <4>2. \/ Advance(w)
            \/ UNCHANGED ip /\ \E label \in {"lock", "flush", "check", "load"} : Goto(w, label)
        BY <3>2 DEF Tick, Log, Complete, Flush, Check, Return,
             ReturnUncatchable, ReturnFatal, EndItem, Thrown
      <4>3. pc'[w] # "cas" /\ \A v \in Worker \ {w} : pc'[v] = pc[v] /\ ip'[v] = ip[v]
        <5>1. CASE Advance(w) BY <1>0, <5>1 DEF Advance, Goto
        <5>2. CASE UNCHANGED ip /\ \E label \in {"lock", "flush", "check", "load"} : Goto(w, label)
          BY <1>0, <5>2 DEF Goto
        <5> QED BY <4>2, <5>1, <5>2
      <4> QED BY <4>1, <4>3
    <3>3. CASE FinishStep(w)
      BY <1>0, <3>3 DEF FinishStep, Finish, Emit, ConsolePanic, AdvanceTurn,
           Unlock, Goto, workerVars
    <3> QED BY <1>4, <3>1, <3>2, <3>3
  <2>3. SeenInv' BY <1>1, <2>1, <2>2
  <2> QED BY <2>1, <2>3 DEF BudgetRespected
<1>5. CASE Join \/ Cancel \/ UNCHANGED vars
  <2>1. UNCHANGED <<batch, pc, item, ip, seen, calls, hostCalls, sent>>
    BY <1>5 DEF Join, Cancel, vars, workerVars, counters, history
  <2>2. SeenInv' BY <1>1, <2>1
  <2> QED BY <2>1, <2>2 DEF BudgetRespected
<1> QED
  BY <1>2, <1>3, <1>4, <1>5 DEF Next, WorkerStep, CallStep, Terminated

\* Each dispatched call was charged exactly once and the budgets are never
\* exceeded, for any number of workers racing on the counters.
THEOREM BudgetSafe == Spec => []BudgetRespected
  BY BudgetInit, BudgetStep, TypeCorrect, PTL DEF Spec, BudgetInv

---------------------------------------------------------------------------
(* Waiting never deadlocks.  The worker at the turn is running or about to *)
(* broadcast, provided the host's console does not panic while the         *)
(* sequencer holds its mutex.                                              *)

WakeInv ==
  /\ \A w \in Worker : pc[w] = "release" <=> mu = w
  /\ \A i \in Item : i < next /\ ~done[i] =>
       \E v \in Worker : item[v] = i /\ pc[v] \in ItemPC \ {"release"}
  /\ mu = NoWorker =>
       /\ turn \in Item => ~done[turn]
       /\ \A w \in Worker : pc[w] = "asleep" => turn < item[w]

LEMMA WakeInit == Init => WakeInv
<1> SUFFICES ASSUME Init PROVE WakeInv
  OBVIOUS
<1>1. \A w \in Worker : pc[w] = "claim" /\ mu # w
  BY BatchAssumption DEF Init
<1>2. \A i \in Item : ~(i < next) /\ ~done[i] BY DEF Init, Item
<1> QED BY <1>1, <1>2 DEF WakeInv, Init

LEMMA WakeStep ==
  ASSUME "consolePanic" \notin Faults, TypeOK, OrderInv, WakeInv, [Next]_vars
  PROVE  WakeInv'
<1> USE DEF WakeInv
<1>0. /\ pc \in [Worker -> PC] /\ item \in [Worker -> Item]
      /\ done \in [Item -> BOOLEAN] /\ next \in Nat
      /\ turn \in 0..N /\ Item \subseteq Int /\ NoWorker \notin Worker
      /\ mu \in Worker \cup {NoWorker}
  BY BatchAssumption DEF TypeOK, WorkersOK, QueueOK, Item
<1>1. ASSUME NEW w \in Worker, Claim(w) PROVE WakeInv'
  <2>1. /\ pc[w] = "claim" /\ next' = next + 1 /\ UNCHANGED <<mu, done, turn>>
        /\ pc'[w] \in {"publish", "run"}
        /\ \A v \in Worker \ {w} : pc'[v] = pc[v] /\ item'[v] = item[v]
    BY <1>0, <1>1 DEF Claim, Goto, queue
  <2>2. \A v \in Worker : pc'[v] \in {"release", "asleep"} <=> pc[v] \in {"release", "asleep"}
    BY <2>1
  <2>3. \A v \in Worker : pc'[v] = pc[v] \/ v = w BY <2>1
  <2>4. \A i \in Item : i < next' => i < next \/ (i = next /\ ~NoMoreItems)
    BY <1>0, <2>1, ItemCount DEF NoMoreItems, Item
  <2>5. ~NoMoreItems => item'[w] = next /\ pc'[w] = "run"
    BY <1>0, <1>1 DEF Claim, Goto
  <2>6. \A i \in Item : i < next' /\ ~done'[i] =>
          \E v \in Worker : item'[v] = i /\ pc'[v] \in ItemPC \ {"release"}
    <3> SUFFICES ASSUME NEW i \in Item, i < next', ~done[i]
                 PROVE \E v \in Worker : item'[v] = i /\ pc'[v] \in ItemPC \ {"release"}
      BY <2>1
    <3>1. CASE i < next
      <4>1. PICK v \in Worker : item[v] = i /\ pc[v] \in ItemPC \ {"release"}
        BY <3>1
      <4>2. v # w BY <2>1, <4>1 DEF ItemPC
      <4> QED BY <2>1, <4>1, <4>2
    <3>2. CASE i = next /\ ~NoMoreItems
      BY <2>5, <3>2 DEF ItemPC
    <3> QED BY <2>4, <3>1, <3>2
  <2> QED BY <2>1, <2>2, <2>3, <2>6
<1>2. ASSUME NEW w \in Worker,
             \/ Tick(w) \/ Log(w) \/ Complete(w) \/ Panic(w) \/ CallStep(w)
      PROVE WakeInv'
  <2>1. /\ pc[w] \in ItemPC \ {"release"} /\ pc'[w] \in ItemPC \ {"release"}
        /\ \A v \in Worker \ {w} : pc'[v] = pc[v]
        /\ UNCHANGED <<next, item, mu, done, turn>>
    BY <1>2, InsideItem DEF queue
  <2>2. pc'[w] = "asleep" => turn < item[w]
    <3>1. CASE Wait(w) BY <1>0, <3>1 DEF Wait, Goto, MustWait
    <3>2. CASE Tick(w) \/ Log(w) \/ Complete(w) \/ Panic(w)
      BY <1>0, <3>2 DEF Tick, Log, Complete, Panic, Advance, EndItem, Goto
    <3>3. CASE Call(w) \/ Flush(w) \/ Check(w)
      BY <1>0, <3>3 DEF Call, Flush, Check, Advance, EndItem, Goto
    <3>4. CASE Load(w) \/ CompareAndSwap(w)
      BY <1>0, <3>4 DEF Load, CompareAndSwap, BeginDispatch, Thrown, Advance,
                        EndItem, Goto
    <3>5. CASE Return(w) \/ ReturnUncatchable(w) \/ ReturnFatal(w)
      BY <1>0, <3>5 DEF Return, ReturnUncatchable, ReturnFatal, Thrown, Advance,
                        EndItem, Goto
    <3> QED BY <1>2, <3>1, <3>2, <3>3, <3>4, <3>5 DEF CallStep
  <2>3. \A v \in Worker : pc'[v] = pc[v] \/ v = w BY <2>1
  <2>4. \A v \in Worker : pc'[v] = "release" <=> pc[v] = "release"
    BY <2>1, <2>3
  <2>5. \A v \in Worker :
          pc'[v] \in ItemPC \ {"release"} <=> pc[v] \in ItemPC \ {"release"}
    BY <2>1, <2>3
  <2>6. mu = NoWorker =>
          \A v \in Worker : pc'[v] = "asleep" => turn < item[v]
    BY <2>2, <2>3
  <2> QED BY <2>1, <2>4, <2>5, <2>6
<1>3. ASSUME NEW w \in Worker, Finish(w) PROVE WakeInv'
  <2>1. /\ pc[w] = "lock" /\ mu = NoWorker /\ mu' = w
        /\ pc' = [pc EXCEPT ![w] = "release"]
        /\ done' = [done EXCEPT ![item[w]] = TRUE]
        /\ UNCHANGED <<next, item, turn>>
    BY <1>3 DEF Finish, Goto
  <2>2. \A v \in Worker : pc'[v] = "release" <=> mu' = v
    BY <1>0, <2>1
  <2>3. ASSUME NEW i \in Item, i < next', ~done'[i]
        PROVE \E v \in Worker : item'[v] = i /\ pc'[v] \in ItemPC \ {"release"}
    <3>1. i < next /\ ~done[i] /\ i # item[w] BY <1>0, <2>1, <2>3
    <3>2. PICK v \in Worker : item[v] = i /\ pc[v] \in ItemPC \ {"release"}
      BY <3>1
    <3>3. v # w BY <3>1, <3>2
    <3> QED BY <1>0, <2>1, <3>2, <3>3
  <2> QED BY <1>0, <2>1, <2>2, <2>3
<1>4. ASSUME NEW w \in Worker, Emit(w) PROVE WakeInv'
  <2>1. mu = w /\ UNCHANGED <<pc, item, next, mu, done, turn>>
    BY <1>4 DEF Emit, Releasing, workerVars
  <2> QED BY <1>0, <2>1
<1>5. ASSUME NEW w \in Worker, AdvanceTurn(w) PROVE WakeInv'
  <2>1. mu = w /\ UNCHANGED <<pc, item, next, mu, done>>
    BY <1>5 DEF AdvanceTurn, Releasing, workerVars
  <2> QED BY <1>0, <2>1
<1>6. ASSUME NEW w \in Worker, Unlock(w) PROVE WakeInv'
  <2>1. /\ pc[w] = "release" /\ mu' = NoWorker
        /\ UNCHANGED <<next, item, done, turn>>
    BY <1>6 DEF Unlock
  <2>2. turn \in Item => ~done[turn]
    BY <1>0, <1>6, <2>1, ItemCount DEF Unlock, Releasing, Item
  <2>3. \A v \in Worker :
          /\ v = w => pc'[v] \in {"dead", "claim"}
          /\ v # w => /\ pc[v] = "asleep" => pc'[v] = "wait"
                      /\ pc[v] # "asleep" => pc'[v] = pc[v]
    BY <1>0, <1>6 DEF Unlock, WakesUp
  <2>4. \A v \in Worker : v # w => pc[v] # "release" BY <1>0, <2>1
  <2>5. \A v \in Worker : pc'[v] \notin {"release", "asleep"}
    BY <2>3, <2>4
  <2>6. \A v \in Worker : pc[v] \in ItemPC \ {"release"} => pc'[v] \in ItemPC \ {"release"}
    BY <2>1, <2>3 DEF ItemPC
  <2> QED BY <1>0, <2>1, <2>2, <2>5, <2>6
<1>7. ASSUME NEW w \in Worker, Publish(w) PROVE WakeInv'
  <2>1. /\ pc[w] = "publish" /\ pc' = [pc EXCEPT ![w] = "exited"]
        /\ UNCHANGED <<next, item, mu, done, turn>>
    BY <1>7 DEF Publish, Goto, queue
  <2>2. \A v \in Worker : pc'[v] = pc[v] \/ v = w BY <1>0, <2>1
  <2>3. \A v \in Worker : /\ pc'[v] = "release" <=> pc[v] = "release"
                          /\ pc'[v] = "asleep" <=> pc[v] = "asleep"
                          /\ pc[v] \in ItemPC => pc'[v] = pc[v]
    BY <1>0, <2>1, <2>2 DEF ItemPC
  <2> QED BY <2>1, <2>3
<1>8. ASSUME UNCHANGED <<pc, item, next, mu, done, turn>> PROVE WakeInv'
  BY <1>8
<1>9. Join \/ Cancel \/ UNCHANGED vars
        => UNCHANGED <<pc, item, next, mu, done, turn>>
  BY DEF Join, Cancel, vars, workerVars, queue
<1>10. \A w \in Worker : ~ConsolePanic(w)
  BY DEF ConsolePanic
<1> QED
  BY <1>1, <1>2, <1>3, <1>4, <1>5, <1>6, <1>7, <1>8, <1>9, <1>10
  DEF Next, WorkerStep, FinishStep, Terminated

\* With a console that does not panic, a worker asleep in wait always has
\* another one on its way to wake it: waiting can never deadlock.
THEOREM SleepersAreWoken ==
  ASSUME "consolePanic" \notin Faults
  PROVE  Spec => []SleeperHasWaker
<1>1. ASSUME TypeOK, OrderInv, WakeInv PROVE SleeperHasWaker
  <2> SUFFICES ASSUME NEW w \in Worker, pc[w] = "asleep"
               PROVE \E v \in Worker :
                       \/ pc[v] = "release"
                       \/ /\ turn < item[w] /\ item[v] = turn
                          /\ pc[v] \in ItemPC \ {"asleep", "release"}
    BY DEF SleeperHasWaker
  <2>0. /\ item \in [Worker -> Item] /\ turn \in Nat /\ next \in Nat
        /\ mu \in Worker \cup {NoWorker}
    BY <1>1 DEF TypeOK, WorkersOK, QueueOK
  <2>1. CASE mu # NoWorker
    BY <1>1, <2>0, <2>1 DEF WakeInv
  <2>2. CASE mu = NoWorker
    <3>1. turn < item[w] /\ item[w] < next /\ item[w] \in Item
      BY <1>1, <2>0, <2>2 DEF WakeInv, OrderInv, ClaimInv, Active, ItemPC
    <3>2. turn \in Item /\ turn < next BY <2>0, <3>1, ItemCount DEF Item
    <3>3. PICK v \in Worker : item[v] = turn /\ pc[v] \in ItemPC \ {"release"}
      BY <1>1, <2>2, <3>2 DEF WakeInv
    <3>4. pc[v] # "asleep" BY <1>1, <2>0, <2>2, <3>3 DEF WakeInv
    <3> QED BY <3>1, <3>3, <3>4
  <2> QED BY <2>1, <2>2
<1>2. TypeOK /\ OrderInv /\ WakeInv /\ [Next]_vars => WakeInv'
  BY WakeStep
<1> QED BY <1>1, <1>2, WakeInit, TypeCorrect, OrderInvariant, PTL DEF Spec

============================================================================
