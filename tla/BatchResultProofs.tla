------------------------- MODULE BatchResultProofs -------------------------
(* Theorems about what a batch of ParallelBatch hands back once its workers *)
(* are joined: outcomes, lines, steps, and what a fatal error stops.  They  *)
(* rest on the ordering argument of ParallelBatchProofs.                    *)
EXTENDS ParallelBatchProofs, FiniteSetTheorems

\* An item's outcome is being handed over: the worker is in sequencer.finish.
Leaving == {"lock", "release"}

LEMMA BasicTypes ==
  ASSUME TypeOK
  PROVE  /\ pc \in [Worker -> PC] /\ item \in [Worker -> Item]
         /\ ip \in [Worker -> Nat] /\ pending \in [Worker -> Nat]
         /\ logs \in [Worker -> Seq(Item \X Nat)]
         /\ dying \in [Worker -> BOOLEAN] /\ next \in Nat
         /\ mu \in Worker \cup {NoWorker} /\ done \in [Item -> BOOLEAN]
         /\ qlogs \in [Item -> Seq(Item \X Nat)] /\ turn \in 0..N
         /\ out \in [Item -> Outcome]
         /\ panicked \in BOOLEAN /\ aborted \in BOOLEAN
         /\ N \in Nat /\ Item = 0..(N - 1) /\ NoWorker \notin Worker
  BY BatchAssumption
  DEF TypeOK, WorkersOK, QueueOK, OutcomeOK, SharedOK, Item

\* The turn is at an item, or past the last one.
LEMMA TurnItem == ASSUME TypeOK PROVE turn \in Item <=> turn < N
  BY BasicTypes

LEMMA SettleOutcome ==
  ASSUME NEW o \in {"value", "throw", "plain"}
  PROVE  /\ Settle(o) \in Outcome \ {"none"}
         /\ o = "plain" => Settle(o) = "plain"
  BY DEF Settle, Outcome

\* How a worker leaves a step inside its item: it stays in the item, or writes
\* the item's outcome, or panics without one.
StaysInside(w) ==
  pc'[w] \notin Leaving /\ out' = out /\ dying' = dying
EndsWith(w, o) ==
  /\ pc'[w] = "lock" /\ dying' = dying
  /\ out' = [out EXCEPT ![item[w]] = o]
Panics(w) ==
  /\ pc'[w] = "lock" /\ out' = out
  /\ dying' = [dying EXCEPT ![w] = TRUE]

LEMMA EndItemOutcome ==
  ASSUME TypeOK, NEW w \in Worker, NEW o \in {"value", "throw", "plain"},
         EndItem(w, o), dying' = dying
  PROVE  EndsWith(w, Settle(o))
  BY BasicTypes DEF EndItem, EndsWith, Goto

LEMMA AdvanceInside ==
  ASSUME TypeOK, NEW w \in Worker, Advance(w), dying' = dying
  PROVE  StaysInside(w)
  BY BasicTypes DEF Advance, StaysInside, Goto, Leaving

LEMMA InsideOutcome ==
  ASSUME TypeOK, NEW w \in Worker,
         \/ Tick(w) \/ Log(w) \/ Complete(w) \/ Panic(w) \/ CallStep(w)
  PROVE  /\ pc[w] \in ItemPC \ Leaving
         /\ UNCHANGED <<panicked, cancelled, result>>
         /\ \/ StaysInside(w)
            \/ \E o \in Outcome \ {"none"} : EndsWith(w, o)
            \/ Panics(w)
<1> USE DEF flags
<1>1. pc[w] \in ItemPC \ Leaving
  BY DEF ItemPC, Leaving, At, Tick, Log, Complete, Panic, CallStep, Call, Wait,
         Flush, Check, Load, CompareAndSwap, Return, ReturnUncatchable,
         ReturnFatal
<1>2. UNCHANGED <<panicked, cancelled, result>>
  BY DEF Tick, Log, Complete, Panic, CallStep, Call, Wait, Flush, Check, Load,
         CompareAndSwap, Return, ReturnUncatchable, ReturnFatal
<1>3. ASSUME NEW o \in {"value", "throw", "plain"}, EndItem(w, o), dying' = dying
      PROVE  \E p \in Outcome \ {"none"} : EndsWith(w, p)
  BY <1>3, EndItemOutcome, SettleOutcome
<1>4. ASSUME NEW label \in PC \ Leaving, Goto(w, label), out' = out, dying' = dying
      PROVE  StaysInside(w)
  BY <1>4, BasicTypes DEF Goto, StaysInside
<1>5. {"flush", "asleep", "wait", "check", "load", "cas", "dispatch"} \subseteq PC \ Leaving
  BY DEF PC, ItemPC, Leaving
<1>6. CASE Panic(w)
  <2>1. Panics(w) BY <1>6, BasicTypes DEF Panic, Goto, Panics
  <2> QED BY <1>1, <1>2, <2>1
<1>7. CASE Tick(w) \/ Log(w) \/ Complete(w) \/ Return(w) \/ ReturnUncatchable(w)
           \/ ReturnFatal(w)
  <2>1. dying' = dying
    BY <1>7 DEF Tick, Log, Complete, Return, ReturnUncatchable, ReturnFatal
  <2>2. \/ Advance(w)
        \/ Goto(w, "flush") /\ out' = out
        \/ \E o \in {"value", "throw", "plain"} : EndItem(w, o)
    BY <1>7 DEF Tick, Log, Complete, Return, ReturnUncatchable, ReturnFatal, Thrown
  <2> QED BY <1>1, <1>2, <1>3, <1>4, <1>5, <2>1, <2>2, AdvanceInside
<1>8. CASE Call(w) \/ Wait(w) \/ CompareAndSwap(w)
  <2>1. dying' = dying /\ out' = out
    BY <1>8 DEF Call, Wait, CompareAndSwap
  <2>2. \E l \in {"flush", "wait", "asleep", "load", "dispatch"} : Goto(w, l)
    BY <1>8 DEF Call, Wait, CompareAndSwap, BeginDispatch
  <2> QED BY <1>1, <1>2, <1>4, <1>5, <2>1, <2>2
<1>9. CASE Flush(w) \/ Check(w) \/ Load(w)
  <2>1. dying' = dying BY <1>9 DEF Flush, Check, Load
  <2>2. \/ Advance(w)
        \/ \E l \in {"check", "load", "cas"} : Goto(w, l) /\ out' = out
        \/ \E o \in {"value", "throw", "plain"} : EndItem(w, o)
    BY <1>9 DEF Flush, Check, Load, Thrown
  <2> QED BY <1>1, <1>2, <1>3, <1>4, <1>5, <2>1, <2>2, AdvanceInside
<1> QED BY <1>6, <1>7, <1>8, <1>9 DEF CallStep

---------------------------------------------------------------------------
(* Who is on his way out, and what an item without an outcome means.       *)

\* A worker that panicked goes through finish and dies; a dead worker has
\* recorded the panic.
DyingInv ==
  /\ \A w \in Worker : dying[w] => pc[w] \in Leaving \cup {"dead"}
  /\ \A w \in Worker : pc[w] = "dead" => panicked

\* An item has an outcome exactly from the moment its worker goes to finish,
\* unless that worker is panicking.
OutInv ==
  /\ \A i \in Item : i >= next => out[i] = "none"
  /\ \A w \in Worker : Active(w) /\ pc[w] \notin Leaving => out[item[w]] = "none"
  /\ \A w \in Worker : pc[w] \in Leaving /\ out[item[w]] = "none" => dying[w]
  /\ \A i \in Item : done[i] /\ out[i] = "none" =>
       \E w \in Worker : item[w] = i /\ dying[w] /\ pc[w] \in {"release", "dead"}

LEMMA DyingStep ==
  ASSUME TypeOK, DyingInv, [Next]_vars PROVE DyingInv'
<1> USE DEF DyingInv
<1>0. pc \in [Worker -> PC] /\ dying \in [Worker -> BOOLEAN] /\ panicked \in BOOLEAN
  BY BasicTypes
<1>1. ASSUME NEW w \in Worker,
             \/ Tick(w) \/ Log(w) \/ Complete(w) \/ Panic(w) \/ CallStep(w)
      PROVE DyingInv'
  <2>1. /\ pc[w] \notin Leaving \cup {"dead"} /\ pc'[w] # "dead"
        /\ \A v \in Worker \ {w} : pc'[v] = pc[v]
        /\ panicked' = panicked
    BY <1>1, InsideItem, InsideOutcome DEF ItemPC
  <2>2. dying' = dying \/ (pc'[w] = "lock" /\ dying' = [dying EXCEPT ![w] = TRUE])
    BY <1>1, InsideOutcome DEF StaysInside, EndsWith, Panics
  <2> QED BY <1>0, <2>1, <2>2 DEF Leaving
<1>2. ASSUME NEW w \in Worker, Unlock(w) PROVE DyingInv'
  <2>1. UNCHANGED dying BY <1>2 DEF Unlock
  <2>2. \A v \in Worker \ {w} : dying[v] => pc'[v] = pc[v]
    BY <1>2 DEF Unlock, Leaving
  <2>3. dying[w] => pc'[w] = "dead" BY <1>2 DEF Unlock
  <2>4. \A v \in Worker : pc'[v] = "dead" => pc[v] = "dead" \/ dying[w]
    BY <1>2 DEF Unlock
  <2>5. panicked' = (panicked \/ dying[w]) BY <1>2 DEF Unlock
  <2> QED BY <1>0, <2>1, <2>2, <2>3, <2>4, <2>5
<1>3. ASSUME NEW w \in Worker, Finish(w) \/ ConsolePanic(w) PROVE DyingInv'
  BY <1>0, <1>3 DEF Finish, ConsolePanic, Goto, flags, Leaving
<1>4. ASSUME NEW w \in Worker, Claim(w) \/ Publish(w) PROVE DyingInv'
  BY <1>0, <1>4 DEF Claim, Publish, Goto, flags, Leaving
<1>5. ASSUME NEW w \in Worker, Emit(w) \/ AdvanceTurn(w)
      PROVE UNCHANGED <<pc, dying, panicked>>
  BY <1>5 DEF Emit, AdvanceTurn, workerVars, flags
<1>6. Join \/ Cancel \/ UNCHANGED vars => UNCHANGED <<pc, dying, panicked>>
  BY DEF Join, Cancel, vars, workerVars, flags
<1>7. ASSUME UNCHANGED <<pc, dying, panicked>> PROVE DyingInv'
  BY <1>7
<1> QED
  BY <1>1, <1>2, <1>3, <1>4, <1>5, <1>6, <1>7
  DEF Next, WorkerStep, FinishStep, Terminated

LEMMA OutStep ==
  ASSUME TypeOK, OrderInv, DyingInv, OutInv, [Next]_vars PROVE OutInv'
<1> USE DEF OutInv, OrderInv
<1>0. /\ pc \in [Worker -> PC] /\ dying \in [Worker -> BOOLEAN]
      /\ item \in [Worker -> Item] /\ out \in [Item -> Outcome]
      /\ done \in [Item -> BOOLEAN] /\ next \in Nat /\ Item \subseteq Int
  BY BasicTypes
\* Enough when no outcome, claim or finished item changes.
<1>1. ASSUME UNCHANGED <<next, out, done, dying, item>>,
             \A v \in Worker :
               /\ pc'[v] \in ItemPC => pc[v] \in ItemPC
               /\ pc'[v] \in ItemPC => (pc'[v] \in Leaving <=> pc[v] \in Leaving)
               /\ pc[v] \in {"release", "dead"} /\ dying[v] => pc'[v] \in {"release", "dead"}
      PROVE OutInv'
  BY <1>1 DEF Active, ItemPC, Leaving
<1>2. ASSUME NEW w \in Worker, Claim(w) PROVE OutInv'
  <2>1. /\ pc[w] = "claim" /\ next' = next + 1
        /\ UNCHANGED <<out, done, dying>>
        /\ \A v \in Worker \ {w} : pc'[v] = pc[v] /\ item'[v] = item[v]
    BY <1>0, <1>2 DEF Claim, Goto, queue
  <2>2. \/ pc'[w] = "publish"
        \/ pc'[w] = "run" /\ next \in Item /\ item'[w] = next
    BY <1>0, <1>2, ItemCount DEF Claim, Goto, NoMoreItems, Item
  <2>3. ~dying[w] BY <2>1 DEF DyingInv, Leaving
  <2>4. \A i \in Item : i >= next' => out'[i] = "none" BY <1>0, <2>1
  <2>5. \A v \in Worker : Active(v)' /\ pc'[v] \notin Leaving => out'[item'[v]] = "none"
    BY <1>0, <2>1, <2>2 DEF Active, ItemPC
  <2>6. \A v \in Worker : pc'[v] \in Leaving /\ out'[item'[v]] = "none" => dying'[v]
    BY <2>1, <2>2 DEF Leaving
  <2>7. \A i \in Item : done'[i] /\ out'[i] = "none" =>
          \E v \in Worker : item'[v] = i /\ dying'[v] /\ pc'[v] \in {"release", "dead"}
    BY <2>1, <2>3
  <2> QED BY <2>4, <2>5, <2>6, <2>7
<1>3. ASSUME NEW w \in Worker,
             \/ Tick(w) \/ Log(w) \/ Complete(w) \/ Panic(w) \/ CallStep(w)
      PROVE OutInv'
  <2>1. /\ pc[w] \in ItemPC \ Leaving /\ pc'[w] \in ItemPC \ {"release"}
        /\ \A v \in Worker \ {w} : pc'[v] = pc[v]
        /\ UNCHANGED <<next, item, done>>
    BY <1>3, InsideItem, InsideOutcome DEF queue
  <2>2. \A v \in Worker \ {w} : Active(v) => item[v] # item[w]
    BY <2>1 DEF ClaimInv, Active
  <2>3. item[w] \in Item /\ item[w] < next /\ ~done[item[w]] /\ ~dying[w]
    BY <1>0, <2>1 DEF ClaimInv, Active, DyingInv, Leaving, ItemPC
  <2>4. CASE StaysInside(w)
    <3>1. /\ pc'[w] \notin Leaving /\ UNCHANGED <<out, dying>>
      BY <2>4 DEF StaysInside
    <3>2. ASSUME NEW v \in Worker
          PROVE /\ pc'[v] \in ItemPC => pc[v] \in ItemPC
                /\ pc'[v] \in ItemPC => (pc'[v] \in Leaving <=> pc[v] \in Leaving)
                /\ pc[v] \in {"release", "dead"} /\ dying[v] => pc'[v] \in {"release", "dead"}
      BY <2>1, <3>1 DEF ItemPC, Leaving
    <3> QED BY <1>1, <2>1, <3>1, <3>2
  <2>5. ASSUME NEW o \in Outcome \ {"none"}, EndsWith(w, o) PROVE OutInv'
    <3>1. \A i \in Item : out'[i] = "none" => out[i] = "none"
      BY <1>0, <2>5 DEF EndsWith
    <3>2. \A i \in Item \ {item[w]} : out'[i] = out[i]
      BY <1>0, <2>5 DEF EndsWith
    <3>3. out'[item[w]] # "none" /\ dying' = dying /\ pc'[w] = "lock"
      BY <1>0, <2>3, <2>5 DEF EndsWith
    <3>4. \A i \in Item : i >= next' => out'[i] = "none"
      BY <1>0, <2>1, <2>3, <3>2
    <3>5. \A v \in Worker : Active(v)' /\ pc'[v] \notin Leaving => out'[item'[v]] = "none"
      BY <1>0, <2>1, <2>2, <3>2, <3>3 DEF Active, Leaving
    <3>6. \A v \in Worker : pc'[v] \in Leaving /\ out'[item'[v]] = "none" => dying'[v]
      BY <1>0, <2>1, <3>1, <3>3
    <3>7. \A i \in Item : done'[i] /\ out'[i] = "none" =>
            \E v \in Worker : item'[v] = i /\ dying'[v] /\ pc'[v] \in {"release", "dead"}
      BY <1>0, <2>1, <2>3, <3>1, <3>3
    <3> QED BY <3>4, <3>5, <3>6, <3>7
  <2>6. CASE Panics(w)
    <3>1. /\ out' = out /\ pc'[w] = "lock" /\ dying'[w]
          /\ \A v \in Worker : dying[v] => dying'[v]
      BY <1>0, <2>6 DEF Panics
    <3>2. \A i \in Item : done'[i] /\ out'[i] = "none" =>
            \E v \in Worker : item'[v] = i /\ dying'[v] /\ pc'[v] \in {"release", "dead"}
      BY <1>0, <2>1, <2>3, <3>1
    <3>3. \A v \in Worker : pc'[v] \in Leaving /\ out'[item'[v]] = "none" => dying'[v]
      BY <2>1, <3>1
    <3> QED BY <2>1, <3>1, <3>2, <3>3 DEF Active, Leaving
  <2> QED BY <1>3, <2>4, <2>5, <2>6, InsideOutcome
<1>4. ASSUME NEW w \in Worker, Finish(w) PROVE OutInv'
  <2>1. /\ pc[w] = "lock" /\ pc' = [pc EXCEPT ![w] = "release"]
        /\ done' = [done EXCEPT ![item[w]] = TRUE]
        /\ UNCHANGED <<next, item, out, dying>>
    BY <1>4 DEF Finish, Goto
  <2>2. \A i \in Item : done'[i] /\ out'[i] = "none" =>
          \E v \in Worker : item'[v] = i /\ dying'[v] /\ pc'[v] \in {"release", "dead"}
    <3> SUFFICES ASSUME NEW i \in Item, done'[i], out[i] = "none"
                 PROVE \E v \in Worker : /\ item[v] = i /\ dying[v]
                                         /\ pc'[v] \in {"release", "dead"}
      BY <2>1
    <3>1. CASE i = item[w]
      BY <1>0, <2>1, <3>1 DEF Leaving
    <3>2. CASE i # item[w]
      <4>1. PICK v \in Worker : item[v] = i /\ dying[v] /\ pc[v] \in {"release", "dead"}
        BY <1>0, <2>1, <3>2
      <4> QED BY <1>0, <2>1, <4>1
    <3> QED BY <3>1, <3>2
  <2> QED BY <1>0, <2>1, <2>2 DEF Active, Leaving, ItemPC
<1>5. ASSUME NEW w \in Worker, ConsolePanic(w) \/ Publish(w) PROVE OutInv'
  BY <1>0, <1>1, <1>5 DEF ConsolePanic, Publish, Releasing, Goto, ItemPC, queue
<1>6. ASSUME NEW w \in Worker, Unlock(w) PROVE OutInv'
  <2>1. UNCHANGED <<next, out, done, dying, item>> BY <1>6 DEF Unlock
  <2>2. ASSUME NEW v \in Worker
        PROVE /\ pc'[v] \in ItemPC => pc[v] \in ItemPC
              /\ pc'[v] \in ItemPC => (pc'[v] \in Leaving <=> pc[v] \in Leaving)
              /\ pc[v] \in {"release", "dead"} /\ dying[v] => pc'[v] \in {"release", "dead"}
    BY <1>0, <1>6 DEF Unlock, ItemPC, Leaving
  <2> QED BY <1>1, <2>1, <2>2
<1>7. ASSUME NEW w \in Worker, Emit(w) \/ AdvanceTurn(w)
      PROVE UNCHANGED <<pc, next, out, done, dying, item>>
  BY <1>7 DEF Emit, AdvanceTurn, workerVars
<1>8. Join \/ Cancel \/ UNCHANGED vars
        => UNCHANGED <<pc, next, out, done, dying, item>>
  BY DEF Join, Cancel, vars, workerVars, queue
<1>9. UNCHANGED <<pc, next, out, done, dying, item>> => OutInv'
  BY <1>1
<1> QED
  BY <1>2, <1>3, <1>4, <1>5, <1>6, <1>7, <1>8, <1>9
  DEF Next, WorkerStep, FinishStep, Terminated

---------------------------------------------------------------------------
(* Joining: the batch is over only when every item has been claimed and    *)
(* finished, or somebody panicked.                                         *)

JoinInv ==
  /\ \A w \in Worker : pc[w] \in {"publish", "exited"} => next >= N
  /\ \A i \in Item : i < next /\ ~done[i] =>
       \E w \in Worker : item[w] = i /\ Active(w) /\ pc[w] # "release"
  /\ Joined => \A w \in Worker : pc[w] \in {"exited", "dead"}

LEMMA JoinStep ==
  ASSUME TypeOK, OrderInv, JoinInv, [Next]_vars PROVE JoinInv'
<1> USE DEF JoinInv, OrderInv
<1>0. /\ pc \in [Worker -> PC] /\ item \in [Worker -> Item]
      /\ done \in [Item -> BOOLEAN] /\ next \in Nat /\ N \in Nat
      /\ Item \subseteq Int
  BY BasicTypes
\* A worker that still takes steps has not been joined.
<1>1. ASSUME NEW w \in Worker, pc[w] \notin {"exited", "dead"}, result' = result
      PROVE ~Joined'
  BY <1>1 DEF Joined
<1>2. ASSUME NEW w \in Worker, Claim(w) PROVE JoinInv'
  <2>1. /\ pc[w] = "claim" /\ next' = next + 1 /\ UNCHANGED <<done, result>>
        /\ pc'[w] \in {"publish", "run"}
        /\ pc'[w] = "publish" => next >= N
        /\ \A v \in Worker \ {w} : pc'[v] = pc[v] /\ item'[v] = item[v]
    BY <1>0, <1>2 DEF Claim, Goto, NoMoreItems, queue
  <2>2. next < N => item'[w] = next /\ pc'[w] = "run"
    BY <1>0, <1>2 DEF Claim, Goto, NoMoreItems
  <2>3. ~Joined' BY <1>1, <2>1
  <2>4. \A v \in Worker : pc'[v] \in {"publish", "exited"} => next' >= N
    BY <1>0, <2>1
  <2>5. ASSUME NEW i \in Item, i < next', ~done'[i]
        PROVE \E v \in Worker : item'[v] = i /\ Active(v)' /\ pc'[v] # "release"
    <3>1. CASE i < next
      <4>1. PICK v \in Worker : item[v] = i /\ Active(v) /\ pc[v] # "release"
        BY <2>1, <2>5, <3>1
      <4>2. v # w BY <2>1, <4>1 DEF Active, ItemPC
      <4> QED BY <2>1, <4>1, <4>2 DEF Active
    <3>2. CASE ~(i < next)
      <4>1. i = next /\ next < N BY <1>0, <2>1, <2>5, <3>2 DEF Item
      <4> QED BY <2>2, <4>1 DEF Active, ItemPC
    <3> QED BY <3>1, <3>2
  <2> QED BY <2>3, <2>4, <2>5
<1>3. ASSUME NEW w \in Worker,
             \/ Tick(w) \/ Log(w) \/ Complete(w) \/ Panic(w) \/ CallStep(w)
      PROVE JoinInv'
  <2>1. /\ pc[w] \in ItemPC \ {"release"} /\ pc'[w] \in ItemPC \ {"release"}
        /\ \A v \in Worker \ {w} : pc'[v] = pc[v]
        /\ UNCHANGED <<next, item, done, result>>
    BY <1>3, InsideItem, InsideOutcome DEF queue
  <2>2. ~Joined' BY <1>1, <2>1 DEF ItemPC
  <2>3. \A v \in Worker : pc'[v] \in {"publish", "exited"} => next' >= N
    BY <2>1 DEF ItemPC
  <2>4. \A v \in Worker : Active(v) /\ pc[v] # "release" => Active(v)' /\ pc'[v] # "release"
    BY <2>1 DEF Active
  <2> QED BY <2>1, <2>2, <2>3, <2>4
<1>4. ASSUME NEW w \in Worker, Finish(w) PROVE JoinInv'
  <2>1. /\ pc[w] = "lock" /\ pc' = [pc EXCEPT ![w] = "release"]
        /\ done' = [done EXCEPT ![item[w]] = TRUE]
        /\ UNCHANGED <<next, item, result>>
    BY <1>4 DEF Finish, Goto
  <2>2. ~Joined' BY <1>1, <2>1
  <2>3. ASSUME NEW i \in Item, i < next', ~done'[i]
        PROVE \E v \in Worker : item'[v] = i /\ Active(v)' /\ pc'[v] # "release"
    <3>1. i # item[w] /\ i < next /\ ~done[i] BY <1>0, <2>1, <2>3
    <3>2. PICK v \in Worker : item[v] = i /\ Active(v) /\ pc[v] # "release"
      BY <3>1
    <3>3. v # w BY <3>1, <3>2
    <3> QED BY <1>0, <2>1, <3>2, <3>3 DEF Active
  <2>4. \A v \in Worker : pc'[v] \in {"publish", "exited"} => next' >= N
    BY <1>0, <2>1
  <2> QED BY <2>2, <2>3, <2>4
<1>5. ASSUME NEW w \in Worker, ConsolePanic(w) \/ Publish(w) \/ Unlock(w)
      PROVE JoinInv'
  <2>1. /\ pc[w] \in {"release", "publish"}
        /\ UNCHANGED <<next, item, done, result>>
    BY <1>5 DEF ConsolePanic, Publish, Unlock, Releasing, queue
  <2>2. ~Joined' BY <1>1, <2>1
  <2>3. \A v \in Worker : pc'[v] \in {"publish", "exited"} => pc[v] \in {"publish", "exited"}
    BY <1>0, <1>5 DEF ConsolePanic, Publish, Unlock, Goto
  <2>4. \A v \in Worker : Active(v) /\ pc[v] # "release" => Active(v)' /\ pc'[v] # "release"
    BY <1>0, <1>5 DEF ConsolePanic, Publish, Unlock, Goto, Active, ItemPC, Releasing
  <2> QED BY <2>1, <2>2, <2>3, <2>4
<1>6. CASE Join
  <2>1. /\ UNCHANGED <<pc, next, item, done>>
        /\ \A w \in Worker : pc[w] \in {"exited", "dead"}
    BY <1>6 DEF Join, workerVars, queue
  <2> QED BY <2>1 DEF Active
<1>7. ASSUME NEW w \in Worker, Emit(w) \/ AdvanceTurn(w)
      PROVE UNCHANGED <<pc, next, item, done, result>>
  BY <1>7 DEF Emit, AdvanceTurn, workerVars
<1>8. Cancel \/ UNCHANGED vars => UNCHANGED <<pc, next, item, done, result>>
  BY DEF Cancel, vars, workerVars, queue
<1>9. UNCHANGED <<pc, next, item, done, result>> => JoinInv'
  BY DEF Active, Joined
<1> QED
  BY <1>2, <1>3, <1>4, <1>5, <1>6, <1>7, <1>8, <1>9
  DEF Next, WorkerStep, FinishStep, Terminated

LEMMA OutcomeInit == Init => DyingInv /\ OutInv /\ JoinInv
<1> SUFFICES ASSUME Init PROVE DyingInv /\ OutInv /\ JoinInv
  OBVIOUS
<1>1. \A w \in Worker : pc[w] = "claim" /\ ~dying[w] BY DEF Init
<1>2. \A i \in Item : ~(i < next) /\ ~done[i] /\ out[i] = "none"
  BY DEF Init, Item
<1>3. ~Joined BY DEF Init, Joined
<1> QED BY <1>1, <1>2, <1>3 DEF DyingInv, OutInv, JoinInv, Active, ItemPC, Leaving

OutcomeInv == DyingInv /\ OutInv /\ JoinInv

\* At every moment of a batch, whichever workers run it, an item is without an
\* outcome only while it is waiting, running, or lost to a panic.
THEOREM OutcomeInvariant == Spec => []OutcomeInv
<1>1. TypeOK /\ OrderInv /\ OutcomeInv /\ [Next]_vars => OutcomeInv'
  BY DyingStep, OutStep, JoinStep DEF OutcomeInv
<1> QED BY <1>1, OutcomeInit, TypeCorrect, OrderInvariant, PTL DEF Spec, OutcomeInv

\* Once joined without a panic every worker has left by the claim loop, and
\* every item was claimed and finished.
LEMMA AllJoined ==
  ASSUME TypeOK, OutcomeInv, Joined, ~panicked
  PROVE  /\ \A w \in Worker : pc[w] = "exited"
         /\ \A i \in Item : done[i] /\ out[i] # "none"
<1>0. next \in Nat /\ N \in Nat /\ Item = 0..(N - 1) BY BasicTypes
<1>1. \A w \in Worker : pc[w] = "exited"
  BY DEF OutcomeInv, DyingInv, JoinInv
<1>2. \E w \in Worker : TRUE
  <2>1. Cardinality(Worker) # 0
    <3>1. \A c : c \in 2..N => c # 0 OBVIOUS
    <3> QED BY <3>1, WorkerAssumption
  <2> QED BY <2>1, FS_EmptySet
<1>3. next >= N BY <1>1, <1>2 DEF OutcomeInv, JoinInv
<1>4. \A i \in Item : i < next BY <1>0, <1>3
<1>5. \A i \in Item : done[i]
  BY <1>1, <1>4 DEF OutcomeInv, JoinInv, Active, ItemPC
<1>6. \A i \in Item : out[i] # "none"
  BY <1>1, <1>5 DEF OutcomeInv, OutInv
<1> QED BY <1>1, <1>5, <1>6

\* A failing item does not stop its siblings: when the batch returns without a
\* panic, every item of it was run, finished and left its outcome.
THEOREM EveryItemIsRun == Spec => []EveryItemRuns
<1>1. TypeOK /\ OutcomeInv => EveryItemRuns
  BY AllJoined DEF EveryItemRuns
<1> QED BY <1>1, TypeCorrect, OutcomeInvariant, PTL

---------------------------------------------------------------------------
(* A fatal error surfaces.                                                 *)

\* After the join no worker takes a step.
LEMMA JoinedStops ==
  ASSUME OutcomeInv, Joined, NEW w \in Worker PROVE ~WorkerStep(w)
<1>1. pc[w] \in {"exited", "dead"} BY DEF OutcomeInv, JoinInv
<1> QED
  BY <1>1 DEF WorkerStep, CallStep, FinishStep, Claim, Publish, Tick, Log,
     Complete, Panic, Call, Wait, Flush, Check, Load, CompareAndSwap, Return,
     ReturnUncatchable, ReturnFatal, Finish, Emit, ConsolePanic, AdvanceTurn,
     Unlock, At, Releasing

\* An outcome is written once.
LEMMA OutcomeKept ==
  ASSUME TypeOK, OutcomeInv, [Next]_vars, NEW i \in Item, out[i] # "none"
  PROVE  out'[i] = out[i]
<1>0. item \in [Worker -> Item] /\ out \in [Item -> Outcome] BY BasicTypes
<1>1. ASSUME NEW w \in Worker,
             \/ Tick(w) \/ Log(w) \/ Complete(w) \/ Panic(w) \/ CallStep(w)
      PROVE out'[i] = out[i]
  <2>1. out[item[w]] = "none"
    BY <1>1, InsideOutcome DEF OutcomeInv, OutInv, Active
  <2>2. out' = out \/ \E o \in Outcome : out' = [out EXCEPT ![item[w]] = o]
    BY <1>1, InsideOutcome DEF StaysInside, EndsWith, Panics
  <2> QED BY <1>0, <2>1, <2>2
<1>2. ASSUME NEW w \in Worker, Claim(w) \/ Publish(w) \/ FinishStep(w)
      PROVE out' = out
  BY <1>2 DEF Claim, Publish, FinishStep, Finish, Emit, ConsolePanic,
     AdvanceTurn, Unlock
<1>3. Join \/ Cancel \/ UNCHANGED vars => out' = out
  BY DEF Join, Cancel, vars
<1> QED BY <1>1, <1>2, <1>3 DEF Next, WorkerStep, Terminated

\* How a worker's step writes an outcome: only by ending its item.
LEMMA OutcomeWriter ==
  ASSUME NEW w \in Worker, WorkerStep(w)
  PROVE  /\ batch' = batch
         /\ \/ out' = out
            \/ \E o \in {"value", "throw", "plain"} :
                 out' = [out EXCEPT ![item[w]] = Settle(o)]
<1>1. CASE Claim(w) \/ Publish(w) \/ Panic(w) \/ Call(w) \/ Wait(w)
           \/ CompareAndSwap(w) \/ FinishStep(w)
  BY <1>1 DEF Claim, Publish, Panic, Call, Wait, CompareAndSwap, FinishStep,
     Finish, Emit, ConsolePanic, AdvanceTurn, Unlock
<1>2. CASE Tick(w) \/ Log(w) \/ Complete(w) \/ Flush(w) \/ Check(w) \/ Load(w)
           \/ Return(w) \/ ReturnUncatchable(w) \/ ReturnFatal(w)
  <2>1. /\ batch' = batch
        /\ out' = out \/ \E o \in {"value", "throw", "plain"} : EndItem(w, o)
    BY <1>2 DEF Tick, Log, Complete, Flush, Check, Load, Return,
       ReturnUncatchable, ReturnFatal, Thrown, Advance
  <2> QED BY <2>1 DEF EndItem
<1> QED BY <1>1, <1>2 DEF WorkerStep, CallStep

\* An item of allSettled ends in a record or fails for good.
SettledInv == batch.settled => \A i \in Item : out[i] # "throw"

LEMMA SettledStep ==
  ASSUME TypeOK, SettledInv, [Next]_vars PROVE SettledInv'
<1> USE DEF SettledInv
<1>1. ASSUME NEW w \in Worker, WorkerStep(w) PROVE SettledInv'
  <2>1. batch' = batch BY <1>1, OutcomeWriter
  <2>2. CASE out' = out BY <2>1, <2>2
  <2>3. ASSUME NEW o \in {"value", "throw", "plain"},
               out' = [out EXCEPT ![item[w]] = Settle(o)]
        PROVE  SettledInv'
    <3>1. batch.settled => Settle(o) # "throw" BY DEF Settle
    <3> QED BY <2>1, <2>3, <3>1, BasicTypes
  <2> QED BY <1>1, <2>2, <2>3, OutcomeWriter
<1>2. Join \/ Cancel \/ UNCHANGED vars => UNCHANGED <<batch, out>>
  BY DEF Join, Cancel, vars
<1> QED BY <1>1, <1>2 DEF Next, Terminated

\* What the batch returns and why: a panic, a cancellation, an array of items
\* that all succeeded, or the failure of the first item that failed.
ResultInv ==
  Joined =>
    \/ result = "panic" /\ panicked
    \/ result = "cancelled" /\ cancelled
    \/ result = "array" /\ Failed = {}
    \/ \E i \in Failed : (\A j \in Failed : i <= j) /\ result = out[i]

LEMMA ResultStep ==
  ASSUME OutcomeInv, ResultInv, [Next]_vars PROVE ResultInv'
<1> USE DEF ResultInv
<1>1. CASE Joined
  <2>1. UNCHANGED <<result, panicked, cancelled, out>>
    BY <1>1, JoinedStops DEF Next, Join, Cancel, Terminated, Joined, vars, flags
  <2> QED BY <1>1, <2>1 DEF Joined, Failed
<1>2. CASE ~Joined
  <2>1. ASSUME NEW w \in Worker, WorkerStep(w) PROVE result' = result
    BY <2>1 DEF WorkerStep, CallStep, FinishStep, Claim, Publish, Tick, Log,
       Complete, Panic, Call, Wait, Flush, Check, Load, CompareAndSwap, Return,
       ReturnUncatchable, ReturnFatal, Finish, Emit, ConsolePanic, AdvanceTurn,
       Unlock
  <2>2. CASE Join BY <2>2 DEF Join, flags, Joined, Failed
  <2>3. Cancel \/ UNCHANGED vars => result' = result BY DEF Cancel, vars
  <2> QED BY <1>2, <2>1, <2>2, <2>3 DEF Next, Terminated, Joined
<1> QED BY <1>1, <1>2

\* The item on record when the host error stopped the execution failed for
\* good.
FatalInv ==
  /\ aborted => fatal \in Item
  /\ fatal \in Item => out[fatal] = "plain"

LEMMA FatalStep ==
  ASSUME TypeOK, OutcomeInv, FatalInv, [Next]_vars PROVE FatalInv'
<1> USE DEF FatalInv
<1>0. /\ item \in [Worker -> Item] /\ out \in [Item -> Outcome]
      /\ fatal \in Item \cup {NoItem} /\ NoItem \notin Item
  BY BasicTypes, BatchAssumption DEF TypeOK, SharedOK
<1>1. ASSUME NEW w \in Worker, ReturnFatal(w) PROVE FatalInv'
  <2>1. aborted' /\ fatal' = IF fatal = NoItem THEN item[w] ELSE fatal
    BY <1>1 DEF ReturnFatal
  <2>2. out' = [out EXCEPT ![item[w]] = "plain"]
    BY <1>1 DEF ReturnFatal, EndItem, Settle
  <2>3. fatal' \in Item /\ out'[fatal'] = "plain" BY <1>0, <2>1, <2>2
  <2> QED BY <2>3
<1>2. ASSUME UNCHANGED <<aborted, fatal>> PROVE FatalInv'
  BY <1>2, OutcomeKept
<1>3. ASSUME NEW w \in Worker, WorkerStep(w), ~ReturnFatal(w) PROVE FatalInv'
  BY <1>2, <1>3 DEF WorkerStep, CallStep, FinishStep, Claim, Publish, Tick, Log,
     Complete, Panic, Call, Wait, Flush, Check, Load, CompareAndSwap, Return,
     ReturnUncatchable, Finish, Emit, ConsolePanic, AdvanceTurn, Unlock, flags
<1>4. CASE Join \/ Cancel \/ UNCHANGED vars
  BY <1>2, <1>4 DEF Join, Cancel, vars, flags
<1> QED BY <1>1, <1>3, <1>4 DEF Next, WorkerStep, CallStep, Terminated

\* The fatal flag is never up without the failed item that raised it, no item
\* of allSettled is left with an exception, and what the batch returns is the
\* first failure unless a panic or a cancellation is.
THEOREM FatalInvariant == Spec => [](FatalInv /\ SettledInv /\ ResultInv)
<1>1. Init => FatalInv /\ SettledInv /\ ResultInv
  BY BatchAssumption DEF Init, FatalInv, SettledInv, ResultInv, Joined
<1>2. TypeOK /\ OutcomeInv /\ FatalInv /\ SettledInv /\ ResultInv /\ [Next]_vars
        => FatalInv' /\ SettledInv' /\ ResultInv'
  BY FatalStep, SettledStep, ResultStep
<1> QED BY <1>1, <1>2, TypeCorrect, OutcomeInvariant, PTL DEF Spec

\* Whenever a host error stopped the execution its item is on record as failed
\* for good, and the batch reports that failure, a panic, a cancellation, or
\* the failure of an item before it: an uncatchable one, or an exception where
\* the call is Promise.all.
THEOREM FatalAlwaysSurfaces == Spec => []FatalSurfaces
<1>1. TypeOK /\ FatalInv /\ SettledInv /\ ResultInv => FatalSurfaces
  <2> SUFFICES ASSUME TypeOK, FatalInv, SettledInv, ResultInv, Joined, aborted
               PROVE  FatalSurfaces
    BY DEF FatalSurfaces
  <2>1. fatal \in Item /\ out[fatal] = "plain" BY DEF FatalInv
  <2>2. fatal \in Failed /\ fatal # NoItem
    BY <2>1, BatchAssumption DEF Failed
  <2>3. ASSUME NEW i \in Failed, \A j \in Failed : i <= j, result = out[i]
        PROVE  /\ i \in Item /\ i <= fatal /\ result = out[i]
               /\ out[i] = "plain" \/ (out[i] = "throw" /\ ~batch.settled)
    BY <2>2, <2>3 DEF Failed, SettledInv
  <2> QED BY <2>1, <2>2, <2>3 DEF ResultInv, FatalSurfaces
<1> QED BY <1>1, TypeCorrect, FatalInvariant, PTL

---------------------------------------------------------------------------
(* The sequencer's mutex.  Whoever holds it is releasing lines, or died in *)
(* the host's console; while it is free the turn is at an unfinished item. *)

LockInv ==
  /\ \A w \in Worker : pc[w] = "release" => mu = w
  /\ mu # NoWorker => pc[mu] \in {"release", "dead"}
  /\ mu = NoWorker /\ turn \in Item => ~done[turn]
  /\ ConsoleDead => turn \in Item /\ done[turn]

LEMMA LockInit == Init => LockInv
<1> SUFFICES ASSUME Init PROVE LockInv
  OBVIOUS
<1>1. \A w \in Worker : pc[w] = "claim" BY DEF Init
<1>2. mu = NoWorker /\ \A i \in Item : ~done[i] BY DEF Init
<1> QED BY <1>1, <1>2 DEF LockInv, ConsoleDead

LEMMA LockStep ==
  ASSUME TypeOK, LockInv, [Next]_vars PROVE LockInv'
<1> USE DEF LockInv, ConsoleDead
<1>0. /\ pc \in [Worker -> PC] /\ item \in [Worker -> Item]
      /\ done \in [Item -> BOOLEAN] /\ turn \in 0..N /\ NoWorker \notin Worker
      /\ mu \in Worker \cup {NoWorker}
  BY BasicTypes
\* Enough when a worker that does not hold the mutex moves on by itself.
<1>1. ASSUME NEW w \in Worker, UNCHANGED queue, pc[w] \notin {"release", "dead"},
             pc'[w] # "release", \A v \in Worker \ {w} : pc'[v] = pc[v]
      PROVE LockInv'
  BY <1>0, <1>1 DEF queue
<1>2. ASSUME NEW w \in Worker, Claim(w) \/ Publish(w) PROVE LockInv'
  BY <1>0, <1>1, <1>2 DEF Claim, Publish, Goto
<1>3. ASSUME NEW w \in Worker,
             \/ Tick(w) \/ Log(w) \/ Complete(w) \/ Panic(w) \/ CallStep(w)
      PROVE LockInv'
  <2>1. pc[w] \notin {"release", "dead"} /\ pc'[w] # "release"
    BY <1>3, InsideItem DEF ItemPC
  <2> QED BY <1>1, <1>3, <2>1, InsideItem
<1>4. ASSUME NEW w \in Worker, Finish(w) PROVE LockInv'
  <2>1. /\ mu = NoWorker /\ mu' = w /\ pc' = [pc EXCEPT ![w] = "release"]
    BY <1>4 DEF Finish, Goto
  <2>2. \A v \in Worker : pc[v] # "release" BY <1>0, <2>1
  <2> QED BY <1>0, <2>1, <2>2
<1>5. ASSUME NEW w \in Worker, Emit(w) PROVE LockInv'
  <2>1. mu = w /\ pc[w] = "release" /\ UNCHANGED <<pc, mu>>
    BY <1>5 DEF Emit, Releasing, workerVars
  <2> QED BY <1>0, <2>1
<1>6. ASSUME NEW w \in Worker, AdvanceTurn(w) PROVE LockInv'
  <2>1. mu = w /\ pc[w] = "release" /\ UNCHANGED <<pc, mu>>
    BY <1>6 DEF AdvanceTurn, Releasing, workerVars
  <2> QED BY <1>0, <2>1
<1>7. ASSUME NEW w \in Worker, ConsolePanic(w) PROVE LockInv'
  <2>1. /\ pc[w] = "release" /\ mu = w /\ UNCHANGED queue
        /\ pc' = [pc EXCEPT ![w] = "dead"] /\ turn < N /\ done[turn]
    BY <1>7 DEF ConsolePanic, Releasing, Goto
  <2>2. turn \in Item BY <2>1, TurnItem
  <2> QED BY <1>0, <2>1, <2>2 DEF queue
<1>8. ASSUME NEW w \in Worker, Unlock(w) PROVE LockInv'
  <2>1. mu = w /\ mu' = NoWorker /\ UNCHANGED <<turn, done>>
    BY <1>8 DEF Unlock
  <2>2. turn \in Item => ~done[turn]
    BY <1>8, TurnItem DEF Unlock, Releasing
  <2>3. \A v \in Worker : pc'[v] # "release"
    BY <1>0, <1>8, <2>1 DEF Unlock
  <2> QED BY <2>1, <2>2, <2>3
<1>9. Join \/ Cancel \/ UNCHANGED vars => UNCHANGED <<pc, queue>>
  BY DEF Join, Cancel, vars, workerVars
<1>10. UNCHANGED <<pc, queue>> => LockInv'
  BY DEF queue
<1> QED
  BY <1>2, <1>3, <1>4, <1>5, <1>6, <1>7, <1>8, <1>9, <1>10
  DEF Next, WorkerStep, FinishStep, Terminated

\* The mutex of the sequencer is held by the worker in its critical section, or
\* for good by one that died there, and between sections no turn is owed.
THEOREM LockInvariant == Spec => []LockInv
<1>1. TypeOK /\ LockInv /\ [Next]_vars => LockInv' BY LockStep
<1> QED BY <1>1, LockInit, TypeCorrect, PTL DEF Spec

\* Only a swap before an ordered effect, and a released line, reach the host.
LEMMA TraceWriters ==
  ASSUME [Next]_vars, trace' # trace
  PROVE  \E w \in Worker :
           \/ /\ CompareAndSwap(w) /\ CurrentOp(w) \in OrderedOp
              /\ trace' = Append(trace, <<"effect", item[w], ip[w]>>)
           \/ Emit(w)
<1>1. ASSUME NEW w \in Worker, CompareAndSwap(w)
      PROVE  /\ CurrentOp(w) \in OrderedOp
             /\ trace' = Append(trace, <<"effect", item[w], ip[w]>>)
  BY <1>1 DEF CompareAndSwap, BeginDispatch
<1>2. ASSUME NEW w \in Worker, WorkerStep(w), ~CompareAndSwap(w), ~Emit(w)
      PROVE trace' = trace
  BY <1>2 DEF WorkerStep, CallStep, FinishStep, Claim, Publish, Tick, Log,
     Complete, Panic, Call, Wait, Flush, Check, Load, Return, ReturnUncatchable,
     ReturnFatal, Finish, ConsolePanic, AdvanceTurn, Unlock, history
<1>3. Join \/ Cancel \/ UNCHANGED vars => trace' = trace
  BY DEF Join, Cancel, vars, history
<1> QED BY <1>1, <1>2, <1>3 DEF Next, Terminated

\* The item whose turn it is when a worker performs an ordered effect.
LEMMA EffectAtTurn ==
  ASSUME TypeOK, OrderInv, NEW w \in Worker, pc[w] \in EffectPC,
         CurrentOp(w) \in OrderedOp
  PROVE  item[w] = turn /\ item[w] \in Item /\ ~done[item[w]] /\ item[w] < next
<1>1. /\ item[w] \in Item /\ item[w] <= turn /\ ~done[item[w]]
      /\ item[w] < next
  BY BasicTypes DEF OrderInv, TurnInv, ClaimInv, EffectPC, Active, ItemPC
<1>2. ~(item[w] < turn) BY <1>1 DEF OrderInv, QueueInv
<1>3. item[w] \in Int /\ turn \in Int BY <1>1, BasicTypes
<1> QED BY <1>1, <1>2, <1>3

\* A console that panicked holds the mutex and the turn for good: from then on
\* no ordered effect begins and no line comes out, out of turn or in it.
THEOREM DeadConsoleIsSilent == Spec => ConsolePanicStopsEffects
<1>1. ASSUME TypeOK, OrderInv, LockInv, [Next]_vars
      PROVE  ConsoleDead => UNCHANGED trace
  <2> SUFFICES ASSUME ConsoleDead, trace' # trace PROVE FALSE
    OBVIOUS
  <2>1. PICK w \in Worker :
          \/ CompareAndSwap(w) /\ CurrentOp(w) \in OrderedOp
          \/ Emit(w)
    BY <1>1, TraceWriters
  <2>2. CASE CompareAndSwap(w) /\ CurrentOp(w) \in OrderedOp
    <3>1. pc[w] \in EffectPC BY <2>2 DEF CompareAndSwap, EffectPC
    <3>2. item[w] = turn /\ ~done[turn] BY <1>1, <2>2, <3>1, EffectAtTurn
    <3> QED BY <1>1, <3>2 DEF LockInv
  <2>3. CASE Emit(w)
    BY <1>1, <2>3 DEF Emit, Releasing, LockInv, ConsoleDead
  <2> QED BY <2>1, <2>2, <2>3
<1> QED BY <1>1, TypeCorrect, OrderInvariant, LockInvariant, PTL
    DEF Spec, ConsolePanicStopsEffects

---------------------------------------------------------------------------
(* Steps.  The steps a worker has taken and not yet published are kept as  *)
(* pairs, so that their total over the workers is the size of a set.       *)

Held(S, f) == {p \in S \X Nat : 1 <= p[2] /\ p[2] <= f[p[1]]}

LEMMA WorkerCount ==
  /\ IsFiniteSet(Worker) /\ Cardinality(Worker) \in Nat
  /\ \A S \in SUBSET Worker : /\ IsFiniteSet(S) /\ Cardinality(S) \in Nat
                              /\ Cardinality(S) <= Cardinality(Worker)
  BY WorkerAssumption, FS_Subset, FS_CardinalityType

LEMMA HeldFinite ==
  ASSUME NEW S \in SUBSET Worker, NEW B \in Nat, NEW f \in [Worker -> 0..B]
  PROVE  IsFiniteSet(Held(S, f)) /\ Cardinality(Held(S, f)) \in Nat
<1>1. IsFiniteSet(1..B) BY FS_Interval
<1>2. IsFiniteSet(S \X (1..B)) BY <1>1, WorkerCount, FS_Product
<1>3. Held(S, f) \in SUBSET (S \X (1..B))
  <2> SUFFICES ASSUME NEW p \in S \X Nat, 1 <= p[2], p[2] <= f[p[1]]
               PROVE  p \in S \X (1..B)
    BY DEF Held
  <2>1. p[1] \in S /\ p[2] \in Nat /\ p = <<p[1], p[2]>> OBVIOUS
  <2>2. f[p[1]] \in 0..B BY <2>1
  <2>3. p[2] \in 1..B BY <2>1, <2>2
  <2> QED BY <2>1, <2>3
<1> QED BY <1>2, <1>3, FS_Subset, FS_CardinalityType

\* One step more.
LEMMA HeldAdd ==
  ASSUME NEW S \in SUBSET Worker, NEW B \in Nat, NEW f \in [Worker -> 0..B],
         NEW w \in S
  PROVE  Cardinality(Held(S, [f EXCEPT ![w] = f[w] + 1])) = Cardinality(Held(S, f)) + 1
<1> DEFINE g == [f EXCEPT ![w] = f[w] + 1]
           e == <<w, f[w] + 1>>
<1>1. w \in Worker /\ f[w] \in Nat OBVIOUS
<1>2. g[w] = f[w] + 1 /\ \A v \in S \ {w} : g[v] = f[v] OBVIOUS
<1> HIDE DEF g
<1>3. Held(S, g) = Held(S, f) \cup {e}
  <2>1. ASSUME NEW p \in S \X Nat
        PROVE  p \in Held(S, g) <=> p \in Held(S, f) \cup {e}
    <3>1. p[1] \in S /\ p[2] \in Nat /\ p = <<p[1], p[2]>> OBVIOUS
    <3>2. CASE p[1] = w
      <4>1. p = e <=> p[2] = f[w] + 1 BY <3>1, <3>2
      <4>2. p[2] <= f[w] + 1 <=> p[2] <= f[w] \/ p[2] = f[w] + 1
        BY <1>1, <3>1
      <4>3. p[2] = f[w] + 1 => 1 <= p[2] BY <1>1
      <4> QED BY <1>2, <3>2, <4>1, <4>2, <4>3 DEF Held
    <3>3. CASE p[1] # w
      <4>1. p # e BY <3>3
      <4> QED BY <1>2, <3>1, <3>3, <4>1 DEF Held
    <3> QED BY <3>2, <3>3
  <2>2. Held(S, g) \subseteq S \X Nat /\ Held(S, f) \subseteq S \X Nat
    BY DEF Held
  <2>3. e \in S \X Nat BY <1>1
  <2> QED BY <2>1, <2>2, <2>3
<1>4. e \notin Held(S, f)
  <2>1. ~(f[w] + 1 <= f[w]) BY <1>1
  <2> QED BY <2>1 DEF Held
<1> QED BY <1>3, <1>4, HeldFinite, FS_AddElement DEF g

\* One worker less.
LEMMA HeldDrop ==
  ASSUME NEW S \in SUBSET Worker, NEW B \in Nat, NEW f \in [Worker -> 0..B],
         NEW w \in S
  PROVE  Cardinality(Held(S \ {w}, f)) = Cardinality(Held(S, f)) - f[w]
<1> DEFINE own == {w} \X (1..f[w])
<1>1. w \in Worker /\ f[w] \in Nat OBVIOUS
<1>2. Cardinality(own) = f[w]
  <2>1. IsFiniteSet(1..f[w]) /\ Cardinality(1..f[w]) = f[w]
    BY <1>1, FS_Interval
  <2>2. IsFiniteSet({w}) /\ Cardinality({w}) = 1 BY FS_Singleton
  <2>3. Cardinality(own) = 1 * f[w] BY <2>1, <2>2, FS_Product
  <2> QED BY <1>1, <2>3
<1>3. own \subseteq Held(S, f)
  <2> SUFFICES ASSUME NEW n \in 1..f[w] PROVE <<w, n>> \in Held(S, f)
    OBVIOUS
  <2>1. n \in Nat /\ 1 <= n /\ n <= f[w] BY <1>1
  <2> QED BY <2>1 DEF Held
<1>4. Held(S \ {w}, f) = Held(S, f) \ own
  <2>1. ASSUME NEW p \in S \X Nat
        PROVE  p \in Held(S \ {w}, f) <=> p \in Held(S, f) \ own
    <3>1. p[1] \in S /\ p[2] \in Nat /\ p = <<p[1], p[2]>> OBVIOUS
    <3>2. CASE p[1] = w
      <4>1. p \notin Held(S \ {w}, f) BY <3>2 DEF Held
      <4>2. p \in Held(S, f) => p \in own
        <5>1. p \in Held(S, f) => p[2] \in 1..f[w] BY <1>1, <3>1, <3>2 DEF Held
        <5> QED BY <3>1, <3>2, <5>1
      <4> QED BY <4>1, <4>2
    <3>3. CASE p[1] # w
      <4>1. p \notin own BY <3>3
      <4>2. p \in (S \ {w}) \X Nat BY <3>1, <3>3
      <4> QED BY <4>1, <4>2 DEF Held
    <3> QED BY <3>2, <3>3
  <2>2. Held(S \ {w}, f) \subseteq S \X Nat /\ Held(S, f) \subseteq S \X Nat
    BY DEF Held
  <2> QED BY <2>1, <2>2
<1>5. Held(S, f) \cap own = own BY <1>3
<1>6. Cardinality(Held(S, f) \ own) = Cardinality(Held(S, f)) - Cardinality(Held(S, f) \cap own)
  <2>1. IsFiniteSet(Held(S, f)) BY HeldFinite
  <2> QED BY <2>1, FS_Difference
<1> QED BY <1>2, <1>4, <1>5, <1>6

\* A worker whose count is reset holds nothing any more.
LEMMA HeldReset ==
  ASSUME NEW S \in SUBSET Worker, NEW B \in Nat, NEW f \in [Worker -> 0..B],
         NEW w \in S
  PROVE  Cardinality(Held(S, [f EXCEPT ![w] = 0])) = Cardinality(Held(S, f)) - f[w]
<1> DEFINE g == [f EXCEPT ![w] = 0]
<1>1. g[w] = 0 /\ \A v \in S \ {w} : g[v] = f[v] OBVIOUS
<1> HIDE DEF g
<1>2. Held(S, g) = Held(S \ {w}, f)
  <2>1. ASSUME NEW p \in S \X Nat
        PROVE  p \in Held(S, g) <=> p \in Held(S \ {w}, f)
    <3>1. p[1] \in S /\ p[2] \in Nat /\ p = <<p[1], p[2]>> OBVIOUS
    <3>2. CASE p[1] = w BY <1>1, <3>1, <3>2 DEF Held
    <3>3. CASE p[1] # w
      <4>1. p \in (S \ {w}) \X Nat BY <3>1, <3>3
      <4> QED BY <1>1, <3>1, <3>3, <4>1 DEF Held
    <3> QED BY <3>2, <3>3
  <2>2. Held(S, g) \subseteq S \X Nat /\ Held(S \ {w}, f) \subseteq S \X Nat
    BY DEF Held
  <2> QED BY <2>1, <2>2
<1> QED BY <1>2, HeldDrop DEF g

Exited == {w \in Worker : pc[w] = "exited"}

\* A worker publishes as soon as it holds StepBatch steps, and every step is
\* published or held by a worker that can still publish it.
StepInv ==
  /\ \A w \in Worker :
       pending[w] <= IF pc[w] = "flush" THEN StepBatch ELSE StepBatch - 1
  /\ steps + Cardinality(Held(Worker \ Exited, pending)) = ticks

\* The steps that neither take nor publish one.
LEMMA QuietStep ==
  ASSUME TypeOK, [Next]_vars,
         \A w \in Worker : ~Tick(w) /\ ~Flush(w) /\ ~Publish(w)
  PROVE  /\ UNCHANGED <<pending, steps, ticks>>
         /\ \A v \in Worker : /\ pc'[v] = "exited" <=> pc[v] = "exited"
                              /\ pc[v] = "flush" => pc'[v] = "flush"
<1> USE DEF counters, history, workerVars
<1>0. pc \in [Worker -> PC] BY BasicTypes
<1>1. ASSUME NEW w \in Worker, Log(w) \/ Complete(w) \/ Panic(w) \/ CallStep(w)
      PROVE  /\ UNCHANGED <<pending, steps, ticks>>
             /\ \A v \in Worker : /\ pc'[v] = "exited" <=> pc[v] = "exited"
                                  /\ pc[v] = "flush" => pc'[v] = "flush"
  <2>1. UNCHANGED <<pending, steps, ticks>>
    BY <1>1 DEF Log, Complete, Panic, CallStep, Call, Wait, Check, Load,
       CompareAndSwap, BeginDispatch, Return, ReturnUncatchable, ReturnFatal
  <2>2. pc[w] # "flush"
    BY <1>1 DEF Log, Complete, Panic, CallStep, Call, Wait, Check, Load,
       CompareAndSwap, Return, ReturnUncatchable, ReturnFatal, At
  <2> QED BY <1>1, <2>1, <2>2, InsideItem DEF ItemPC
<1>2. ASSUME NEW w \in Worker, Claim(w) \/ FinishStep(w)
      PROVE  /\ UNCHANGED <<pending, steps, ticks>>
             /\ \A v \in Worker : /\ pc'[v] = "exited" <=> pc[v] = "exited"
                                  /\ pc[v] = "flush" => pc'[v] = "flush"
  <2>1. UNCHANGED <<pending, steps, ticks>>
    BY <1>2 DEF Claim, FinishStep, Finish, Emit, ConsolePanic, AdvanceTurn, Unlock
  <2>2. CASE Claim(w) \/ Finish(w) \/ ConsolePanic(w)
    BY <1>0, <2>1, <2>2 DEF Claim, Finish, ConsolePanic, Releasing, Goto
  <2>3. CASE Emit(w) \/ AdvanceTurn(w)
    BY <2>1, <2>3 DEF Emit, AdvanceTurn
  <2>4. CASE Unlock(w)
    BY <1>0, <2>1, <2>4 DEF Unlock
  <2> QED BY <1>2, <2>2, <2>3, <2>4 DEF FinishStep
<1>3. Join \/ Cancel \/ UNCHANGED vars => UNCHANGED <<pc, pending, steps, ticks>>
  BY DEF Join, Cancel, vars
<1> QED BY <1>1, <1>2, <1>3 DEF Next, WorkerStep, Terminated

LEMMA StepStep ==
  ASSUME TypeOK, StepInv, [Next]_vars PROVE StepInv'
<1> USE DEF StepInv
<1> DEFINE still == Worker \ Exited
<1>0. /\ pc \in [Worker -> PC] /\ pending \in [Worker -> Nat]
      /\ steps \in Nat /\ ticks \in Nat /\ StepBatch \in Nat \ {0}
  BY BasicTypes, BatchAssumption DEF TypeOK, SharedOK, HistoryOK
<1>1. pending \in [Worker -> 0..StepBatch]
  <2>1. \A w \in Worker : pending[w] \in 0..StepBatch
    <3> SUFFICES ASSUME NEW w \in Worker PROVE pending[w] \in 0..StepBatch
      OBVIOUS
    <3>1. pending[w] \in Nat BY <1>0
    <3>2. pending[w] <= StepBatch \/ pending[w] <= StepBatch - 1 OBVIOUS
    <3> QED BY <1>0, <3>1, <3>2
  <2> QED BY <1>0, <2>1
<1>2. still \in SUBSET Worker /\ Cardinality(Held(still, pending)) \in Nat
  BY <1>0, <1>1, HeldFinite
<1>3. ASSUME NEW w \in Worker, Tick(w) PROVE StepInv'
  <2>1. /\ pc[w] = "run" /\ ticks' = ticks + 1 /\ steps' = steps
        /\ pending' = [pending EXCEPT ![w] = pending[w] + 1]
        /\ pc'[w] = IF pending[w] + 1 < StepBatch THEN "run" ELSE "flush"
        /\ \A v \in Worker \ {w} : pc'[v] = pc[v]
    BY <1>0, <1>3 DEF Tick, At, Advance, Goto, counters
  <2>2. still' = still /\ w \in still BY <2>1 DEF Exited
  <2>3. Cardinality(Held(still, pending)') = Cardinality(Held(still, pending)) + 1
    <3>1. Held(still, pending)' = Held(still, [pending EXCEPT ![w] = pending[w] + 1])
      BY <2>1, <2>2 DEF Held
    <3>2. Cardinality(Held(still, [pending EXCEPT ![w] = pending[w] + 1])) = Cardinality(Held(still, pending)) + 1
      BY <1>0, <1>1, <2>2, HeldAdd
    <3> QED BY <3>1, <3>2
  <2>4. pending[w] \in Nat /\ pending[w] <= StepBatch - 1 BY <1>0, <2>1
  <2>5. pending'[w] <= IF pc'[w] = "flush" THEN StepBatch ELSE StepBatch - 1
    BY <1>0, <2>1, <2>4
  <2>6. \A v \in Worker : pending'[v] <= IF pc'[v] = "flush" THEN StepBatch ELSE StepBatch - 1
    BY <1>0, <2>1, <2>5
  <2> QED BY <1>0, <1>2, <2>1, <2>2, <2>3, <2>6
<1>4. ASSUME NEW w \in Worker, Flush(w) PROVE StepInv'
  <2>1. /\ pc[w] = "flush" /\ steps' = steps + pending[w] /\ ticks' = ticks
        /\ pending' = [pending EXCEPT ![w] = 0]
        /\ pc'[w] \in {"lock", "check"}
        /\ \A v \in Worker \ {w} : pc'[v] = pc[v]
    BY <1>0, <1>4 DEF Flush, EndItem, Goto, history
  <2>2. still' = still /\ w \in still BY <2>1 DEF Exited
  <2>3. Cardinality(Held(still, pending)') = Cardinality(Held(still, pending)) - pending[w]
    <3>1. Held(still, pending)' = Held(still, [pending EXCEPT ![w] = 0])
      BY <2>1, <2>2 DEF Held
    <3>2. Cardinality(Held(still, [pending EXCEPT ![w] = 0])) = Cardinality(Held(still, pending)) - pending[w]
      BY <1>0, <1>1, <2>2, HeldReset
    <3> QED BY <3>1, <3>2
  <2>4. \A v \in Worker : pending'[v] <= IF pc'[v] = "flush" THEN StepBatch ELSE StepBatch - 1
    BY <1>0, <2>1
  <2>5. pending[w] \in Nat BY <1>0
  <2> QED BY <1>0, <1>2, <2>1, <2>2, <2>3, <2>4, <2>5
<1>5. ASSUME NEW w \in Worker, Publish(w) PROVE StepInv'
  <2>1. /\ pc[w] = "publish" /\ steps' = steps + pending[w]
        /\ UNCHANGED <<ticks, pending>> /\ pc' = [pc EXCEPT ![w] = "exited"]
    BY <1>5 DEF Publish, Goto, history
  <2>2. still' = still \ {w} /\ w \in still BY <1>0, <2>1 DEF Exited
  <2>3. Cardinality(Held(still, pending)') = Cardinality(Held(still, pending)) - pending[w]
    <3>1. Held(still, pending)' = Held(still \ {w}, pending)
      BY <2>1, <2>2 DEF Held
    <3>2. Cardinality(Held(still \ {w}, pending)) = Cardinality(Held(still, pending)) - pending[w]
      BY <1>0, <1>1, <2>2, HeldDrop
    <3> QED BY <3>1, <3>2
  <2>4. \A v \in Worker : pending'[v] <= IF pc'[v] = "flush" THEN StepBatch ELSE StepBatch - 1
    BY <1>0, <2>1
  <2>5. pending[w] \in Nat BY <1>0
  <2> QED BY <1>0, <1>2, <2>1, <2>2, <2>3, <2>4, <2>5
<1>6. CASE \A w \in Worker : ~Tick(w) /\ ~Flush(w) /\ ~Publish(w)
  <2>1. UNCHANGED <<pending, steps, ticks>> BY <1>6, QuietStep
  <2>2. still' = still BY <1>6, QuietStep DEF Exited
  <2>3. Held(still, pending)' = Held(still, pending) BY <2>1, <2>2 DEF Held
  <2>4. ASSUME NEW v \in Worker
        PROVE pending'[v] <= IF pc'[v] = "flush" THEN StepBatch ELSE StepBatch - 1
    <3>1. pc[v] = "flush" => pc'[v] = "flush" BY <1>6, QuietStep
    <3>2. pending[v] \in Nat BY <1>0
    <3>3. pending[v] <= IF pc[v] = "flush" THEN StepBatch ELSE StepBatch - 1
      OBVIOUS
    <3> QED BY <1>0, <2>1, <3>1, <3>2, <3>3
  <2> QED BY <2>1, <2>3, <2>4
<1> QED BY <1>3, <1>4, <1>5, <1>6

LEMMA StepInit == Init => StepInv
<1> SUFFICES ASSUME Init PROVE StepInv
  OBVIOUS
<1>1. /\ \A w \in Worker : pending[w] = 0 /\ pc[w] = "claim"
      /\ steps = 0 /\ ticks = 0 /\ StepBatch \in Nat \ {0}
  BY BatchAssumption DEF Init
<1>2. Held(Worker \ Exited, pending) = {}
  <2> SUFFICES ASSUME NEW p \in (Worker \ Exited) \X Nat,
                      1 <= p[2], p[2] <= pending[p[1]]
               PROVE FALSE
    BY DEF Held
  <2>1. p[1] \in Worker /\ p[2] \in Nat OBVIOUS
  <2> QED BY <1>1, <2>1
<1>3. Cardinality(Held(Worker \ Exited, pending)) = 0 BY <1>2, FS_EmptySet
<1> QED BY <1>1, <1>3 DEF StepInv

\* No step a worker counts is lost or counted twice on its way from its own rt
\* to the shared counter.
THEOREM StepInvariant == Spec => []StepInv
<1>1. TypeOK /\ StepInv /\ [Next]_vars => StepInv' BY StepStep
<1> QED BY <1>1, StepInit, TypeCorrect, PTL DEF Spec

\* When the batch returns, the published count is the number of steps taken,
\* or, after a panic, at most that.
THEOREM StepsAreAccounted == Spec => []StepsAccounted
<1>1. ASSUME TypeOK, OutcomeInv, StepInv PROVE StepsAccounted
  <2> SUFFICES ASSUME Joined PROVE steps <= ticks /\ (panicked \/ steps = ticks)
    BY DEF StepsAccounted
  <2>0. /\ steps \in Nat /\ ticks \in Nat /\ StepBatch \in Nat
        /\ pending \in [Worker -> Nat]
    BY <1>1, BasicTypes, BatchAssumption DEF TypeOK, SharedOK, HistoryOK
  <2>1. \A w \in Worker : pc[w] # "flush"
    BY <1>1 DEF OutcomeInv, JoinInv
  <2>2. pending \in [Worker -> 0..StepBatch]
    <3>1. \A w \in Worker : pending[w] \in 0..StepBatch
      BY <1>1, <2>0, <2>1 DEF StepInv
    <3> QED BY <2>0, <3>1
  <2>3. Cardinality(Held(Worker \ Exited, pending)) \in Nat
    BY <2>0, <2>2, HeldFinite
  <2>4. CASE ~panicked
    <3>1. Worker \ Exited = {} BY <1>1, <2>4, AllJoined DEF Exited
    <3>2. Held(Worker \ Exited, pending) = {} BY <3>1 DEF Held
    <3>3. Cardinality(Held(Worker \ Exited, pending)) = 0 BY <3>2, FS_EmptySet
    <3> QED BY <1>1, <2>0, <3>3 DEF StepInv
  <2>5. CASE panicked
    BY <1>1, <2>0, <2>3, <2>5 DEF StepInv
  <2> QED BY <1>1, <2>4, <2>5 DEF TypeOK, SharedOK
<1> QED BY <1>1, TypeCorrect, OutcomeInvariant, StepInvariant, PTL

---------------------------------------------------------------------------
(* How far the published steps may pass the limit.                         *)

Over == {i \in Item : out[i] = "plain"}

\* Each publication that found the limit passed ended an item for good; the
\* last publication of a leaving worker is smaller than StepBatch.
OverInv ==
  steps <= MaxSteps + Cardinality(Over) * StepBatch
                    + Cardinality(Exited) * (StepBatch - 1)

LEMMA ItemsFinite ==
  /\ IsFiniteSet(Item) /\ Cardinality(Item) = N
  /\ \A S \in SUBSET Item : IsFiniteSet(S) /\ Cardinality(S) \in Nat /\ Cardinality(S) <= N
<1>1. IsFiniteSet(Item) /\ Cardinality(Item) = N
  <2>1. 0 \in Int /\ N - 1 \in Int /\ ~(0 > N - 1) /\ (N - 1) - 0 + 1 = N
    BY ItemCount
  <2>2. IsFiniteSet(0..(N - 1)) /\ Cardinality(0..(N - 1)) = N
    BY <2>1, FS_Interval
  <2> QED BY <2>2 DEF Item
<1> QED BY <1>1, FS_Subset, FS_CardinalityType

LEMMA MoreTimes ==
  ASSUME NEW a \in Nat, NEW b \in Nat, NEW c \in Nat, a <= b
  PROVE  /\ a * c \in Nat /\ b * c \in Nat /\ a * c <= b * c
         /\ \E d \in Nat : b * c = a * c + d
<1>1. PICK d \in Nat : b = a + d
  <2>1. b - a \in Nat /\ b = a + (b - a) OBVIOUS
  <2> QED BY <2>1
<1>2. (a + d) * c = a * c + d * c OBVIOUS
<1>3. a * c \in Nat /\ d * c \in Nat /\ b * c \in Nat OBVIOUS
<1> QED BY <1>1, <1>2, <1>3

LEMMA OneMoreTime ==
  ASSUME NEW a \in Nat, NEW c \in Nat PROVE (a + 1) * c = a * c + c
  OBVIOUS

LEMMA OverStep ==
  ASSUME TypeOK, OutcomeInv, StepInv, OverInv, [Next]_vars PROVE OverInv'
<1> DEFINE k == Cardinality(Over)
           x == Cardinality(Exited)
           cut == k * StepBatch
           left == x * (StepBatch - 1)
<1> HIDE DEF k, x, cut, left
<1>0. /\ pc \in [Worker -> PC] /\ pending \in [Worker -> Nat]
      /\ item \in [Worker -> Item] /\ out \in [Item -> Outcome]
      /\ StepBatch \in Nat /\ StepBatch - 1 \in Nat
  BY BasicTypes, BatchAssumption
<1>s. steps \in Nat /\ MaxSteps \in Nat
  BY BatchAssumption DEF TypeOK, SharedOK
<1>1. k \in Nat /\ cut \in Nat /\ \E d \in Nat : cut' = cut + d
  <2>1. Over' \in SUBSET Item BY DEF Over
  <2>2. Over \in SUBSET Over'
    BY OutcomeKept DEF Over
  <2>3. IsFiniteSet(Over') /\ k' \in Nat BY <2>1, ItemsFinite DEF k
  <2>4. k <= k' BY <2>2, <2>3, FS_Subset DEF k
  <2>5. k \in Nat BY ItemsFinite DEF Over, k
  <2> QED BY <1>0, <2>3, <2>4, <2>5, MoreTimes DEF cut
<1>d. PICK d \in Nat : cut' = cut + d BY <1>1
<1>2. x \in Nat /\ left \in Nat
  <2>1. x \in Nat BY WorkerCount DEF Exited, x
  <2> QED BY <1>0, <2>1, MoreTimes DEF left
<1>3. steps <= MaxSteps + cut + left BY DEF OverInv, cut, left, k, x
<1>4. ASSUME NEW w \in Worker, Flush(w) PROVE OverInv'
  <2>1. /\ pc[w] = "flush" /\ steps' = steps + pending[w]
        /\ pc'[w] \in {"lock", "check"}
        /\ \A v \in Worker \ {w} : pc'[v] = pc[v]
    BY <1>0, <1>4 DEF Flush, EndItem, Goto
  <2>2. Exited' = Exited BY <2>1 DEF Exited
  <2>3. left' = left BY <2>2 DEF left, x
  <2>4. pending[w] \in Nat /\ pending[w] <= StepBatch /\ steps' \in Nat
    BY <1>0, <1>s, <2>1 DEF StepInv
  <2>5. CASE ~OverLimit(steps')
    <3>1. steps' <= MaxSteps BY <1>s, <2>4, <2>5 DEF OverLimit
    <3>2. steps' <= MaxSteps + cut' + left'
      BY <1>s, <1>1, <1>d, <1>2, <2>3, <2>4, <3>1
    <3> QED BY <3>2 DEF OverInv, cut, left, k, x
  <2>6. CASE OverLimit(steps')
    <3>1. item[w] \in Item /\ out[item[w]] = "none"
      BY <1>0, <2>1 DEF OutcomeInv, OutInv, Active, ItemPC, Leaving
    <3>2. out' = [out EXCEPT ![item[w]] = "plain"]
      BY <1>4, <2>6 DEF Flush, EndItem, Settle
    <3>3. Over' = Over \cup {item[w]} /\ item[w] \notin Over
      BY <1>0, <3>1, <3>2 DEF Over
    <3>4. IsFiniteSet(Over) BY ItemsFinite DEF Over
    <3>5. k' = k + 1 BY <3>3, <3>4, FS_AddElement DEF k
    <3>6. cut' = cut + StepBatch BY <1>0, <1>1, <3>5, OneMoreTime DEF cut
    <3>7. steps' <= MaxSteps + cut' + left'
      BY <1>0, <1>s, <1>1, <1>d, <1>2, <1>3, <2>1, <2>3, <2>4, <3>6
    <3> QED BY <3>7 DEF OverInv, cut, left, k, x
  <2> QED BY <2>5, <2>6
<1>5. ASSUME NEW w \in Worker, Publish(w) PROVE OverInv'
  <2>1. /\ pc[w] = "publish" /\ steps' = steps + pending[w]
        /\ pc' = [pc EXCEPT ![w] = "exited"]
    BY <1>5 DEF Publish, Goto
  <2>2. Exited' = Exited \cup {w} /\ w \notin Exited
    BY <1>0, <2>1 DEF Exited
  <2>3. IsFiniteSet(Exited) BY WorkerCount DEF Exited
  <2>4. x' = x + 1 BY <2>2, <2>3, FS_AddElement DEF x
  <2>5. pending[w] \in Nat /\ pending[w] <= StepBatch - 1
    BY <1>0, <1>s, <2>1 DEF StepInv
  <2>6. left' = left + (StepBatch - 1)
    BY <1>0, <1>2, <2>4, OneMoreTime DEF left
  <2>7. steps' <= MaxSteps + cut' + left'
    BY <1>0, <1>s, <1>1, <1>d, <1>2, <1>3, <2>1, <2>5, <2>6
  <2> QED BY <2>7 DEF OverInv, cut, left, k, x
<1>6. CASE \A w \in Worker : ~Flush(w) /\ ~Publish(w)
  <2>1. steps' = steps /\ \A v \in Worker : pc'[v] = "exited" <=> pc[v] = "exited"
    <3>1. ASSUME NEW w \in Worker, Tick(w)
          PROVE  /\ steps' = steps
                 /\ \A v \in Worker : pc'[v] = "exited" <=> pc[v] = "exited"
      <4>1. steps' = steps BY <3>1 DEF Tick, counters
      <4> QED BY <3>1, <4>1, InsideItem DEF ItemPC
    <3> QED BY <1>6, <3>1, QuietStep
  <2>2. Exited' = Exited BY <2>1 DEF Exited
  <2>3. left' = left BY <2>2 DEF left, x
  <2>4. steps' <= MaxSteps + cut' + left'
    BY <1>s, <1>1, <1>d, <1>2, <1>3, <2>1, <2>3
  <2> QED BY <2>4 DEF OverInv, cut, left, k, x
<1> QED BY <1>4, <1>5, <1>6

LEMMA OverInit == Init => OverInv
<1> SUFFICES ASSUME Init PROVE OverInv
  OBVIOUS
<1>1. Over = {} /\ Exited = {} /\ steps = 0
  BY DEF Init, Over, Exited
<1>2. Cardinality(Over) = 0 /\ Cardinality(Exited) = 0
  BY <1>1, FS_EmptySet
<1> QED BY <1>1, <1>2, BatchAssumption DEF OverInv

\* Every publication beyond the limit is paid for by an item it ended or by a
\* worker that left.
THEOREM OverInvariant == Spec => []OverInv
<1>1. TypeOK /\ OutcomeInv /\ StepInv /\ OverInv /\ [Next]_vars => OverInv'
  BY OverStep
<1> QED BY <1>1, OverInit, TypeCorrect, OutcomeInvariant, StepInvariant, PTL
    DEF Spec

\* However the workers race on it, the step count passes the limit by at most
\* one publication per item and one smaller one per worker.
THEOREM StepOverrunIsBounded == Spec => []StepOverrunBounded
<1>1. ASSUME TypeOK, OverInv PROVE StepOverrunBounded
  <2>0. /\ steps \in Nat /\ MaxSteps \in Nat /\ N \in Nat
        /\ StepBatch \in Nat /\ StepBatch - 1 \in Nat
    BY <1>1, BatchAssumption DEF TypeOK, SharedOK
  <2>1. Cardinality(Over) \in Nat /\ Cardinality(Over) <= N
    BY ItemsFinite DEF Over
  <2>2. /\ Cardinality(Exited) \in Nat /\ Cardinality(Worker) \in Nat
        /\ Cardinality(Exited) <= Cardinality(Worker)
    BY WorkerCount DEF Exited
  <2>3. /\ Cardinality(Over) * StepBatch \in Nat /\ N * StepBatch \in Nat
        /\ Cardinality(Over) * StepBatch <= N * StepBatch
    BY <2>0, <2>1, MoreTimes
  <2>4. /\ Cardinality(Exited) * (StepBatch - 1) \in Nat
        /\ Cardinality(Worker) * (StepBatch - 1) \in Nat
        /\ Cardinality(Exited) * (StepBatch - 1) <= Cardinality(Worker) * (StepBatch - 1)
    BY <2>0, <2>2, MoreTimes
  <2>5. steps <= MaxSteps + Cardinality(Over) * StepBatch + Cardinality(Exited) * (StepBatch - 1)
    BY <1>1 DEF OverInv
  <2> QED BY <2>0, <2>3, <2>4, <2>5 DEF StepOverrunBounded
<1> QED BY <1>1, TypeCorrect, OverInvariant, PTL

---------------------------------------------------------------------------
(* A fatal error stops dispatch.                                           *)

\* The workers that looked at the flag and have not dispatched yet.
Past == {w \in Worker : pc[w] \in {"load", "cas"}}

LateInv ==
  IF aborted THEN late + Cardinality(Past) <= Cardinality(Worker) - 1
             ELSE late = 0

\* Only an unset flag lets a worker past the check.
LEMMA PastCheck ==
  ASSUME TypeOK, [Next]_vars, \A w \in Worker : ~ReturnFatal(w)
  PROVE  /\ aborted' = aborted
         /\ aborted => Past' \subseteq Past
<1> USE DEF flags, workerVars
<1>0. pc \in [Worker -> PC] BY BasicTypes
<1>1. ASSUME NEW w \in Worker, CallStep(w), ~ReturnFatal(w)
      PROVE  aborted' = aborted /\ (aborted => Past' \subseteq Past)
  <2>1. aborted' = aborted
    BY <1>1 DEF CallStep, Call, Wait, Flush, Check, Load, CompareAndSwap,
       Return, ReturnUncatchable
  <2>2. \A v \in Worker \ {w} : pc'[v] = pc[v] BY <1>1, InsideItem
  <2>3. aborted /\ pc'[w] \in {"load", "cas"} => pc[w] \in {"load", "cas"}
    BY <1>0, <1>1 DEF CallStep, Call, Wait, Flush, Check, Stopped, Load,
       CompareAndSwap, BeginDispatch, Return, ReturnUncatchable, Thrown,
       Advance, EndItem, Goto
  <2> QED BY <2>1, <2>2, <2>3 DEF Past
<1>2. ASSUME NEW w \in Worker, Tick(w) \/ Log(w) \/ Complete(w) \/ Panic(w)
      PROVE  aborted' = aborted /\ (aborted => Past' \subseteq Past)
  <2>1. aborted' = aborted BY <1>2 DEF Tick, Log, Complete, Panic
  <2>2. \A v \in Worker \ {w} : pc'[v] = pc[v] BY <1>2, InsideItem
  <2>3. pc'[w] \notin {"load", "cas"}
    BY <1>0, <1>2 DEF Tick, Log, Complete, Panic, Advance, EndItem, Goto
  <2> QED BY <2>1, <2>2, <2>3 DEF Past
<1>3. ASSUME NEW w \in Worker, Claim(w) \/ Publish(w) \/ FinishStep(w)
      PROVE  aborted' = aborted /\ (aborted => Past' \subseteq Past)
  <2>1. aborted' = aborted
    BY <1>3 DEF Claim, Publish, FinishStep, Finish, Emit, ConsolePanic,
       AdvanceTurn, Unlock
  <2>2. \A v \in Worker : pc'[v] \in {"load", "cas"} => pc[v] \in {"load", "cas"}
    BY <1>0, <1>3 DEF Claim, Publish, FinishStep, Finish, Emit, ConsolePanic,
       AdvanceTurn, Unlock, Goto
  <2> QED BY <2>1, <2>2 DEF Past
<1>4. Join \/ Cancel \/ UNCHANGED vars => UNCHANGED <<aborted, pc>>
  BY DEF Join, Cancel, vars
<1> QED BY <1>1, <1>2, <1>3, <1>4 DEF Next, WorkerStep, Terminated, Past

LEMMA LateWriter ==
  ASSUME [Next]_vars, \A w \in Worker : ~CompareAndSwap(w)
  PROVE  late' = late
<1>1. ASSUME NEW w \in Worker, WorkerStep(w) PROVE late' = late
  BY <1>1 DEF WorkerStep, CallStep, FinishStep, Claim, Publish, Tick, Log,
     Complete, Panic, Call, Wait, Flush, Check, Load, Return, ReturnUncatchable,
     ReturnFatal, Finish, Emit, ConsolePanic, AdvanceTurn, Unlock, history
<1>2. Join \/ Cancel \/ UNCHANGED vars => late' = late
  BY DEF Join, Cancel, vars, history
<1> QED BY <1>1, <1>2 DEF Next, Terminated

LEMMA LateStep ==
  ASSUME TypeOK, LateInv, [Next]_vars PROVE LateInv'
<1> USE DEF LateInv
<1>0. pc \in [Worker -> PC] /\ late \in Nat /\ aborted \in BOOLEAN
  BY BasicTypes DEF TypeOK, HistoryOK
<1>1. /\ IsFiniteSet(Past) /\ Cardinality(Past) \in Nat
      /\ IsFiniteSet(Past') /\ Cardinality(Past') \in Nat
      /\ Cardinality(Worker) \in Nat
  BY WorkerCount DEF Past
<1>2. ASSUME NEW w \in Worker, ReturnFatal(w) PROVE LateInv'
  <2>1. /\ pc[w] = "dispatch" /\ aborted' /\ late' = late
        /\ pc' = [pc EXCEPT ![w] = "lock"]
    BY <1>2 DEF ReturnFatal, EndItem, Goto, history
  <2>2. Past' = Past /\ Past \in SUBSET (Worker \ {w})
    BY <1>0, <2>1 DEF Past
  <2>3. Cardinality(Past) <= Cardinality(Worker) - 1
    <3>1. /\ IsFiniteSet(Worker \ {w})
          /\ Cardinality(Worker \ {w}) = Cardinality(Worker) - 1
      BY WorkerCount, FS_RemoveElement
    <3> QED BY <2>2, <3>1, FS_Subset
  <2> QED BY <1>0, <1>1, <2>1, <2>2, <2>3
<1>3. ASSUME NEW w \in Worker, CompareAndSwap(w), aborted PROVE LateInv'
  <2>1. /\ pc[w] = "cas" /\ aborted' = aborted
        /\ \/ late' = late + 1 /\ pc' = [pc EXCEPT ![w] = "dispatch"]
           \/ late' = late /\ pc' = [pc EXCEPT ![w] = "load"]
    BY <1>3 DEF CompareAndSwap, BeginDispatch, Goto, flags
  <2>2. CASE late' = late + 1 /\ pc' = [pc EXCEPT ![w] = "dispatch"]
    <3>1. Past' = Past \ {w} /\ w \in Past BY <1>0, <2>1, <2>2 DEF Past
    <3>2. Cardinality(Past') = Cardinality(Past) - 1
      BY <1>1, <3>1, FS_RemoveElement
    <3> QED BY <1>0, <1>1, <1>3, <2>1, <2>2, <3>2
  <2>3. CASE late' = late /\ pc' = [pc EXCEPT ![w] = "load"]
    <3>1. Past' = Past BY <1>0, <2>1, <2>3 DEF Past
    <3> QED BY <1>3, <2>1, <2>3, <3>1
  <2> QED BY <2>1, <2>2, <2>3
<1>4. ASSUME NEW w \in Worker, CompareAndSwap(w), ~aborted PROVE LateInv'
  BY <1>4 DEF CompareAndSwap, BeginDispatch, flags
<1>5. CASE \A w \in Worker : ~CompareAndSwap(w) /\ ~ReturnFatal(w)
  <2>1. late' = late /\ aborted' = aborted /\ (aborted => Past' \subseteq Past)
    BY <1>5, PastCheck, LateWriter
  <2>2. aborted => Cardinality(Past') <= Cardinality(Past)
    BY <1>1, <2>1, FS_Subset
  <2> QED BY <1>0, <1>1, <2>1, <2>2
<1> QED BY <1>2, <1>3, <1>4, <1>5

\* The calls begun after a fatal error, with those still let through, never
\* outnumber the other workers.
THEOREM LateInvariant == Spec => []LateInv
<1>1. Init => LateInv BY DEF Init, LateInv
<1>2. TypeOK /\ LateInv /\ [Next]_vars => LateInv' BY LateStep
<1> QED BY <1>1, <1>2, TypeCorrect, PTL DEF Spec

\* Once a fatal error is recorded, each of the other workers begins at most the
\* one call it had already been let through to.
THEOREM FatalStopsDispatching == Spec => []FatalStopsDispatch
<1>1. ASSUME TypeOK, LateInv PROVE FatalStopsDispatch
  <2>1. late \in Nat /\ Cardinality(Past) \in Nat /\ Cardinality(Worker) \in Nat
    BY <1>1, WorkerCount DEF TypeOK, HistoryOK, Past
  <2>2. Cardinality(Worker) >= 1
    <3>1. \A c : c \in 2..N => c >= 1 BY ItemCount
    <3> QED BY <3>1, WorkerAssumption
  <2> QED BY <1>1, <2>1, <2>2 DEF LateInv, FatalStopsDispatch
<1> QED BY <1>1, TypeCorrect, LateInvariant, PTL

---------------------------------------------------------------------------
(* Sequences: what appending and taking the tail do to positions.          *)

LEMMA AppendAt ==
  ASSUME NEW S, NEW s \in Seq(S), NEW e \in S
  PROVE  /\ DOMAIN Append(s, e) = DOMAIN s \cup {Len(s) + 1}
         /\ \A k \in DOMAIN s : Append(s, e)[k] = s[k] /\ k < Len(s) + 1
         /\ Append(s, e)[Len(s) + 1] = e
         /\ DOMAIN s \subseteq Nat /\ Len(s) \in Nat /\ Len(s) + 1 \notin DOMAIN s
<1>1. DOMAIN s = 1..Len(s) /\ Len(s) \in Nat OBVIOUS
<1>2. DOMAIN Append(s, e) = 1..(Len(s) + 1) OBVIOUS
<1>3. 1..(Len(s) + 1) = 1..Len(s) \cup {Len(s) + 1} BY <1>1
<1> QED BY <1>1, <1>2, <1>3

LEMMA TailAt ==
  ASSUME NEW S, NEW s \in Seq(S), s # <<>>
  PROVE  /\ 1 \in DOMAIN s /\ Head(s) = s[1] /\ Head(s) \in S
         /\ DOMAIN Tail(s) \subseteq Nat
         /\ \A k \in DOMAIN Tail(s) : k + 1 \in DOMAIN s /\ Tail(s)[k] = s[k + 1]
         /\ \A k \in DOMAIN s : k \in Nat /\ (k = 1 \/ k - 1 \in DOMAIN Tail(s))
         /\ \A k \in DOMAIN s : k # 1 => Tail(s)[k - 1] = s[k] /\ 1 < k
<1>1. DOMAIN s = 1..Len(s) /\ Len(s) \in Nat /\ Len(s) >= 1 OBVIOUS
<1>2. DOMAIN Tail(s) = 1..(Len(s) - 1) OBVIOUS
<1>3. \A k \in 1..(Len(s) - 1) : Tail(s)[k] = s[k + 1] OBVIOUS
<1>4. \A k \in 1..Len(s) : k # 1 => k - 1 \in 1..(Len(s) - 1) /\ (k - 1) + 1 = k
  BY <1>1
<1> QED BY <1>1, <1>2, <1>3, <1>4

Entries(s) == {s[k] : k \in DOMAIN s}

LEMMA EntriesAppend ==
  ASSUME NEW S, NEW s \in Seq(S), NEW e \in S
  PROVE  Entries(Append(s, e)) = Entries(s) \cup {e}
  BY AppendAt DEF Entries

LEMMA EntriesTail ==
  ASSUME NEW S, NEW s \in Seq(S), s # <<>>
  PROVE  Entries(s) = {Head(s)} \cup Entries(Tail(s))
<1>1. ASSUME NEW k \in DOMAIN s PROVE s[k] \in {Head(s)} \cup Entries(Tail(s))
  <2>1. CASE k = 1 BY <2>1, TailAt
  <2>2. CASE k # 1
    <3>1. k - 1 \in DOMAIN Tail(s) /\ Tail(s)[k - 1] = s[k] BY <2>2, TailAt
    <3> QED BY <3>1 DEF Entries
  <2> QED BY <2>1, <2>2
<1>2. Head(s) \in Entries(s) /\ Entries(Tail(s)) \subseteq Entries(s)
  BY TailAt DEF Entries
<1> QED BY <1>1, <1>2 DEF Entries

---------------------------------------------------------------------------
(* No line is lost: a line is with the item's worker, then in the          *)
(* sequencer's queue, then with the host.                                  *)

Event == {"effect", "line"} \X Item \X Nat

ReleasedOf(t) == {<<t[n][2], t[n][3]>> : n \in {m \in DOMAIN t : t[m][1] = "line"}}

LEMMA ReleasedAppend ==
  ASSUME NEW t \in Seq(Event), NEW kind \in {"effect", "line"},
         NEW i \in Item, NEW k \in Nat
  PROVE  ReleasedOf(Append(t, <<kind, i, k>>)) =
           ReleasedOf(t) \cup IF kind = "line" THEN {<<i, k>>} ELSE {}
<1> DEFINE e == <<kind, i, k>>
<1>1. e \in Event BY DEF Event
<1>2. e[1] = kind /\ e[2] = i /\ e[3] = k OBVIOUS
<1> HIDE DEF e
<1> DEFINE a == Append(t, e)
<1>3. /\ DOMAIN a = DOMAIN t \cup {Len(t) + 1} /\ Len(t) + 1 \notin DOMAIN t
      /\ \A n \in DOMAIN t : a[n] = t[n]
      /\ a[Len(t) + 1] = e
  BY <1>1, AppendAt
<1> HIDE DEF a
<1>4. ASSUME NEW x
      PROVE  x \in ReleasedOf(a) <=>
               x \in ReleasedOf(t) \/ (kind = "line" /\ x = <<i, k>>)
  <2>1. x \in ReleasedOf(a) <=>
          \E n \in DOMAIN a : a[n][1] = "line" /\ x = <<a[n][2], a[n][3]>>
    BY DEF ReleasedOf
  <2>2. x \in ReleasedOf(t) <=>
          \E n \in DOMAIN t : t[n][1] = "line" /\ x = <<t[n][2], t[n][3]>>
    BY DEF ReleasedOf
  <2> QED BY <1>2, <1>3, <2>1, <2>2
<1> QED BY <1>4 DEF a, e

\* The worker of an item keeps its lines until finish.
Holding(w) == Active(w) /\ pc[w] # "release"

Queued == {x \in Item \X Nat : \E i \in Item : x \in Entries(qlogs[i])}
Unsent == {x \in Item \X Nat : \E w \in Worker : Holding(w) /\ x \in Entries(logs[w])}

LineInv ==
  /\ printed = ReleasedOf(trace) \cup Queued \cup Unsent
  /\ \A i \in Item : ~done[i] => qlogs[i] = <<>>

\* Who holds lines, and which, changes only with a claim, a line or a finish.
LEMMA LinesKept ==
  ASSUME TypeOK, [Next]_vars,
         \A w \in Worker : ~Claim(w) /\ ~Log(w) /\ ~Finish(w)
  PROVE  /\ UNCHANGED <<logs, printed, done>>
         /\ \A v \in Worker : Holding(v)' <=> Holding(v)
<1> USE DEF Holding, history, workerVars
<1>0. pc \in [Worker -> PC] BY BasicTypes
<1>1. ASSUME NEW w \in Worker, Tick(w) \/ Complete(w) \/ Panic(w) \/ CallStep(w)
      PROVE  /\ UNCHANGED <<logs, printed, done>>
             /\ \A v \in Worker : Holding(v)' <=> Holding(v)
  <2>1. UNCHANGED <<logs, printed>>
    BY <1>1 DEF Tick, Complete, Panic, CallStep, Call, Wait, Flush, Check, Load,
       CompareAndSwap, Return, ReturnUncatchable, ReturnFatal
  <2> QED BY <1>1, <2>1, InsideItem DEF Active, queue
<1>2. ASSUME NEW w \in Worker,
             Publish(w) \/ Emit(w) \/ ConsolePanic(w) \/ AdvanceTurn(w) \/ Unlock(w)
      PROVE  /\ UNCHANGED <<logs, printed, done>>
             /\ \A v \in Worker : Holding(v)' <=> Holding(v)
  <2>1. UNCHANGED <<logs, printed, done>>
    BY <1>2 DEF Publish, Emit, ConsolePanic, AdvanceTurn, Unlock, queue
  <2>2. CASE Publish(w) \/ ConsolePanic(w)
    BY <1>0, <2>1, <2>2 DEF Publish, ConsolePanic, Releasing, Goto, Active, ItemPC
  <2>3. CASE Emit(w) \/ AdvanceTurn(w)
    BY <2>1, <2>3 DEF Emit, AdvanceTurn, Active
  <2>4. CASE Unlock(w)
    <3>1. pc[w] = "release" BY <2>4 DEF Unlock
    <3>2. \A v \in Worker : pc'[v] = IF v = w THEN IF dying[w] THEN "dead" ELSE "claim"
                                ELSE IF pc[v] = "asleep" THEN "wait" ELSE pc[v]
      BY <2>4 DEF Unlock, WakesUp
    <3> QED BY <2>1, <3>1, <3>2 DEF Active, ItemPC
  <2> QED BY <1>2, <2>2, <2>3, <2>4
<1>3. Join \/ Cancel \/ UNCHANGED vars => UNCHANGED <<pc, logs, printed, done>>
  BY DEF Join, Cancel, vars, queue
<1> QED BY <1>1, <1>2, <1>3 DEF Next, WorkerStep, FinishStep, Terminated, Active

LEMMA QlogsWriter ==
  ASSUME [Next]_vars, \A w \in Worker : ~Finish(w) /\ ~Emit(w)
  PROVE  qlogs' = qlogs
<1>1. ASSUME NEW w \in Worker, WorkerStep(w) PROVE qlogs' = qlogs
  BY <1>1 DEF WorkerStep, CallStep, FinishStep, Claim, Publish, Tick, Log,
     Complete, Panic, Call, Wait, Flush, Check, Load, CompareAndSwap, Return,
     ReturnUncatchable, ReturnFatal, ConsolePanic, AdvanceTurn, Unlock, queue
<1>2. Join \/ Cancel \/ UNCHANGED vars => qlogs' = qlogs
  BY DEF Join, Cancel, vars, queue
<1> QED BY <1>1, <1>2 DEF Next, Terminated

LEMMA LineStep ==
  ASSUME TypeOK, OrderInv, LineInv, [Next]_vars PROVE LineInv'
<1> USE DEF LineInv, OrderInv
<1>0. /\ pc \in [Worker -> PC] /\ item \in [Worker -> Item]
      /\ ip \in [Worker -> Nat] /\ logs \in [Worker -> Seq(Item \X Nat)]
      /\ done \in [Item -> BOOLEAN] /\ qlogs \in [Item -> Seq(Item \X Nat)]
      /\ trace \in Seq(Event)
  BY BasicTypes DEF TypeOK, HistoryOK, Event
<1>1. ASSUME NEW w \in Worker, Claim(w) PROVE LineInv'
  <2>1. /\ pc[w] = "claim" /\ UNCHANGED <<done, qlogs, trace, printed>>
        /\ \A v \in Worker \ {w} : pc'[v] = pc[v] /\ logs'[v] = logs[v]
        /\ pc'[w] = "publish" \/ (pc'[w] = "run" /\ logs'[w] = <<>>)
    BY <1>0, <1>1 DEF Claim, Goto, queue, history
  <2>2. Queued' = Queued BY <2>1 DEF Queued
  <2>3. \A v \in Worker \ {w} : Holding(v)' <=> Holding(v)
    BY <2>1 DEF Holding, Active
  <2>4. ~Holding(w) /\ (Holding(w)' => Entries(logs'[w]) = {})
    BY <2>1 DEF Holding, Active, ItemPC, Entries
  <2>5. Unsent' = Unsent BY <2>1, <2>3, <2>4 DEF Unsent
  <2> QED BY <2>1, <2>2, <2>5
<1>2. ASSUME NEW w \in Worker, Log(w) PROVE LineInv'
  <2> DEFINE e == <<item[w], ip[w]>>
  <2>1. /\ UNCHANGED <<done, qlogs, trace>> /\ printed' = printed \cup {e}
        /\ logs' = [logs EXCEPT ![w] = Append(logs[w], e)]
    BY <1>2 DEF Log, queue
  <2>2. Holding(w) /\ \A v \in Worker : Holding(v)' <=> Holding(v)
    BY <1>2, InsideItem DEF Holding, Active
  <2>3. e \in Item \X Nat BY <1>0
  <2> HIDE DEF e
  <2>4. Entries(logs'[w]) = Entries(logs[w]) \cup {e}
    <3>1. logs[w] \in Seq(Item \X Nat) /\ logs'[w] = Append(logs[w], e)
      BY <1>0, <2>1
    <3> QED BY <2>3, <3>1, EntriesAppend
  <2>5. \A v \in Worker \ {w} : logs'[v] = logs[v] BY <1>0, <2>1
  <2>6. Unsent' = Unsent \cup {e} BY <2>2, <2>3, <2>4, <2>5 DEF Unsent
  <2>7. Queued' = Queued BY <2>1 DEF Queued
  <2> QED BY <2>1, <2>6, <2>7
<1>3. ASSUME NEW w \in Worker, Finish(w) PROVE LineInv'
  <2>1. /\ pc[w] = "lock" /\ pc' = [pc EXCEPT ![w] = "release"]
        /\ done' = [done EXCEPT ![item[w]] = TRUE]
        /\ qlogs' = [qlogs EXCEPT ![item[w]] = logs[w]]
        /\ UNCHANGED <<logs, trace, printed>>
    BY <1>3 DEF Finish, Goto, history
  <2>2. Holding(w) /\ ~done[item[w]]
    BY <2>1 DEF Holding, Active, ItemPC, ClaimInv
  <2>3. item[w] \in Item /\ qlogs[item[w]] = <<>> BY <1>0, <2>2
  <2>4. Entries(qlogs[item[w]]) = {} BY <2>3 DEF Entries
  <2>5. \A v \in Worker : Holding(v)' <=> Holding(v) /\ v # w
    BY <1>0, <2>1 DEF Holding, Active, ItemPC
  <2>6. \A i \in Item : qlogs'[i] = IF i = item[w] THEN logs[w] ELSE qlogs[i]
    BY <1>0, <2>1
  <2>7. Queued' \cup Unsent' = Queued \cup Unsent
    <3>1. ASSUME NEW x \in Item \X Nat
          PROVE  x \in Queued' \cup Unsent' <=> x \in Queued \cup Unsent
      <4>1. x \in Queued' <=> x \in Queued \/ x \in Entries(logs[w])
        BY <2>3, <2>4, <2>6 DEF Queued
      <4>2. x \in Unsent <=> x \in Unsent' \/ x \in Entries(logs[w])
        BY <2>1, <2>2, <2>5 DEF Unsent
      <4> QED BY <4>1, <4>2
    <3>2. Queued \cup Unsent \cup Queued' \cup Unsent' \subseteq Item \X Nat
      BY DEF Queued, Unsent
    <3> QED BY <3>1, <3>2
  <2>8. \A i \in Item : ~done'[i] => qlogs'[i] = <<>> BY <1>0, <2>1, <2>6
  <2> QED BY <2>1, <2>7, <2>8
<1>4. ASSUME NEW w \in Worker, Emit(w) PROVE LineInv'
  <2> DEFINE line == Head(qlogs[turn])
  <2>1. /\ turn \in Item /\ done[turn] /\ qlogs[turn] # <<>>
        /\ trace' = Append(trace, <<"line", line[1], line[2]>>)
        /\ qlogs' = [qlogs EXCEPT ![turn] = Tail(qlogs[turn])]
        /\ UNCHANGED <<pc, logs, done, printed>>
    BY <1>4, TurnItem DEF Emit, Releasing, workerVars
  <2>2. line \in Item \X Nat BY <1>0, <2>1, TailAt
  <2>3. line[1] \in Item /\ line[2] \in Nat /\ line = <<line[1], line[2]>>
    BY <2>2
  <2>4. Entries(qlogs[turn]) = {line} \cup Entries(qlogs'[turn])
    BY <1>0, <2>1, EntriesTail
  <2> HIDE DEF line
  <2>5. ReleasedOf(trace') = ReleasedOf(trace) \cup {line}
    <3>1. ReleasedOf(Append(trace, <<"line", line[1], line[2]>>)) =
            ReleasedOf(trace) \cup {<<line[1], line[2]>>}
      BY <1>0, <2>3, ReleasedAppend
    <3> QED BY <2>1, <2>3, <3>1
  <2>6. \A i \in Item : i # turn => qlogs'[i] = qlogs[i] BY <1>0, <2>1
  <2>7. Queued = Queued' \cup {line}
    BY <2>1, <2>2, <2>4, <2>6 DEF Queued
  <2>8. Unsent' = Unsent BY <2>1 DEF Unsent, Holding, Active
  <2>9. \A i \in Item : ~done'[i] => qlogs'[i] = <<>> BY <1>0, <2>1, <2>6
  <2> QED BY <2>1, <2>5, <2>7, <2>8, <2>9
<1>5. CASE \A w \in Worker : ~Claim(w) /\ ~Log(w) /\ ~Finish(w) /\ ~Emit(w)
  <2>1. /\ UNCHANGED <<logs, printed, done, qlogs>>
        /\ \A v \in Worker : Holding(v)' <=> Holding(v)
    BY <1>5, LinesKept, QlogsWriter
  <2>2. ReleasedOf(trace') = ReleasedOf(trace)
    <3>1. CASE trace' = trace BY <3>1
    <3>2. CASE trace' # trace
      <4>1. PICK w \in Worker : trace' = Append(trace, <<"effect", item[w], ip[w]>>)
        BY <1>5, <3>2, TraceWriters
      <4>2. item[w] \in Item /\ ip[w] \in Nat BY <1>0
      <4> QED BY <1>0, <4>1, <4>2, ReleasedAppend
    <3> QED BY <3>1, <3>2
  <2>3. Queued' = Queued /\ Unsent' = Unsent BY <2>1 DEF Queued, Unsent
  <2> QED BY <2>1, <2>2, <2>3
<1> QED BY <1>1, <1>2, <1>3, <1>4, <1>5

LEMMA LineInit == Init => LineInv
<1> SUFFICES ASSUME Init PROVE LineInv
  OBVIOUS
<1>1. /\ \A i \in Item : qlogs[i] = <<>>
      /\ \A w \in Worker : pc[w] = "claim"
      /\ trace = <<>> /\ printed = {}
  BY DEF Init
<1>2. Queued = {} BY <1>1 DEF Queued, Entries
<1>3. Unsent = {} BY <1>1 DEF Unsent, Holding, Active, ItemPC
<1>4. ReleasedOf(trace) = {} BY <1>1 DEF ReleasedOf
<1> QED BY <1>1, <1>2, <1>3, <1>4 DEF LineInv

\* Every line written is with its worker, in the queue of its item, or out; never
\* nowhere.
THEOREM LineInvariant == Spec => []LineInv
<1>1. TypeOK /\ OrderInv /\ LineInv /\ [Next]_vars => LineInv' BY LineStep
<1> QED BY <1>1, LineInit, TypeCorrect, OrderInvariant, PTL DEF Spec

\* Unless a panicking console kept the mutex, every line an item wrote has
\* reached the host when the batch returns, and no other line has.
THEOREM NoLineIsLost == Spec => []NoLineLost
<1>1. ASSUME TypeOK, OrderInv, OutcomeInv, LockInv, LineInv PROVE NoLineLost
  <2> SUFFICES ASSUME Joined, mu = NoWorker
               PROVE  printed = ReleasedOf(trace)
    BY DEF NoLineLost, ReleasedOf
  <2>0. turn \in 0..N /\ next \in Nat /\ Item = 0..(N - 1) /\ N \in Nat
    BY <1>1, BasicTypes
  <2>1. \A w \in Worker : ~Active(w)
    BY <1>1 DEF OutcomeInv, JoinInv, Active, ItemPC
  <2>2. Unsent = {} BY <2>1 DEF Unsent, Holding
  <2>3. \A i \in Item : i < next => done[i]
    BY <1>1, <2>1 DEF OutcomeInv, JoinInv
  <2>4. turn \in Item => ~done[turn] BY <1>1 DEF LockInv
  <2>5. ASSUME NEW i \in Item PROVE qlogs[i] = <<>>
    <3>1. CASE i < turn BY <1>1, <3>1 DEF OrderInv, QueueInv
    <3>2. CASE ~(i < turn)
      <4>1. turn \in Item BY <2>0, <3>2
      <4>2. ~(turn < next) BY <2>3, <2>4, <4>1
      <4>3. ~(i < next) BY <2>0, <3>2, <4>2
      <4>4. ~done[i] BY <1>1, <4>3 DEF OrderInv, ClaimInv
      <4> QED BY <1>1, <4>4 DEF LineInv
    <3> QED BY <3>1, <3>2
  <2>6. Queued = {} BY <2>5 DEF Queued, Entries
  <2> QED BY <1>1, <2>2, <2>6 DEF LineInv
<1> QED BY <1>1, TypeCorrect, OrderInvariant, OutcomeInvariant, LockInvariant,
       LineInvariant, PTL

---------------------------------------------------------------------------
(* The order in which the host sees effects and lines.                     *)

\* Every line a worker holds is behind its place in the script, and an item's
\* lines are kept in program order.
Rising(s) == \A j, k \in DOMAIN s : j < k => s[j][2] < s[k][2]

LogInv ==
  /\ \A w \in Worker : Active(w) =>
       /\ Rising(logs[w])
       /\ \A k \in DOMAIN logs[w] : logs[w][k][2] < ip[w]
  /\ \A i \in Item : Rising(qlogs[i])

\* Within its item a worker moves forward in the script or stays; a call
\* begins only with a swap.
LEMMA InsideIp ==
  ASSUME TypeOK, NEW w \in Worker,
         \/ Tick(w) \/ Log(w) \/ Complete(w) \/ Panic(w) \/ CallStep(w)
  PROVE  /\ \A v \in Worker \ {w} : ip'[v] = ip[v]
         /\ \/ ip'[w] = ip[w] + 1 /\ pc'[w] = "run"
            \/ ip'[w] = ip[w] /\ (\/ pc'[w] \in Leaving \/ pc[w] # "dispatch")
         /\ pc'[w] = "dispatch" => CompareAndSwap(w)
<1>0. pc \in [Worker -> PC] /\ ip \in [Worker -> Nat] BY BasicTypes
<1>1. ASSUME Advance(w)
      PROVE  /\ \A v \in Worker \ {w} : ip'[v] = ip[v]
             /\ ip'[w] = ip[w] + 1 /\ pc'[w] = "run"
  BY <1>0, <1>1 DEF Advance, Goto
<1>2. ASSUME NEW o, EndItem(w, o) PROVE ip' = ip /\ pc'[w] = "lock"
  BY <1>0, <1>2 DEF EndItem, Goto
<1>3. CASE Return(w) \/ ReturnUncatchable(w) \/ ReturnFatal(w)
  <2>1. Advance(w) \/ \E o \in Outcome : EndItem(w, o)
    BY <1>3 DEF Return, ReturnUncatchable, ReturnFatal, Thrown, Outcome
  <2> QED BY <1>1, <1>2, <2>1 DEF Leaving
<1>4. CASE Tick(w) \/ Log(w) \/ Complete(w) \/ Panic(w)
  <2>1. pc[w] # "dispatch"
    BY <1>4 DEF Tick, Log, Complete, Panic, At
  <2>2. \/ Advance(w)
        \/ \E o \in Outcome : EndItem(w, o)
        \/ ip' = ip /\ pc'[w] \in {"flush", "lock"}
    BY <1>0, <1>4 DEF Tick, Log, Complete, Panic, Goto, Outcome
  <2> QED BY <1>1, <1>2, <2>1, <2>2 DEF Leaving
<1>5. CASE Call(w) \/ Wait(w) \/ Flush(w) \/ Check(w) \/ Load(w)
  <2>1. pc[w] # "dispatch"
    BY <1>5 DEF Call, Wait, Flush, Check, Load, At
  <2>2. \/ Advance(w)
        \/ \E o \in Outcome : EndItem(w, o)
        \/ ip' = ip /\ pc'[w] \in {"wait", "flush", "asleep", "check", "load", "cas"}
    BY <1>0, <1>5 DEF Call, Wait, Flush, Check, Load, Thrown, Goto, Outcome
  <2> QED BY <1>1, <1>2, <2>1, <2>2 DEF Leaving
<1>6. CASE CompareAndSwap(w)
  BY <1>6 DEF CompareAndSwap
<1> QED BY <1>3, <1>4, <1>5, <1>6 DEF CallStep

\* The other steps leave the workers that stay in their item where they are.
LEMMA OutsideIp ==
  ASSUME TypeOK, NEW w \in Worker,
         Publish(w) \/ FinishStep(w)
  PROVE  /\ UNCHANGED <<ip, item, logs, next>>
         /\ \A v \in Worker : Active(v)' => Active(v)
         /\ \A v \in Worker : Active(v)' /\ pc'[v] \notin Leaving =>
              pc[v] \notin Leaving /\ (pc[v] = "dispatch" <=> pc'[v] = "dispatch")
<1>0. pc \in [Worker -> PC] BY BasicTypes
<1>1. UNCHANGED <<ip, item, logs, next>>
  BY DEF Publish, FinishStep, Finish, Emit, ConsolePanic, AdvanceTurn, Unlock,
     workerVars
<1>2. CASE Publish(w) \/ Finish(w) \/ ConsolePanic(w)
  BY <1>0, <1>1, <1>2 DEF Publish, Finish, ConsolePanic, Releasing, Goto, Active,
     ItemPC, Leaving
<1>3. CASE Emit(w) \/ AdvanceTurn(w)
  BY <1>1, <1>3 DEF Emit, AdvanceTurn, workerVars, Active
<1>4. CASE Unlock(w)
  <2>1. pc[w] = "release" BY <1>4 DEF Unlock
  <2>2. \A v \in Worker : pc'[v] = IF v = w THEN IF dying[w] THEN "dead" ELSE "claim"
                              ELSE IF pc[v] = "asleep" THEN "wait" ELSE pc[v]
    BY <1>4 DEF Unlock, WakesUp
  <2> QED BY <1>1, <2>1, <2>2 DEF Active, ItemPC, Leaving
<1> QED BY <1>2, <1>3, <1>4 DEF FinishStep

LEMMA RisingTail ==
  ASSUME NEW s \in Seq(Item \X Nat), s # <<>>, Rising(s)
  PROVE  /\ Rising(Tail(s))
         /\ \A k \in DOMAIN Tail(s) : Head(s)[2] < Tail(s)[k][2]
<1>1. \A k \in DOMAIN Tail(s) : k \in Nat /\ k + 1 \in DOMAIN s /\ Tail(s)[k] = s[k + 1]
  BY TailAt
<1>2. Rising(Tail(s))
  <2> SUFFICES ASSUME NEW j \in DOMAIN Tail(s), NEW k \in DOMAIN Tail(s), j < k
               PROVE  Tail(s)[j][2] < Tail(s)[k][2]
    BY DEF Rising
  <2>1. j + 1 < k + 1 BY <1>1
  <2> QED BY <1>1, <2>1 DEF Rising
<1>3. ASSUME NEW k \in DOMAIN Tail(s) PROVE Head(s)[2] < Tail(s)[k][2]
  <2>1. k + 1 \in DOMAIN s /\ k + 1 # 1 BY <1>1, TailAt
  <2>2. 1 \in DOMAIN s /\ Head(s) = s[1] /\ 1 < k + 1 BY <2>1, TailAt
  <2> QED BY <1>1, <2>1, <2>2 DEF Rising
<1> QED BY <1>2, <1>3

LEMMA RisingAppend ==
  ASSUME NEW s \in Seq(Item \X Nat), NEW i \in Item, NEW n \in Nat, Rising(s),
         \A k \in DOMAIN s : s[k][2] < n
  PROVE  /\ Rising(Append(s, <<i, n>>))
         /\ \A k \in DOMAIN Append(s, <<i, n>>) : Append(s, <<i, n>>)[k][2] < n + 1
<1> DEFINE e == <<i, n>>
<1>1. e \in Item \X Nat /\ e[2] = n OBVIOUS
<1> HIDE DEF e
<1> DEFINE a == Append(s, e)
<1>2. /\ DOMAIN a = DOMAIN s \cup {Len(s) + 1} /\ a[Len(s) + 1] = e
      /\ \A k \in DOMAIN s : a[k] = s[k] /\ k < Len(s) + 1 /\ k \in Nat
      /\ Len(s) + 1 \in Nat
  BY <1>1, AppendAt
<1>3. \A k \in DOMAIN s : s[k] \in Item \X Nat /\ s[k][2] \in Nat OBVIOUS
<1> HIDE DEF a
<1>4. ASSUME NEW j \in DOMAIN a, NEW k \in DOMAIN a, j < k
      PROVE  a[j][2] < a[k][2]
  <2>1. CASE k \in DOMAIN s
    <3>1. j \in DOMAIN s BY <1>2, <1>4, <2>1
    <3> QED BY <1>2, <1>4, <2>1, <3>1 DEF Rising
  <2>2. CASE k = Len(s) + 1
    <3>1. j \in DOMAIN s BY <1>2, <1>4, <2>2
    <3> QED BY <1>1, <1>2, <2>2, <3>1
  <2> QED BY <1>2, <2>1, <2>2
<1>5. ASSUME NEW k \in DOMAIN a PROVE a[k][2] < n + 1
  BY <1>1, <1>2, <1>3
<1> QED BY <1>4, <1>5 DEF Rising, a, e

LEMMA LogStep ==
  ASSUME TypeOK, LogInv, [Next]_vars PROVE LogInv'
<1> USE DEF LogInv
<1>0. /\ pc \in [Worker -> PC] /\ item \in [Worker -> Item]
      /\ ip \in [Worker -> Nat] /\ logs \in [Worker -> Seq(Item \X Nat)]
      /\ qlogs \in [Item -> Seq(Item \X Nat)]
  BY BasicTypes
<1>1. ASSUME NEW w \in Worker, Claim(w) PROVE LogInv'
  <2>1. /\ qlogs' = qlogs
        /\ \A v \in Worker \ {w} : /\ pc'[v] = pc[v] /\ logs'[v] = logs[v]
                                   /\ ip'[v] = ip[v]
        /\ pc'[w] = "publish" \/ logs'[w] = <<>>
    BY <1>0, <1>1 DEF Claim, Goto, queue
  <2>2. Active(w)' => DOMAIN logs'[w] = {} BY <2>1 DEF Active, ItemPC
  <2> QED BY <2>1, <2>2 DEF Rising, Active
<1>2. ASSUME NEW w \in Worker, Log(w) PROVE LogInv'
  <2>1. /\ qlogs' = qlogs /\ ip' = [ip EXCEPT ![w] = ip[w] + 1]
        /\ logs' = [logs EXCEPT ![w] = Append(logs[w], <<item[w], ip[w]>>)]
    BY <1>2 DEF Log, queue, Advance
  <2>2. Active(w) /\ \A v \in Worker \ {w} : pc'[v] = pc[v]
    BY <1>2, InsideItem DEF Active
  <2>3. logs'[w] = Append(logs[w], <<item[w], ip[w]>>) /\ ip'[w] = ip[w] + 1
    BY <1>0, <2>1
  <2>4. logs[w] \in Seq(Item \X Nat) /\ item[w] \in Item /\ ip[w] \in Nat
    BY <1>0
  <2>5. Rising(logs'[w]) /\ \A k \in DOMAIN logs'[w] : logs'[w][k][2] < ip'[w]
    BY <2>2, <2>3, <2>4, RisingAppend
  <2>6. \A v \in Worker \ {w} : logs'[v] = logs[v] /\ ip'[v] = ip[v]
    BY <1>0, <2>1
  <2>7. \A v \in Worker : Active(v)' =>
          Rising(logs'[v]) /\ \A k \in DOMAIN logs'[v] : logs'[v][k][2] < ip'[v]
    BY <2>2, <2>5, <2>6 DEF Active
  <2> QED BY <2>1, <2>7 DEF Rising
<1>3. ASSUME NEW w \in Worker, Tick(w) \/ Complete(w) \/ Panic(w) \/ CallStep(w)
      PROVE LogInv'
  <2>1. UNCHANGED <<logs, qlogs>>
    BY <1>3, InsideItem DEF queue, Tick, Complete, Panic, CallStep, Call, Wait,
       Flush, Check, Load, CompareAndSwap, Return, ReturnUncatchable, ReturnFatal
  <2>2. \A v \in Worker : Active(v)' => Active(v)
    BY <1>3, InsideItem DEF Active
  <2>3. ASSUME NEW v \in Worker, Active(v), NEW k \in DOMAIN logs[v]
        PROVE  logs[v][k][2] < ip'[v]
    <3>1. ip'[v] = ip[v] \/ ip'[v] = ip[v] + 1 BY <1>3, InsideIp
    <3>2. logs[v][k] \in Item \X Nat BY <1>0
    <3>3. logs[v][k][2] \in Nat /\ ip[v] \in Nat BY <1>0, <3>2
    <3>4. logs[v][k][2] < ip[v] BY <2>3
    <3> QED BY <3>1, <3>3, <3>4
  <2> QED BY <2>1, <2>2, <2>3 DEF Rising
<1>4. ASSUME NEW w \in Worker,
             Publish(w) \/ ConsolePanic(w) \/ AdvanceTurn(w) \/ Unlock(w)
      PROVE LogInv'
  <2>1. qlogs' = qlogs
    BY <1>4 DEF Publish, ConsolePanic, AdvanceTurn, Unlock, queue
  <2> QED BY <1>4, <2>1, OutsideIp DEF FinishStep, Rising
<1>5. ASSUME NEW w \in Worker, Finish(w) PROVE LogInv'
  <2>1. pc[w] = "lock" /\ qlogs' = [qlogs EXCEPT ![item[w]] = logs[w]]
    BY <1>5 DEF Finish
  <2>2. Rising(logs[w]) BY <2>1 DEF Active, ItemPC
  <2>3. \A i \in Item : qlogs'[i] = IF i = item[w] THEN logs[w] ELSE qlogs[i]
    BY <1>0, <2>1
  <2>4. \A i \in Item : Rising(qlogs'[i]) BY <2>2, <2>3
  <2> QED BY <1>5, <2>4, OutsideIp DEF FinishStep, Rising
<1>6. ASSUME NEW w \in Worker, Emit(w) PROVE LogInv'
  <2>1. /\ turn \in Item /\ qlogs[turn] # <<>>
        /\ qlogs' = [qlogs EXCEPT ![turn] = Tail(qlogs[turn])]
    BY <1>6, TurnItem DEF Emit, Releasing
  <2>2. Rising(Tail(qlogs[turn])) BY <1>0, <2>1, RisingTail
  <2>3. \A i \in Item : qlogs'[i] = IF i = turn THEN Tail(qlogs[turn]) ELSE qlogs[i]
    BY <1>0, <2>1
  <2>4. \A i \in Item : Rising(qlogs'[i]) BY <2>2, <2>3
  <2> QED BY <1>6, <2>4, OutsideIp DEF FinishStep, Rising
<1>7. Join \/ Cancel \/ UNCHANGED vars => UNCHANGED <<pc, ip, logs, qlogs>>
  BY DEF Join, Cancel, vars, workerVars, queue
<1>8. UNCHANGED <<pc, ip, logs, qlogs>> => LogInv'
  BY DEF Rising, Active
<1> QED
  BY <1>1, <1>2, <1>3, <1>4, <1>5, <1>6, <1>7, <1>8
  DEF Next, WorkerStep, FinishStep, Terminated

\* What the host has seen belongs to items up to the turn; an item still being
\* run has shown no line yet, and only calls behind its worker's place; the
\* lines still queued come after the ones already out.
Before(a, b) ==
  \/ a[2] < b[2]
  \/ a[2] = b[2] /\ IF a[1] = b[1] THEN a[3] < b[3] ELSE a[1] = "effect"

TraceInv ==
  /\ \A m, n \in DOMAIN trace : m < n => Before(trace[m], trace[n])
  /\ \A n \in DOMAIN trace :
       /\ trace[n][2] <= turn /\ trace[n][2] < next
       /\ trace[n][1] = "line" => done[trace[n][2]]
  /\ \A w \in Worker, n \in DOMAIN trace :
       /\ Active(w) /\ pc[w] \notin Leaving
       /\ trace[n][1] = "effect" /\ trace[n][2] = item[w]
       => IF pc[w] = "dispatch" THEN trace[n][3] <= ip[w] ELSE trace[n][3] < ip[w]
  /\ \A n \in DOMAIN trace : trace[n][1] = "line" =>
       \A k \in DOMAIN qlogs[trace[n][2]] : trace[n][3] < qlogs[trace[n][2]][k][2]

LEMMA BeforeAppend ==
  ASSUME NEW t \in Seq(Event), NEW e \in Event,
         \A m, n \in DOMAIN t : m < n => Before(t[m], t[n]),
         \A m \in DOMAIN t : Before(t[m], e)
  PROVE  \A m, n \in DOMAIN Append(t, e) : m < n => Before(Append(t, e)[m], Append(t, e)[n])
<1> DEFINE a == Append(t, e)
<1>1. /\ DOMAIN a = DOMAIN t \cup {Len(t) + 1} /\ a[Len(t) + 1] = e
      /\ \A k \in DOMAIN t : a[k] = t[k] /\ k < Len(t) + 1 /\ k \in Nat
      /\ Len(t) + 1 \in Nat
  BY AppendAt
<1> HIDE DEF a
<1>2. ASSUME NEW m \in DOMAIN a, NEW n \in DOMAIN a, m < n
      PROVE  Before(a[m], a[n])
  <2>1. m \in DOMAIN t BY <1>1, <1>2
  <2> QED BY <1>1, <1>2, <2>1
<1> QED BY <1>2 DEF a

LEMMA TraceStep ==
  ASSUME TypeOK, OrderInv, LogInv, TraceInv, [Next]_vars PROVE TraceInv'
<1> USE DEF TraceInv
<1>0. /\ pc \in [Worker -> PC] /\ item \in [Worker -> Item]
      /\ ip \in [Worker -> Nat] /\ done \in [Item -> BOOLEAN]
      /\ qlogs \in [Item -> Seq(Item \X Nat)] /\ logs \in [Worker -> Seq(Item \X Nat)]
      /\ turn \in Nat /\ next \in Nat /\ Item \subseteq Int
      /\ trace \in Seq(Event)
  BY BasicTypes DEF TypeOK, HistoryOK, Event
<1>t. \A n \in DOMAIN trace :
        /\ trace[n] \in Event /\ trace[n][2] \in Item /\ trace[n][3] \in Nat
  <2>1. \A n \in DOMAIN trace : trace[n] \in Event BY <1>0
  <2> QED BY <2>1 DEF Event
<1>1. ASSUME NEW w \in Worker, Claim(w) PROVE TraceInv'
  <2>1. /\ next' = next + 1 /\ UNCHANGED <<trace, turn, done, qlogs>>
        /\ \A v \in Worker \ {w} : /\ pc'[v] = pc[v] /\ ip'[v] = ip[v]
                                   /\ item'[v] = item[v]
        /\ pc'[w] = "publish" \/ item'[w] = next
    BY <1>0, <1>1 DEF Claim, Goto, queue, history
  <2>2. \A n \in DOMAIN trace : trace[n][2] < next' /\ trace[n][2] # next
    <3> SUFFICES ASSUME NEW n \in DOMAIN trace
                 PROVE  trace[n][2] < next' /\ trace[n][2] # next
      OBVIOUS
    <3>1. trace[n][2] \in Int /\ trace[n][2] < next BY <1>0, <1>t
    <3> QED BY <1>0, <2>1, <3>1
  <2>3. ASSUME NEW v \in Worker, NEW n \in DOMAIN trace, Active(v)',
               pc'[v] \notin Leaving, trace[n][1] = "effect", trace[n][2] = item'[v]
        PROVE  IF pc'[v] = "dispatch" THEN trace[n][3] <= ip'[v] ELSE trace[n][3] < ip'[v]
    <3>1. v # w BY <2>1, <2>2, <2>3 DEF Active, ItemPC
    <3> QED BY <2>1, <2>3, <3>1 DEF Active
  <2> QED BY <2>1, <2>2, <2>3
<1>2. ASSUME NEW w \in Worker, trace' = trace,
             \/ Tick(w) \/ Log(w) \/ Complete(w) \/ Panic(w) \/ CallStep(w)
      PROVE TraceInv'
  <2>1. /\ UNCHANGED <<next, item, turn, done, qlogs>>
        /\ \A v \in Worker \ {w} : pc'[v] = pc[v] /\ ip'[v] = ip[v]
        /\ Active(w) /\ pc[w] \notin Leaving
    BY <1>2, InsideItem, InsideOutcome, InsideIp DEF queue, Active
  <2>2. ASSUME NEW n \in DOMAIN trace, pc'[w] \notin Leaving,
               trace[n][1] = "effect", trace[n][2] = item[w]
        PROVE  IF pc'[w] = "dispatch" THEN trace[n][3] <= ip'[w] ELSE trace[n][3] < ip'[w]
    <3>1. trace[n][3] \in Nat /\ ip[w] \in Nat BY <1>0, <1>t
    <3>2. IF pc[w] = "dispatch" THEN trace[n][3] <= ip[w] ELSE trace[n][3] < ip[w]
      BY <2>1, <2>2
    <3>3. \/ ip'[w] = ip[w] + 1 /\ pc'[w] = "run"
          \/ ip'[w] = ip[w] /\ pc[w] # "dispatch"
      BY <1>2, <2>2, InsideIp
    <3> QED BY <3>1, <3>2, <3>3
  <2>3. ASSUME NEW v \in Worker, NEW n \in DOMAIN trace, Active(v)',
               pc'[v] \notin Leaving, trace[n][1] = "effect", trace[n][2] = item'[v]
        PROVE  IF pc'[v] = "dispatch" THEN trace[n][3] <= ip'[v] ELSE trace[n][3] < ip'[v]
    <3>1. CASE v = w BY <2>1, <2>2, <2>3, <3>1
    <3>2. CASE v # w BY <2>1, <2>3, <3>2 DEF Active
    <3> QED BY <3>1, <3>2
  <2> QED BY <1>2, <2>1, <2>3
<1>3. ASSUME NEW w \in Worker, CompareAndSwap(w), CurrentOp(w) \in OrderedOp,
             trace' = Append(trace, <<"effect", item[w], ip[w]>>), trace' # trace
      PROVE TraceInv'
  <2> DEFINE e == <<"effect", item[w], ip[w]>>
  <2>1. /\ pc[w] = "cas" /\ pc' = [pc EXCEPT ![w] = "dispatch"]
        /\ UNCHANGED <<next, item, ip, turn, done, qlogs>>
    BY <1>3 DEF CompareAndSwap, BeginDispatch, Goto, queue
  <2>2. /\ item[w] \in Item /\ item[w] = turn /\ item[w] < next /\ ~done[item[w]]
        /\ Active(w) /\ pc[w] \notin Leaving /\ ip[w] \in Nat
    BY <1>0, <1>3, <2>1, EffectAtTurn DEF EffectPC, Active, ItemPC, Leaving
  <2>3. e \in Event /\ e[1] = "effect" /\ e[2] = item[w] /\ e[3] = ip[w]
    BY <2>2 DEF Event
  <2> HIDE DEF e
  <2>4. /\ DOMAIN trace' = DOMAIN trace \cup {Len(trace) + 1}
        /\ trace'[Len(trace) + 1] = e
        /\ \A n \in DOMAIN trace : trace'[n] = trace[n]
    BY <1>0, <1>3, <2>3, AppendAt DEF e
  <2>5. ASSUME NEW n \in DOMAIN trace PROVE Before(trace[n], e)
    <3>1. trace[n][2] <= turn /\ trace[n][2] \in Int /\ trace[n][3] \in Nat
      BY <1>0, <1>t
    <3>2. CASE trace[n][2] = turn
      <4>1. trace[n][1] # "line" BY <2>2, <3>2
      <4>2. trace[n][1] = "effect" BY <1>t, <4>1 DEF Event
      <4>3. trace[n][3] < ip[w] BY <2>1, <2>2, <3>2, <4>2
      <4> QED BY <2>2, <2>3, <3>2, <4>2, <4>3 DEF Before
    <3>3. CASE trace[n][2] # turn
      <4>1. trace[n][2] < turn BY <1>0, <3>1, <3>3
      <4> QED BY <2>2, <2>3, <4>1 DEF Before
    <3> QED BY <3>2, <3>3
  <2>6. \A m, n \in DOMAIN trace' : m < n => Before(trace'[m], trace'[n])
    <3>1. trace' = Append(trace, e) BY <1>3 DEF e
    <3> QED BY <1>0, <2>3, <2>5, <3>1, BeforeAppend
  <2>7. \A n \in DOMAIN trace' :
          /\ trace'[n][2] <= turn' /\ trace'[n][2] < next'
          /\ trace'[n][1] = "line" => done'[trace'[n][2]]
    BY <1>0, <2>1, <2>2, <2>3, <2>4
  <2>8. ASSUME NEW v \in Worker, NEW n \in DOMAIN trace', Active(v)',
               pc'[v] \notin Leaving, trace'[n][1] = "effect", trace'[n][2] = item'[v]
        PROVE  IF pc'[v] = "dispatch" THEN trace'[n][3] <= ip'[v] ELSE trace'[n][3] < ip'[v]
    <3>1. CASE n = Len(trace) + 1
      <4>1. pc'[v] = pc[v] \/ v = w BY <1>0, <2>1
      <4>2. Active(v) BY <2>2, <2>8, <4>1 DEF Active
      <4>3. item[v] = item[w] BY <2>1, <2>3, <2>4, <2>8, <3>1
      <4>4. v = w BY <2>2, <4>2, <4>3 DEF OrderInv, ClaimInv
      <4>5. pc'[v] = "dispatch" BY <1>0, <2>1, <4>4
      <4> QED BY <2>1, <2>2, <2>3, <2>4, <3>1, <4>4, <4>5
    <3>2. CASE n # Len(trace) + 1
      <4>1. n \in DOMAIN trace /\ trace'[n] = trace[n] BY <2>4, <3>2
      <4>2. CASE v = w
        <5>1. trace[n][3] < ip[w] /\ pc'[v] = "dispatch"
          BY <1>0, <2>1, <2>2, <2>8, <4>1, <4>2
        <5>2. trace[n][3] \in Nat BY <1>t, <4>1
        <5> QED BY <2>1, <2>2, <4>1, <4>2, <5>1, <5>2
      <4>3. CASE v # w
        <5>1. pc'[v] = pc[v] BY <1>0, <2>1, <4>3
        <5> QED BY <2>1, <2>8, <4>1, <5>1 DEF Active
      <4> QED BY <4>2, <4>3
    <3> QED BY <3>1, <3>2
  <2>9. \A n \in DOMAIN trace' : trace'[n][1] = "line" =>
          \A k \in DOMAIN qlogs'[trace'[n][2]] : trace'[n][3] < qlogs'[trace'[n][2]][k][2]
    BY <2>1, <2>3, <2>4
  <2> QED BY <2>6, <2>7, <2>8, <2>9
\* Enough for the steps outside an item that keep the trace.
<1>4. ASSUME NEW w \in Worker, Publish(w) \/ FinishStep(w), trace' = trace,
             turn' >= turn, turn' \in Nat,
             \A i \in Item : done[i] => done'[i],
             \A i \in Item : done[i] => qlogs'[i] = qlogs[i]
      PROVE TraceInv'
  <2>1. \A n \in DOMAIN trace :
          /\ trace[n][2] <= turn' /\ trace[n][2] < next'
          /\ trace[n][1] = "line" => done'[trace[n][2]]
    <3> SUFFICES ASSUME NEW n \in DOMAIN trace
                 PROVE /\ trace[n][2] <= turn' /\ trace[n][2] < next'
                       /\ trace[n][1] = "line" => done'[trace[n][2]]
      OBVIOUS
    <3>1. trace[n][2] \in Item /\ trace[n][2] \in Int BY <1>0, <1>t
    <3> QED BY <1>0, <1>4, <3>1, OutsideIp
  <2>2. \A n \in DOMAIN trace : trace[n][1] = "line" =>
          \A k \in DOMAIN qlogs'[trace[n][2]] : trace[n][3] < qlogs'[trace[n][2]][k][2]
    BY <1>4, <1>t
  <2>3. ASSUME NEW v \in Worker, NEW n \in DOMAIN trace, Active(v)',
               pc'[v] \notin Leaving, trace[n][1] = "effect", trace[n][2] = item'[v]
        PROVE  IF pc'[v] = "dispatch" THEN trace[n][3] <= ip'[v] ELSE trace[n][3] < ip'[v]
    BY <1>4, <2>3, OutsideIp
  <2> QED BY <1>4, <2>1, <2>2, <2>3
<1>5. ASSUME NEW w \in Worker, Finish(w) PROVE TraceInv'
  <2>1. /\ pc[w] = "lock" /\ UNCHANGED <<trace, turn>>
        /\ done' = [done EXCEPT ![item[w]] = TRUE]
        /\ qlogs' = [qlogs EXCEPT ![item[w]] = logs[w]]
    BY <1>5 DEF Finish, history
  <2>2. ~done[item[w]] BY <2>1 DEF OrderInv, ClaimInv, Active, ItemPC
  <2>3. turn' >= turn /\ turn' \in Nat BY <1>0, <2>1
  <2>4. \A i \in Item : done[i] => done'[i] BY <1>0, <2>1
  <2>5. \A i \in Item : done[i] => qlogs'[i] = qlogs[i] BY <1>0, <2>1, <2>2
  <2>6. FinishStep(w) BY <1>5 DEF FinishStep
  <2> QED BY <1>4, <2>1, <2>3, <2>4, <2>5, <2>6
<1>6. ASSUME NEW w \in Worker, AdvanceTurn(w) PROVE TraceInv'
  <2>1. turn' = turn + 1 /\ UNCHANGED <<trace, done, qlogs>>
    BY <1>6 DEF AdvanceTurn, history
  <2>2. turn' >= turn /\ turn' \in Nat BY <1>0, <2>1
  <2>3. FinishStep(w) BY <1>6 DEF FinishStep
  <2> QED BY <1>4, <2>1, <2>2, <2>3
<1>7. ASSUME NEW w \in Worker, Publish(w) \/ ConsolePanic(w) \/ Unlock(w)
      PROVE TraceInv'
  <2>1. UNCHANGED <<trace, turn, done, qlogs>>
    BY <1>7 DEF Publish, ConsolePanic, Unlock, history, queue
  <2>2. turn' >= turn /\ turn' \in Nat BY <1>0, <2>1
  <2>3. Publish(w) \/ FinishStep(w) BY <1>7 DEF FinishStep
  <2> QED BY <1>4, <2>1, <2>2, <2>3
<1>8. ASSUME NEW w \in Worker, Emit(w) PROVE TraceInv'
  <2> DEFINE line == Head(qlogs[turn])
             e == <<"line", line[1], line[2]>>
  <2>1. /\ turn \in Item /\ done[turn] /\ qlogs[turn] # <<>>
        /\ trace' = Append(trace, e)
        /\ qlogs' = [qlogs EXCEPT ![turn] = Tail(qlogs[turn])]
        /\ UNCHANGED <<done, turn, pc, item, ip, next>>
    BY <1>8, TurnItem DEF Emit, Releasing, workerVars
  <2>2. line \in {turn} \X Nat
    <3>1. qlogs[turn] \in Seq({turn} \X Nat) BY <2>1 DEF OrderInv, QueueInv
    <3> QED BY <2>1, <3>1, TailAt
  <2>3. line[1] = turn /\ line[2] \in Nat BY <2>2
  <2>4. e \in Event /\ e[1] = "line" /\ e[2] = turn /\ e[3] = line[2]
    BY <2>1, <2>3 DEF Event
  <2>5. turn < next BY <2>1 DEF OrderInv, ClaimInv
  <2>6. 1 \in DOMAIN qlogs[turn] /\ line = qlogs[turn][1] BY <1>0, <2>1, TailAt
  <2>7. /\ \A k \in DOMAIN Tail(qlogs[turn]) : line[2] < Tail(qlogs[turn])[k][2]
        /\ \A k \in DOMAIN Tail(qlogs[turn]) :
             k + 1 \in DOMAIN qlogs[turn] /\ Tail(qlogs[turn])[k] = qlogs[turn][k + 1]
    BY <1>0, <2>1, RisingTail, TailAt DEF LogInv
  <2> HIDE DEF e, line
  <2>8. /\ DOMAIN trace' = DOMAIN trace \cup {Len(trace) + 1}
        /\ trace'[Len(trace) + 1] = e
        /\ \A n \in DOMAIN trace : trace'[n] = trace[n]
    BY <1>0, <2>1, <2>4, AppendAt
  <2>9. \A i \in Item : qlogs'[i] = IF i = turn THEN Tail(qlogs[turn]) ELSE qlogs[i]
    BY <1>0, <2>1
  <2>10. ASSUME NEW n \in DOMAIN trace PROVE Before(trace[n], e)
    <3>1. trace[n][2] <= turn /\ trace[n][2] \in Int /\ trace[n][1] \in {"effect", "line"}
      BY <1>0, <1>t DEF Event
    <3>2. CASE trace[n][2] = turn
      <4>1. trace[n][1] = "line" => trace[n][3] < line[2] BY <2>6, <3>2
      <4> QED BY <2>4, <3>1, <3>2, <4>1 DEF Before
    <3>3. CASE trace[n][2] # turn
      <4>1. trace[n][2] < turn BY <1>0, <3>1, <3>3
      <4> QED BY <2>4, <4>1 DEF Before
    <3> QED BY <3>2, <3>3
  <2>11. \A m, n \in DOMAIN trace' : m < n => Before(trace'[m], trace'[n])
    BY <1>0, <2>1, <2>4, <2>10, BeforeAppend
  <2>12. \A n \in DOMAIN trace' :
          /\ trace'[n][2] <= turn' /\ trace'[n][2] < next'
          /\ trace'[n][1] = "line" => done'[trace'[n][2]]
    BY <1>0, <2>1, <2>4, <2>5, <2>8
  <2>13. ASSUME NEW v \in Worker, NEW n \in DOMAIN trace', Active(v)',
               pc'[v] \notin Leaving, trace'[n][1] = "effect", trace'[n][2] = item'[v]
        PROVE  IF pc'[v] = "dispatch" THEN trace'[n][3] <= ip'[v] ELSE trace'[n][3] < ip'[v]
    BY <2>1, <2>4, <2>8, <2>13 DEF Active
  <2>14. ASSUME NEW n \in DOMAIN trace', trace'[n][1] = "line",
                NEW k \in DOMAIN qlogs'[trace'[n][2]]
         PROVE  trace'[n][3] < qlogs'[trace'[n][2]][k][2]
    <3>1. CASE n = Len(trace) + 1
      <4>1. trace'[n][2] = turn /\ trace'[n][3] = line[2] BY <2>4, <2>8, <3>1
      <4>2. qlogs'[trace'[n][2]] = Tail(qlogs[turn]) BY <2>1, <2>9, <4>1
      <4> QED BY <2>7, <2>14, <4>1, <4>2
    <3>2. CASE n # Len(trace) + 1
      <4>1. n \in DOMAIN trace /\ trace'[n] = trace[n] /\ trace[n][2] \in Item
        BY <1>t, <2>8, <3>2
      <4>2. CASE trace[n][2] = turn
        <5>1. qlogs'[trace'[n][2]] = Tail(qlogs[turn]) BY <2>9, <4>1, <4>2
        <5>2. k + 1 \in DOMAIN qlogs[turn] /\ Tail(qlogs[turn])[k] = qlogs[turn][k + 1]
          BY <2>7, <2>14, <5>1
        <5>3. trace[n][3] < qlogs[turn][k + 1][2] BY <2>14, <4>1, <4>2, <5>2
        <5> QED BY <4>1, <5>1, <5>2, <5>3
      <4>3. CASE trace[n][2] # turn
        BY <2>9, <2>14, <4>1, <4>3
      <4> QED BY <4>2, <4>3
    <3> QED BY <3>1, <3>2
  <2> QED BY <2>11, <2>12, <2>13, <2>14
<1>9. Join \/ Cancel \/ UNCHANGED vars
        => UNCHANGED <<trace, turn, next, done, pc, item, ip, qlogs>>
  BY DEF Join, Cancel, vars, workerVars, queue, history
<1>10. UNCHANGED <<trace, turn, next, done, pc, item, ip, qlogs>> => TraceInv'
  BY DEF Active
<1>11. ASSUME NEW w \in Worker, CallStep(w), trace' # trace
       PROVE  /\ CompareAndSwap(w) /\ CurrentOp(w) \in OrderedOp
              /\ trace' = Append(trace, <<"effect", item[w], ip[w]>>)
  BY <1>11 DEF CallStep, Call, Wait, Flush, Check, Load, CompareAndSwap,
     BeginDispatch, Return, ReturnUncatchable, ReturnFatal, history
<1>12. ASSUME NEW w \in Worker, Tick(w) \/ Log(w) \/ Complete(w) \/ Panic(w)
       PROVE  trace' = trace
  BY <1>12 DEF Tick, Log, Complete, Panic, history
<1> QED
  BY <1>1, <1>2, <1>3, <1>5, <1>6, <1>7, <1>8, <1>9, <1>10, <1>11, <1>12
  DEF Next, WorkerStep, FinishStep, Terminated

LEMMA TraceInit == Init => LogInv /\ TraceInv
<1> SUFFICES ASSUME Init PROVE LogInv /\ TraceInv
  OBVIOUS
<1>1. /\ \A w \in Worker : pc[w] = "claim"
      /\ \A i \in Item : qlogs[i] = <<>>
      /\ trace = <<>>
  BY DEF Init
<1>2. DOMAIN trace = {} /\ \A i \in Item : DOMAIN qlogs[i] = {} BY <1>1
<1> QED BY <1>1, <1>2 DEF LogInv, TraceInv, Rising, Active, ItemPC

\* What the host has seen is in order so far, and what is still held can only
\* come after it.
THEOREM TraceInvariant == Spec => [](LogInv /\ TraceInv)
<1>1. TypeOK /\ OrderInv /\ LogInv /\ TraceInv /\ [Next]_vars => (LogInv /\ TraceInv)'
  BY LogStep, TraceStep
<1> QED BY <1>1, TraceInit, TypeCorrect, OrderInvariant, PTL DEF Spec

\* Whichever workers ran the items and however they interleaved, the host sees
\* what one worker running them in turn would show it: item by item, each
\* item's ordered calls in program order and then its lines in program order.
THEOREM TraceInItemOrder == Spec => []OrderedTrace
<1>1. TraceInv => OrderedTrace
  BY DEF TraceInv, Before, OrderedTrace
<1> QED BY <1>1, TraceInvariant, PTL

============================================================================
