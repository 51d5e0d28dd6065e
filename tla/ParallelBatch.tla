--------------------------- MODULE ParallelBatch ---------------------------
(***************************************************************************)
(* The parallel path of rt.runBatch (call.go): the items of one            *)
(* Promise.all / Promise.allSettled batch run on several goroutines, each  *)
(* with an rt of its own.  Shared between them are the execution's atomic  *)
(* counters and flags (execute.go) and the batch's sequencer (call.go),    *)
(* which orders host functions, sequential tools and console output.       *)
(*                                                                         *)
(* An item's script is abstracted to the finite sequence of its operations *)
(* that touch shared state (Op).  A script that catches the exception of a *)
(* call goes on with the next operation; one that does not ends the item.  *)
(***************************************************************************)
EXTENDS Integers, Sequences, FiniteSets

CONSTANTS
  N,             \* items of the batch
  Worker,        \* the goroutines: min(N, Parallelism) of them, two or more
  Batches,       \* the batches considered: [settled, items: [Item -> Seq(Op)]]
  MaxCalls,      \* ExecuteOptions.MaxCalls
  MaxHostCalls,  \* ExecuteOptions.MaxHostCalls
  MaxSteps,      \* ExecuteOptions.MaxSteps
  StepBatch,     \* execution.batch: steps a worker takes per publication
  Faults,        \* what the host and the environment may do, see Fault
  NoWorker,      \* the sequencer's mutex is free
  NoItem         \* no fatal error is recorded

Item == 0..(N - 1)

\* tool: a tool call the host lets overlap; seqtool: one of SequentialTools;
\* host: a host function; overflow: a call past MaxCallDepth; panic: a defect
\* of the interpreter itself, surfacing as a Go panic.
Op == {"tick", "log", "tool", "seqtool", "host", "throw", "overflow", "panic"}
OrderedOp == {"seqtool", "host"}

Fault == {"cancel", "fatal", "hostPanic", "consolePanic"}

Outcome == {"none", "value", "throw", "plain", "fulfilled", "rejected"}
Result == {"none", "array", "throw", "plain", "panic", "cancelled"}

ItemPC == {"run", "wait", "asleep", "flush", "check", "load", "cas",
           "dispatch", "lock", "release"}
PC == ItemPC \cup {"claim", "publish", "exited", "dead"}

ASSUME BatchAssumption ==
  /\ N \in Nat
  /\ Batches \subseteq [settled : BOOLEAN, items : [Item -> Seq(Op)]]
  /\ MaxCalls \in Nat /\ MaxHostCalls \in Nat /\ MaxSteps \in Nat
  /\ StepBatch \in Nat \ {0}
  /\ Faults \subseteq Fault
  /\ NoWorker \notin Worker
  /\ NoItem \notin Item

ASSUME WorkerAssumption ==
  IsFiniteSet(Worker) /\ Cardinality(Worker) \in 2..N

VARIABLES
  batch,      \* the call: its kind and what each item does; never changes
  next,       \* the atomic claim counter
  pc, item, ip, pending, logs, seen, dying,    \* per worker
  steps, calls, hostCalls,                     \* execution's atomic counters
  aborted, fatal, panicked, cancelled,
  mu, done, qlogs, turn,                       \* the sequencer
  out,        \* runBatch's out and errs slices, one outcome per item
  result,     \* what runBatch returns once every worker is joined
  trace,      \* history: ordered dispatches and released console lines
  printed,    \* history: the console lines the items wrote
  ticks,      \* history: steps really taken
  sent,       \* history: dispatches begun
  late        \* history: dispatches begun after a fatal error was recorded

workerVars == <<next, pc, item, ip, pending, logs, seen, dying>>
counters == <<steps, calls, hostCalls>>
flags == <<aborted, fatal, panicked, cancelled>>
queue == <<mu, done, qlogs, turn>>
history == <<trace, printed, ticks, sent, late>>
vars == <<batch, workerVars, counters, flags, queue, out, result, history>>

WorkersOK ==
  /\ next \in Nat
  /\ pc \in [Worker -> PC]
  /\ item \in [Worker -> Item]
  /\ ip \in [Worker -> Nat]
  /\ pending \in [Worker -> Nat]
  /\ logs \in [Worker -> Seq(Item \X Nat)]
  /\ seen \in [Worker -> Nat]
  /\ dying \in [Worker -> BOOLEAN]

SharedOK ==
  /\ steps \in Nat /\ calls \in Nat /\ hostCalls \in Nat
  /\ aborted \in BOOLEAN /\ panicked \in BOOLEAN /\ cancelled \in BOOLEAN
  /\ fatal \in Item \cup {NoItem}

QueueOK ==
  /\ mu \in Worker \cup {NoWorker}
  /\ done \in [Item -> BOOLEAN]
  /\ qlogs \in [Item -> Seq(Item \X Nat)]
  /\ turn \in 0..N

OutcomeOK ==
  /\ batch \in Batches
  /\ out \in [Item -> Outcome]
  /\ result \in Result

HistoryOK ==
  /\ trace \in Seq({"effect", "line"} \X Item \X Nat)
  /\ printed \subseteq Item \X Nat
  /\ ticks \in Nat /\ sent \in Nat /\ late \in Nat

TypeOK == WorkersOK /\ SharedOK /\ QueueOK /\ OutcomeOK /\ HistoryOK

Init ==
  /\ batch \in Batches
  /\ next = 0
  /\ pc = [w \in Worker |-> "claim"]
  /\ item = [w \in Worker |-> 0]
  /\ ip = [w \in Worker |-> 1]
  /\ pending = [w \in Worker |-> 0]
  /\ logs = [w \in Worker |-> <<>>]
  /\ seen = [w \in Worker |-> 0]
  /\ dying = [w \in Worker |-> FALSE]
  /\ steps = 0 /\ calls = 0 /\ hostCalls = 0
  /\ aborted = FALSE /\ panicked = FALSE /\ cancelled = FALSE
  /\ fatal = NoItem
  /\ mu = NoWorker
  /\ done = [i \in Item |-> FALSE]
  /\ qlogs = [i \in Item |-> <<>>]
  /\ turn = 0
  /\ out = [i \in Item |-> "none"]
  /\ result = "none"
  /\ trace = <<>> /\ printed = {} /\ ticks = 0 /\ sent = 0 /\ late = 0

---------------------------------------------------------------------------
Goto(w, label) == pc' = [pc EXCEPT ![w] = label]

Script(w) == batch.items[item[w]]
Finished(w) == ip[w] > Len(Script(w))
CurrentOp(w) == Script(w)[ip[w]]
At(w, ops) == pc[w] = "run" /\ ~Finished(w) /\ CurrentOp(w) \in ops

\* Each operator named Definition_Fault is a plausible bug in that definition,
\* against which the properties are tested; no specification here uses one.

Settle_EveryError(o) ==
  IF ~batch.settled \/ o = "none" THEN o
  ELSE IF o = "value" THEN "fulfilled" ELSE "rejected"

\* allSettled turns a value or a Throw into a record; other errors stay errors.
Settle(o) ==
  CASE batch.settled /\ o = "value" -> "fulfilled"
    [] batch.settled /\ o = "throw" -> "rejected"
    [] OTHER -> o

EndItem(w, o) ==
  /\ out' = [out EXCEPT ![item[w]] = Settle(o)]
  /\ Goto(w, "lock")
  /\ UNCHANGED ip

Advance(w) ==
  /\ ip' = [ip EXCEPT ![w] = @ + 1]
  /\ Goto(w, "run")
  /\ UNCHANGED out

\* A catchable error: try/catch handles it unless the execution is aborted.
Thrown(w) == (~aborted /\ Advance(w)) \/ EndItem(w, "throw")

NoMoreItems_Early == next >= N - 1
NoMoreItems_Late == next > N

NoMoreItems == next >= N

Claim(w) ==
  /\ pc[w] = "claim"
  /\ next' = next + 1
  /\ IF NoMoreItems
     THEN /\ Goto(w, "publish")
          /\ UNCHANGED <<item, ip, logs>>
     ELSE /\ item' = [item EXCEPT ![w] = next]
          /\ ip' = [ip EXCEPT ![w] = 1]
          /\ logs' = [logs EXCEPT ![w] = <<>>]
          /\ Goto(w, "run")
  /\ UNCHANGED <<batch, pending, seen, dying, counters, flags, queue, out,
                 result, history>>

Publish_Forgets(w) ==
  /\ pc[w] = "publish"
  /\ Goto(w, "exited")
  /\ UNCHANGED <<batch, next, item, ip, pending, logs, seen, dying, counters,
                 flags, queue, out, result, history>>

Publish(w) ==
  /\ pc[w] = "publish"
  /\ steps' = steps + pending[w]
  /\ Goto(w, "exited")
  /\ UNCHANGED <<batch, next, item, ip, pending, logs, seen, dying, calls,
                 hostCalls, flags, queue, out, result, history>>

---------------------------------------------------------------------------
(* Steps, console lines, and the ways a script ends by itself.             *)

Tick(w) ==
  /\ At(w, {"tick"})
  /\ pending' = [pending EXCEPT ![w] = @ + 1]
  /\ ticks' = ticks + 1
  /\ IF pending[w] + 1 < StepBatch
     THEN Advance(w)
     ELSE Goto(w, "flush") /\ UNCHANGED <<ip, out>>
  /\ UNCHANGED <<batch, next, item, logs, seen, dying, counters, flags,
                 queue, result, trace, printed, sent, late>>

Log(w) ==
  /\ At(w, {"log"})
  /\ logs' = [logs EXCEPT ![w] = Append(@, <<item[w], ip[w]>>)]
  /\ printed' = printed \cup {<<item[w], ip[w]>>}
  /\ Advance(w)
  /\ UNCHANGED <<batch, next, item, pending, seen, dying, counters, flags,
                 queue, result, trace, ticks, sent, late>>

Complete(w) ==
  /\ pc[w] = "run"
  /\ \/ Finished(w) /\ EndItem(w, "value")
     \/ At(w, {"throw"}) /\ EndItem(w, "throw")
     \/ At(w, {"overflow"}) /\ EndItem(w, "plain")
  /\ UNCHANGED <<batch, next, item, pending, logs, seen, dying, counters,
                 flags, queue, result, history>>

\* A Go panic leaves the item without a result; finish still runs (deferred).
Panic(w) ==
  /\ At(w, {"panic"})
  /\ dying' = [dying EXCEPT ![w] = TRUE]
  /\ Goto(w, "lock")
  /\ UNCHANGED <<batch, next, item, ip, pending, logs, seen, counters, flags,
                 queue, out, result, history>>

---------------------------------------------------------------------------
(* One tool or host call: callTool / callHost, then effect.                *)

TakesTurn_HostOnly(w) == CurrentOp(w) = "host"

TakesTurn(w) == CurrentOp(w) \in OrderedOp

Call(w) ==
  /\ At(w, {"tool"} \cup OrderedOp)
  /\ Goto(w, IF TakesTurn(w) THEN "wait" ELSE "flush")
  /\ UNCHANGED <<batch, next, item, ip, pending, logs, seen, dying, counters,
                 flags, queue, out, result, history>>

MustWait_OneLess(w) == turn + 1 < item[w]

MustWait(w) == turn < item[w]

\* sequencer.wait: the lock is held only to compare, or to join the wait set.
Wait(w) ==
  /\ pc[w] = "wait"
  /\ mu = NoWorker
  /\ Goto(w, IF MustWait(w) THEN "asleep" ELSE "flush")
  /\ UNCHANGED <<batch, next, item, ip, pending, logs, seen, dying, counters,
                 flags, queue, out, result, history>>

OverLimit_Exactly(n) == n = MaxSteps + 1

OverLimit(n) == n > MaxSteps

Flush(w) ==
  /\ pc[w] = "flush"
  /\ steps' = steps + pending[w]
  /\ pending' = [pending EXCEPT ![w] = 0]
  /\ IF OverLimit(steps')
     THEN EndItem(w, "plain")
     ELSE Goto(w, "check") /\ UNCHANGED <<ip, out>>
  /\ UNCHANGED <<batch, next, item, logs, seen, dying, calls, hostCalls,
                 flags, queue, result, history>>

Stopped_OnCancelOnly == cancelled

Stopped == aborted \/ cancelled

\* The second half of flush, and effect's own look at the context.
Check(w) ==
  /\ pc[w] = "check"
  /\ IF Stopped THEN EndItem(w, "plain")
     ELSE IF CurrentOp(w) = "tick" THEN Advance(w)
     ELSE Goto(w, "load") /\ UNCHANGED <<ip, out>>
  /\ UNCHANGED <<batch, next, item, pending, logs, seen, dying, counters,
                 flags, queue, result, history>>

Counter(w) == IF CurrentOp(w) = "host" THEN hostCalls ELSE calls
Limit(w) == IF CurrentOp(w) = "host" THEN MaxHostCalls ELSE MaxCalls

Load(w) ==
  /\ pc[w] = "load"
  /\ IF Counter(w) >= Limit(w)
     THEN Thrown(w) /\ UNCHANGED seen
     ELSE /\ seen' = [seen EXCEPT ![w] = Counter(w)]
          /\ Goto(w, "cas")
          /\ UNCHANGED <<ip, out>>
  /\ UNCHANGED <<batch, next, item, pending, logs, dying, counters, flags,
                 queue, result, history>>

BeginDispatch(w) ==
  /\ Goto(w, "dispatch")
  /\ sent' = sent + 1
  /\ late' = IF aborted THEN late + 1 ELSE late
  /\ trace' = IF CurrentOp(w) \in OrderedOp
              THEN Append(trace, <<"effect", item[w], ip[w]>>)
              ELSE trace

Swaps_Blindly(w) == seen[w] < Limit(w)

Swaps(w) == Counter(w) = seen[w]

CompareAndSwap(w) ==
  /\ pc[w] = "cas"
  /\ IF Swaps(w)
     THEN /\ BeginDispatch(w)
          /\ IF CurrentOp(w) = "host"
             THEN hostCalls' = seen[w] + 1 /\ UNCHANGED calls
             ELSE calls' = seen[w] + 1 /\ UNCHANGED hostCalls
     ELSE Goto(w, "load") /\ UNCHANGED <<calls, hostCalls, trace, sent, late>>
  /\ UNCHANGED <<batch, next, item, ip, pending, logs, seen, dying, steps,
                 flags, queue, out, result, printed, ticks>>

\* The host returns data, or an ordinary error that becomes an exception.
Return(w) ==
  /\ pc[w] = "dispatch"
  /\ Advance(w) \/ Thrown(w)
  /\ UNCHANGED <<batch, next, item, pending, logs, seen, dying, counters,
                 flags, queue, result, history>>

\* A host panic, or the context's own error handed back by the host.
ReturnUncatchable(w) ==
  /\ pc[w] = "dispatch"
  /\ "hostPanic" \in Faults \/ cancelled
  /\ EndItem(w, "plain")
  /\ UNCHANGED <<batch, next, item, pending, logs, seen, dying, counters,
                 flags, queue, result, history>>

ReturnFatal(w) ==
  /\ pc[w] = "dispatch"
  /\ "fatal" \in Faults
  /\ fatal' = IF fatal = NoItem THEN item[w] ELSE fatal
  /\ aborted' = TRUE
  /\ EndItem(w, "plain")
  /\ UNCHANGED <<batch, next, item, pending, logs, seen, dying, counters,
                 panicked, cancelled, queue, result, history>>

---------------------------------------------------------------------------
(* sequencer.finish, deferred by every item: it holds the mutex while it   *)
(* hands the lines of the finished items to the host.                      *)

Finish(w) ==
  /\ pc[w] = "lock"
  /\ mu = NoWorker
  /\ mu' = w
  /\ done' = [done EXCEPT ![item[w]] = TRUE]
  /\ qlogs' = [qlogs EXCEPT ![item[w]] = logs[w]]
  /\ Goto(w, "release")
  /\ UNCHANGED <<batch, next, item, ip, pending, logs, seen, dying, counters,
                 flags, turn, out, result, history>>

Releasing_AllButLast(w) == pc[w] = "release" /\ turn < N - 1 /\ done[turn]

Releasing(w) == pc[w] = "release" /\ turn < N /\ done[turn]

Emit(w) ==
  /\ Releasing(w)
  /\ qlogs[turn] # <<>>
  /\ LET line == Head(qlogs[turn])
     IN  trace' = Append(trace, <<"line", line[1], line[2]>>)
  /\ qlogs' = [qlogs EXCEPT ![turn] = Tail(@)]
  /\ UNCHANGED <<batch, workerVars, counters, flags, mu, done, turn, out,
                 result, printed, ticks, sent, late>>

\* The host's Console panics: nothing unlocks the mutex on the way out.
ConsolePanic(w) ==
  /\ "consolePanic" \in Faults
  /\ Releasing(w)
  /\ qlogs[turn] # <<>>
  /\ panicked' = TRUE
  /\ Goto(w, "dead")
  /\ UNCHANGED <<batch, next, item, ip, pending, logs, seen, dying, counters,
                 aborted, fatal, cancelled, queue, out, result, history>>

AdvanceTurn(w) ==
  /\ Releasing(w)
  /\ qlogs[turn] = <<>>
  /\ turn' = turn + 1
  /\ UNCHANGED <<batch, workerVars, counters, flags, mu, done, qlogs, out,
                 result, history>>

WakesUp_One(v) == v = CHOOSE u \in Worker : pc[u] = "asleep"

WakesUp(v) == pc[v] = "asleep"

\* Broadcast and unlock; a panicking worker then records the panic and ends.
Unlock(w) ==
  /\ pc[w] = "release"
  /\ ~Releasing(w)
  /\ mu' = NoWorker
  /\ pc' = [v \in Worker |->
              IF v = w THEN IF dying[w] THEN "dead" ELSE "claim"
              ELSE IF pc[v] = "asleep" /\ WakesUp(v) THEN "wait" ELSE pc[v]]
  /\ panicked' = (panicked \/ dying[w])
  /\ UNCHANGED <<batch, next, item, ip, pending, logs, seen, dying, counters,
                 aborted, fatal, cancelled, done, qlogs, turn, out, result,
                 history>>

---------------------------------------------------------------------------
Failed == {i \in Item : out[i] \in {"throw", "plain"}}

\* The goroutine that called runBatch, after wg.Wait.
Join ==
  /\ result = "none"
  /\ \A w \in Worker : pc[w] \in {"exited", "dead"}
  /\ \/ panicked /\ result' = "panic"
     \/ ~panicked /\ cancelled /\ result' = "cancelled"
     \/ ~panicked /\ ~cancelled /\ Failed = {} /\ result' = "array"
     \/ /\ ~panicked /\ ~cancelled
        /\ \E i \in Failed : (\A j \in Failed : i <= j) /\ result' = out[i]
  /\ UNCHANGED <<batch, workerVars, counters, flags, queue, out, history>>

Cancel ==
  /\ "cancel" \in Faults
  /\ ~cancelled
  /\ result = "none"
  /\ cancelled' = TRUE
  /\ UNCHANGED <<batch, workerVars, counters, aborted, fatal, panicked, queue,
                 out, result, history>>

Terminated == result # "none" /\ UNCHANGED vars

CallStep(w) ==
  \/ Call(w) \/ Wait(w) \/ Flush(w) \/ Check(w) \/ Load(w)
  \/ CompareAndSwap(w) \/ Return(w) \/ ReturnUncatchable(w) \/ ReturnFatal(w)

FinishStep(w) ==
  Finish(w) \/ Emit(w) \/ ConsolePanic(w) \/ AdvanceTurn(w) \/ Unlock(w)

WorkerStep(w) ==
  \/ Claim(w) \/ Publish(w)
  \/ Tick(w) \/ Log(w) \/ Complete(w) \/ Panic(w)
  \/ CallStep(w) \/ FinishStep(w)

Next == (\E w \in Worker : WorkerStep(w)) \/ Join \/ Cancel \/ Terminated

Spec == Init /\ [][Next]_vars

\* Goroutines are scheduled, and a host call returns (Dispatch must honour
\* cancellation); nothing obliges the caller to cancel.
Fairness == (\A w \in Worker : WF_vars(WorkerStep(w))) /\ WF_vars(Join)

FairSpec == Spec /\ Fairness

---------------------------------------------------------------------------
(* Properties.                                                             *)

Joined == result # "none"

InOrderedEffect(w) == pc[w] = "dispatch" /\ CurrentOp(w) \in OrderedOp

\* Item i may perform an ordered effect only after items 0..i-1 have finished
\* and their console lines are out; so no two ordered effects overlap.
OrderedExclusive ==
  \A w \in Worker : InOrderedEffect(w) =>
    /\ \A i \in Item : i < item[w] => done[i] /\ qlogs[i] = <<>>
    /\ \A v \in Worker \ {w} : ~InOrderedEffect(v)

\* Whichever workers ran the items, the host sees the ordered effects in input
\* order: each item's calls in program order, then its lines in program order,
\* then the next item's.
OrderedTrace ==
  \A m, n \in DOMAIN trace :
    m < n =>
      \/ trace[m][2] < trace[n][2]
      \/ /\ trace[m][2] = trace[n][2]
         /\ IF trace[m][1] = trace[n][1] THEN trace[m][3] < trace[n][3]
            ELSE trace[m][1] = "effect"

\* When the batch returns, every line an item wrote has reached the host, the
\* lines of failed and panicked items too (finish is deferred); only a panic of
\* the console itself, which leaves the mutex locked, loses any.
NoLineLost ==
  Joined /\ mu = NoWorker => printed = {<<trace[n][2], trace[n][3]>> :
                         n \in {m \in DOMAIN trace : trace[m][1] = "line"}}

\* A panicking console freezes the batch's ordered effects: no later item takes
\* the turn, and not one more call or line reaches the host out of order.
ConsoleDead == mu # NoWorker /\ pc[mu] = "dead"
ConsolePanicStopsEffects == [][ConsoleDead => UNCHANGED trace]_vars

\* A call is charged once, before it is dispatched, and never beyond the
\* budget, however the workers race on the counter.
BudgetRespected ==
  /\ calls + hostCalls = sent
  /\ calls <= MaxCalls /\ hostCalls <= MaxHostCalls

\* A fatal host error stops further dispatch: each other worker may have
\* looked at the flag just before, and can begin one more call at most.
FatalStopsDispatch == late <= Cardinality(Worker) - 1

\* A fatal error always surfaces: its item is on record, allSettled makes no
\* record of it, and what the batch reports in its place is a panic, a
\* cancellation, or the failure of an item before it, uncatchable as well for
\* allSettled; of Promise.all it may be an exception (see UncatchableWins).
FatalSurfaces ==
  Joined /\ aborted =>
    /\ fatal # NoItem /\ out[fatal] = "plain"
    /\ \/ result = "panic" /\ panicked
       \/ result = "cancelled" /\ cancelled
       \/ \E i \in Item :
            /\ i <= fatal /\ result = out[i]
            /\ out[i] = "plain" \/ (out[i] = "throw" /\ ~batch.settled)

\* Result.Steps counts every step the workers took once they are joined; the
\* steps a panicking worker had not published are the only ones it may miss.
StepsAccounted ==
  Joined => steps <= ticks /\ (panicked \/ steps = ticks)

\* The published step count passes the limit by at most one publication per
\* item, and what the workers publish as they leave.
StepOverrunBounded ==
  steps <= MaxSteps + N * StepBatch + Cardinality(Worker) * (StepBatch - 1)

\* A worker asleep in wait is not its turn's last hope: some other worker is
\* running the item whose turn it is, or is about to broadcast.
SleeperHasWaker ==
  \A w \in Worker : pc[w] = "asleep" =>
    \E v \in Worker : \/ pc[v] = "release"
                      \/ /\ turn < item[w] /\ item[v] = turn
                         /\ pc[v] \in ItemPC \ {"asleep", "release"}

\* A failing item does not stop its siblings: without a panic every item has
\* run to an outcome by the time the batch returns.
EveryItemRuns == Joined /\ ~panicked => \A i \in Item : done[i] /\ out[i] # "none"

\* The batch implements the machine with a single turn.
Ordered == INSTANCE OrderedEffects WITH
  finished <- {i \in Item : done[i]},
  trace <- [n \in DOMAIN trace |-> <<trace[n][1], trace[n][2]>>]
OrderedSpec == Ordered!Spec

\* The workers are always joined and the batch returns.
BatchReturns == <>Joined

\* README, "Limits and cancellation": step limits, cancellation, fatal host
\* errors and stack overflow cannot be caught by try/catch.  So a batch with
\* such a failure must not return a catchable exception in its place.
UncatchableWins ==
  Joined /\ (\E i \in Item : out[i] = "plain") => result # "throw"

============================================================================
