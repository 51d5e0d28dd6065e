# A verification project for go-toolscript

go-toolscript compiles a subset of JavaScript to Go closures and runs it in
the process of its host.  A script calls the host's tools and functions; a
`Promise.all` or `Promise.allSettled` over independent items runs on several
goroutines.  This directory holds TLA+ models of the parts of that interpreter
that are hard to get right and hard to test, TLC configurations that check them
on small instances, and proofs, checked by TLAPS, of what should hold for every
setting of the limits.

All of it is translated from the Go source (`src/*.go`); the file
`PROJECT.json` names, for every definition, the lines it stands for.

## 1. The system

### Components

| Component | Source | State | Operations |
|---|---|---|---|
| Compile front end | `compile.go` 1-648 | scopes and slots, pending labels, batch depth | `Compile`, `declare`, `lookup`, `function`, hoisting |
| Statement closures | `compile.go` 650-1509 | the `rt` (`label`), frames | blocks, `if`, loops, `switch`, `try`, labels; each returns (kind, value, error) |
| Expressions, patterns | `expr.go`, `patterns.go` | frames | operators, member access, destructuring |
| Call compilation | `call.go` 1-470, 744-842 | - | tool, host, global, prototype and batch calls |
| Batches | `call.go` 460-654 | `out`, `errs`, the claim counter, a worker `rt` each | `runBatch`: serial, or parallel on `min(size, Parallelism)` goroutines |
| Isolation analysis | `call.go` 656-742 | - | `isolated`: may the items of this batch overlap? |
| Async shapes | `asyncshape.go` | names of async functions, awaited nodes | `checkAsyncShapes`: could a script see a promise? |
| Sequencer | `call.go` 844-887 | mutex, condition, `done`, `logs`, `turn` | `wait`, `finish` |
| Execution | `execute.go` 178-300 | `steps`, `calls`, `hostCalls`, `aborted`, `fatal`, `panicked`; per `rt` `pending`, `depth` | `Execute`, `tick`, `flush`, `invoke` |
| Effects | `execute.go` 438-537 | the counters above | `callTool`, `callHost`, `effect` |
| Host data | `execute.go` 539-879 | - | `fromGo`, `exportValue`, `Marshal` |
| Values | `value.go` | objects (keys, values, index), arrays with holes | conversions, property access, key order |
| Builtins | `builtins.go`, `protomethods.go` | arrays and strings of the script | the array, string, object, Math and console functions |
| Collections | `collections.go` | `index`, `keys`, `vals`, `dead`, `live`; iterator positions | `set`, `delete`, `clear`, iteration, `forEach` |
| RegExp | `regexp.go` | `lastIndex` | `exec`, `test`, `replace`, `split` |
| JSON | `json.go` | the stack of `stringify` | `parse`, `stringify` with replacer and `toJSON` |
| Dates | `date.go`, `date_parser.go` | a time value | getters, setters, parsing |
| Numbers, Intl | `number.go`, `intl*.go` | formatter options | formatting; tables are generated |

### How they interact

`Execute` builds one `execution` (shared limits, counters and flags) and one
`rt` (depth, pending steps, label register), and invokes the program body on
it.  Statements and expressions are closures called with the `rt` and a frame.
Every statement, call and loop round calls `tick`, which publishes the pending
steps in batches with `flush`; `flush` is also where the step limit, a recorded
fatal error and the context stop the script.  A tool or host call goes through
`effect`: flush, look at the context, charge a counter with a compare-and-swap,
dispatch, translate the error.  Errors come in two classes: a `*Throw` may be
caught by the script, anything else goes through `catch` and `finally`
untouched.

A batch whose items are isolated runs on goroutines.  Each has an `rt` of its
own; they share the `execution` and one `sequencer`.  Host functions, tools the
host declares sequential and console lines are *ordered effects*: `wait` holds
an item back until its turn, `finish` (deferred, so that it runs for a
panicking item too) releases lines and passes the turn on.  The parent waits
for all workers and then picks the error to report.

### What is hard, and what makes each part correct

* **Batches and sequencer** (goroutines, a condition variable, panics, host
  callbacks under a mutex).  Ordered effects happen in item order and never
  overlap; no line, step or item is lost; budgets hold under races; a fatal
  error stops dispatch and surfaces; the batch always returns.
* **Execution** (batched accounting, three ways to stop, errors through nested
  constructs).  The limits end every script; uncatchable errors are not caught;
  depth is restored on every path; a cancellation or fatal error takes effect
  within one publication and one dispatch.
* **Statement closures** (completions spread over a return value, an error and
  a register).  Every body completes as ECMAScript's completion records say.
* **Collections, objects, arrays** (callbacks that change what is being
  walked).  Live iteration as JavaScript defines it; index arithmetic that holds
  up when a callback shrinks the array.
* **Isolation and async shapes** (two syntactic approximations).  No accepted
  batch has items that observe each other; no accepted program can tell a
  promise from the value it settles to.
* **Expressions and scopes** (names resolved ahead, frames shared and pooled,
  right sides that change what the left side read).  Values, effects and their
  order are ECMAScript's.
* **RegExp, strings, JSON, joins, exports, dates** (state between calls, conversions
  that run script code, cycles, carries).  Results, calls and what is left
  behind are ECMAScript's, or those of the tree that is reached.

## 2. The modules

| Module | What it is |
|---|---|
| `OrderedEffects` | the abstract machine: one turn, effects and lines in item order |
| `ParallelBatch` | `runBatch`'s parallel path with the sequencer, `effect`, `tick`/`flush` and the join |
| `MCParallelBatch` | instances of it: batches, workers, symmetry |
| `OrderedEffectsProofs`, `ParallelBatchProofs` | theorems about the two: turn, exclusion, budgets, refinement |
| `BatchResultProofs` | theorems about what a batch leaves: outcomes, trace, lines, steps, fatal errors |
| `Execution` | one execution on one `rt`: any script, all limits |
| `ExecutionProofs` | theorems about it |
| `Completions` | the statement closures, each over those compiled before it, and one `rt` that runs body after body |
| `MCCompletions` | ECMAScript's completion records for the same statements, the bodies that are run, and the comparison |
| `CompletionsProofs` | theorems about the two: programs of any size |
| `OrderedMap` | the abstract machine: entries in the order they were added, and walks over them |
| `Collections` | one Map or Set with its slots and tombstones, and the walks over it |
| `CollectionsProofs` | theorems about it |
| `Objects`, `JsObject` | one object: parallel slices, index and walks over its keys; the ordered dictionary it implements |
| `Heap` | values, property access and calls, for `Expressions`, `Arrays`, `Json` and `HostData` |
| `Expressions`, `JsExpressions` | operators, members, chains, calls, assignments and patterns; ECMAScript's References |
| `Scopes`, `JsScopes` | slots, frames, closures, hoisting, dead zones; ECMAScript's environments |
| `Batches` | `isolated`; `MCBatches` has what the items of a batch read and write |
| `AsyncShapes` | `checkAsyncShapes`; programs run with promises and without |
| `Arrays`, `JsArrays` | array methods over slices with hole markers, and `join`; over partial functions |
| `Sorting` | `sort` and `toSorted` call by call, while the comparator changes the array |
| `LibraryProofs` | theorems about `Objects` and `Sorting` |
| `TextValues`, `Strings`, `Regexps`, `JsText` | conversions, string methods, RegExp methods; ECMAScript's |
| `Json` | `JSON.stringify` |
| `HostData` | `fromGo`, exports, `Marshal` |
| `Dates` | constructor and setters of dates |
| `DatesProofs` | theorems about it |
| `MCExpressions` ... `MCDates` | the inputs of each, and the comparison |
| `MCLanguage`, `MCLibrary` | the compositions that are run |

The modules named `Js...` and the sections of MC modules that say so
are reference definitions, written from the ECMAScript specification; everything
else is written from the Go code.

### ParallelBatch

A worker's `pc` names the point of the Go code it has reached: `claim`
(`next.Add`), `run` (inside the item's script), `wait`/`asleep` (`sequencer.wait`
and its condition variable), `flush`/`check` (the two halves of `flush`: the
atomic add and the look at the flags), `load`/`cas` (the charging loop of
`effect`), `dispatch` (the host has the call), `lock`/`release` (`finish` before
and under the mutex), `publish`, `exited`, and `dead` for a goroutine ended by a
panic.  Each atomic operation of the Go code is a step of its own, and so is each
line handed to the host under the mutex; what a worker does on its own `rt` is one
step per operation.  A script is the sequence of its operations on shared state;
whether it catches the exception of a failing call is a choice of the step
(`Thrown`), because both are scripts.

`Return`, `ReturnUncatchable` and `ReturnFatal` are the answers of a dispatch
that `effect` tells apart.  `Finish`, `Emit`, `AdvanceTurn` and `Unlock` are
`sequencer.finish`; `ConsolePanic` is the host's callback panicking inside it.
`Join` is what follows `wg.Wait`.

`trace`, `printed`, `ticks`, `sent` and `late` are history variables: no guard
reads them.

### Execution

`stack` holds the constructs the script is inside of, innermost last: a call, a
`try` (with or without a catch and a finally still to come), a running `finally`
block with the exception it holds back, a serial batch with its items left.
Control runs (`err = "none"`), or an error unwinds.  While it runs the script does
anything: a statement (one step), a call (a step, and the depth), a `throw`
(with a step) or an exception raised by an expression (without), a `try`, a
serial batch, a tool call in the three stages of `effect`, or it leaves the
innermost construct.  `Unwind` is one Go return through one construct.  `EndMain`
to `EndText` are the end of `Execute`, with the script-defined `toString` that
the text of an uncaught exception may call.

`Source` bounds how many constructs without a step (entering a `try`, a tool
call, an expression that throws) follow one another: in a program they are
parts of the source text between two steps.

### Completions

A program is the sequence of its statements in the order in which they are compiled:
a statement comes after those inside it and has their numbers, as a closure has the
closures it was made of.  `Compiled` makes the closures one after another; `Exec` gives each
form the completion its closure returns, threading the `rt` (the label register and a
trace of marks) through.  `MCCompletions` defines the same forms by ECMAScript's
completion records, where the target of a jump is part of the completion.  The head of
a loop marks its tests and updates, so that a `continue` that skipped the update of a
`for`, or a `do` that tested first, would show; a switch enters its clauses at the
chosen one and falls through.  The state machine runs one body after another on
the same `rt`, as a batch worker does with its items, so that a label left behind
by one body reaches the next; `entry`, a history variable, is the label that was there when
the body began.

`ValueOf` is what a test or a switched value comes to after given effects, `Labels` are
the names that may be labels, `MaxRounds` the rounds after which a loop meets the
step limit.  `Programs` are the bodies that may run, and `ProgramsAssumption` is what is
taken of them: they are programs the parser and the compiler accept (`IsProgram`: every
jump has its target in its own function).  The instance runs those of finding 3 too, and the
properties say what holds all the same.  `Apart` tells them from the others: there a labelled
jump leaves a `try` only if its `finally` is quiet, with no jump, return, throw or loop in it.

### Collections

`keys`, `vals`, `dead`, `index` and `live` are the fields of `collection`; a Set
is a Map whose values are `UndefinedValue`.  Go's slot `i` is `i + 1` here.  A walk is
an iterator (`next`, `for-of`, a spread) or a `forEach`: it has a position of
its own and shares only the slots, which its steps do not change.  `NextEntry` is one
call of an iterator's `next` or one round of `forEach`; between two of them the
script may do anything to the collection.  An iterator that answers "done" stays
where it is (`End`); a `forEach` is over.  `mark` and `over` are history
variables: the slot after the last one a walk yielded, and whether it has
reported its end.

`OrderedMap` has no slots: an entry is a key, a value and a stamp, deleting it
leaves nothing, and a walk goes to the oldest entry it has not passed.  The
refinement maps the live slots to the entries.  The one trace that tombstones
leave in the abstract machine is the size limit, which counts entries ever
added (`collections.go:45`); the limits on arrays (`builtins.go:466`) count the
elements present.

### Objects

`keys`, `vals`, `index` and the hidden properties of an Error are the fields of
`object`.  A walk (`for-in`, `Object.keys`, a spread) holds the slice that
`ownKeys` returned, which may be `o.keys` itself (`shared`); between two of its
steps the script sets and deletes.  Go's `append(o.keys[:i:i], ...)` makes a new
array, and the mutant that leaves out the third index shows why it must.
`JsObject` has a list of entries, no index and no slices; a walk has the keys
still ahead of it.

### Expressions, Scopes

`Expressions` evaluates an expression tree as the compiled closures do:
`Prepare`, `GetPlace` and `SetPlace` are the three closures of a `place`,
`Chain` catches the short circuit of an optional chain, patterns are bound in the order
of `patterns.go`.  A state has the heap, the variables and the trace of
effects, so that two evaluations with the same value in another order differ.
`JsExpressions` knows no places, only References and lists of links.

`Scopes` has the compiler's part (which slot a name gets, which function needs
frames of its own, which is a leaf whose frame is pooled) and the run-time part
(frames, closures, dead zones).  `JsScopes` looks every name up when it is used.

### Batches, AsyncShapes

`Isolated` walks the tree of a batch's argument as `isolated` does.
`MCBatches` runs the items and gives the outer variables and objects they read
and write; a batch that is accepted must have items none of which writes what
another touches.  Of the ways to reach an outer function unseen, those of finding 6 have
inputs of their own (`Unseen`); what getters and a user's `toString` do is not modelled.
`Accepted` of `AsyncShapes` is `checkAsyncShapes`; `Run`
executes the same program with promises and without.

### Sorting

`Arrays` answers a whole `sort` at once, for a comparator that answers or throws; what
comes of it is compared with ECMAScript.  `Sorting` takes the same code call by call,
because the comparator may change the array in between, and an array is a Go slice:
`home` is the memory it had when `sort` was called, in which `sort.Stable` swaps unless
there are holes.  The script writes into that memory (`Store`, `Push`), leaves it as it
is (`Shorten`), or gives the array other memory (`Move`: `shift`, `unshift`, `splice`, a
`push` that finds no room).  `sort.Stable` is any series of `Call` and `Swap`, so
nothing depends on its algorithm.

### The library

Each operation is an operator from a receiver, arguments and a state (what
calls were made, and what a callback or conversion may change: the receiver's
items, `lastIndex`, the date, the heap) to a result or an error and the
state.  The conversions of arguments are steps in it, in the order of the code,
since a `valueOf` or `toString` of the script runs there.  A pattern of
`Regexps` is any function from positions to matches, which stands for every
regular expression; `Find` and `FindAllFrom` are Go's engine over it.  A date is
whole days and the milliseconds of the day; calendar and zone are Go's.
The host sees its own value of an object that the script has not written to, and the
script's view of one it has (`ExportsWrites`); `Marshal` walks Go data with one
counter of nodes, in any order of the keys of its maps.
`Field` is one turn of the loop in `dateSetFrom` (present, converted, or kept), `DateNorm` has
`dateNorm`'s guards at the ends of int64 and what int64 keeps of its sums (`Wrap`), and
`TimeToMsec` is `t.Unix()*1000`, which wraps.

## 3. What is checked

Every property has a mutant: an operator named `Definition_Fault` in the same
module, a plausible bug in that definition, under which TLC finds the property
violated in the same run.

| Run | Configuration | Instance | Shows |
|---|---|---|---|
| `parallel_safety` | `MCParallelBatch.cfg` | 3 items, 2 workers (symmetric), 16 batches, all four faults | the safety of a batch |
| `parallel_order` | `MCParallelBatchOrder.cfg` | 3 items, 3 workers, 8 batches, fatal errors and host panics, fairness | refinement of `OrderedEffects`, wake-ups, termination |
| `language` | `MCLanguage.cfg` | every statement form nested three deep, two labels, loops whose counted test holds for two rounds, and loops whose test never fails, which meet the limit of three (`MaxRounds`); a jump held back by a `finally` with a jump in it; every expression form over operands with effects; programs of up to three scopes; batches of two items with two statements; async programs of two statements; a collection with 4 keys (both zeros, NaN, `undefined`), 2 values, 3 slots and 1 walk, fairness | statements, expressions, scopes and async programs agree with ECMAScript; isolated items stay apart; index, refinement of `OrderedMap`, termination of `forEach` |
| `library` | `MCLibrary.cfg` | an object of 4 keys and one walk; arrays of at most 3 elements (5 after growth), sorted while the comparator changes them twice; texts of 4 units; graphs of 4 objects; Go data of up to 40 nodes, with a limit of 14, in every order of its keys; two arrays that join each other; dates around 1970, a leap day and the ends | objects implement `JsObject`; array, string, RegExp, JSON and Date operations agree with ECMAScript; exports are the trees reached |
| `execution` | `MCExecution.cfg` | `MaxSteps` 3, publications of 2, depth 2, 1 call, 4 constructs | limits, unwinding, depth, cancellation, termination |
| `console_panic` | `MCConsolePanic.cfg` | 3 workers, every item prints | finding 1 |
| `masked_failure` | `MCMaskedFailure.cfg` | 3 workers, one item throws and one overflows | finding 2 |
| `stale_label` | `MCStaleLabel.cfg` | bodies with one `finally` that jumps inside, one after the other | finding 3 |
| `step_count` | `MCStepCount.cfg` | publications of 3 | finding 4 |
| `iterator_done` | `MCIteratorDone.cfg` | 2 slots, 1 walk | finding 5 |
| `isolation` | `MCIsolation.cfg` | items that assign in the head of a loop, or reach an outer function through a local, an item, a built-in or a member | finding 6 |
| `marshal_order` | `MCMarshalOrder.cfg` | maps of three members, the limit of 14 nodes | finding 7 |

The properties, by run:

* `parallel_safety`: `OrderedExclusive` (an ordered effect runs alone, after all
  earlier items have finished and printed), `OrderedTrace` (what the host sees is
  the effects and lines of the items in input order), `NoLineLost`,
  `ConsolePanicStopsEffects` (a panic of the console freezes ordered effects
  rather than let them overtake), `BudgetRespected` (the counters are exact and
  within the limits), `FatalStopsDispatch` (at most one call per other worker
  begins after a fatal error), `FatalSurfaces` (what may be reported in place of a fatal error: a
  panic, a cancellation, or the failure of an item before it), `StepsAccounted`,
  `StepOverrunBounded`, `EveryItemRuns`.
* `parallel_order`: `SleeperHasWaker`, `OrderedSpec` (refinement of
  `OrderedEffects`), `BatchReturns`.
* `language`: `StatementsMatch` (a body that finds the label register empty, outside of finding 3,
  does what ECMAScript says and leaves it empty), `StaleLabelUnseen` (a label left by
  finding 3 reaches only an unlabelled `break` or `continue` of the bodies that follow: one
  without them does what ECMAScript says), `EvaluatesAsJavaScript` (value, error, effects in their
  order, heap and variables of an expression), `ScopesAsInJavaScript` (what a program
  logs and how it ends), `IsolatedItemsApart`, `PromisesUnseen`, and of the collection
  `IndexExact` (index, live slots and size agree), `OrderedSpec` (refinement of
  `OrderedMap`: every answer of every operation and walk is the one an
  insertion-ordered map gives), `WalksEnd`.
* `library`: `IndexExact` (no key twice, the index has each at its place),
  `ObjectSpec` (refinement of `JsObject`, walks included),
  `ArraysAsInJavaScript`, `SortKeepsElements` (a throwing or inconsistent
  comparator, or one that changes the array while a copy is sorted, loses and repeats
  nothing), `JsonAsInJavaScript`, `ExportsTree`,
  `ExportsWrites` (the host gets back what the script wrote to the object it exports, and to
  those inside it), `MarshalAsEncoded` (whether Go data is encoded does not depend on the order of
  a map, nor does the result or the message within the limit on nodes), `TextAsInJavaScript`,
  `JoinsApart` (whatever the joins before came to,
  only a cycle is left out of a text), `DatesAsInJavaScript`.
* `execution`: `DepthRestored`, `WorkBounded`, `CancelBounded`,
  `UncatchableUnwinds`, `FatalEnds`, `ExecutionEnds`.

**Bounds.** Two workers on three items is the smallest instance where a worker
claims a second item while another still runs its first; three workers the
smallest where two sleep in `wait` and a wake-up may go to the wrong one.
The batches mix ordered effects, overlapping tool calls, lines, steps,
exceptions, overflows and panics at the head, in the middle and at the end of
the batch.  A budget of one host call and three tool calls is exceeded by some
batch, and so is a limit of two steps.  In `execution` the limit of three steps falls between two
publications of two steps; depth 2 is reached and exceeded; a batch of three
exceeds the item limit; four constructs leave room for a try with a finally
in a call in a batch.  `MaxFrames` bounds the nesting the instance explores; the
theorems have no such bound.  Of the collection the four keys are the ones
`normKey` treats alike or apart, and a key that is also the filler of dead slots;
three slots let a walk stand between a tombstone and a re-added key and leave
one insertion for the limit to refuse.  One walk is enough because walks do not
interact; the theorems hold for any number.

The parts of `language` and `library` are algorithms: an input is chosen
(`input`), answered in one step (`output`), and the next may be chosen; only
statements (on one `rt`), the collection and the object (with their walks) keep state from one to the
next.  The bounds of the inputs are in the MC modules.  Arrays have three elements
because a callback must be able to shrink, grow and shift what is still ahead;
patterns give each of four positions no match or one of any length; `lastIndex`
is negative, inside, at the end, beyond, `NaN`, or an object whose conversion sets
it again.  `MaxNodes` and `MaxDepth` of the exporters are small enough to be
passed by a graph of four objects with sharing; `MaxNodes` is met by one map of Go data, passed by one
or by many, and `MaxJsonDepth` is passed by a list in a list.  `Offset` is a zone of three
and a half hours; `MaxInt` stands for the ends of int64, `MaxInt32` for those of int32 and `Cycle` for
all the milliseconds of an int64 (what `t.Unix()*1000` in `timeToMsec` is taken modulo).
`LibraryAssumption` is what the proofs about dates take of them, and the widths of the code
satisfy it.  The last year argument, and 1,000,000 for every field, are far beyond the range of
dates; no argument reaches `mkTime`'s limit of int32, which is beyond that range too.  `DateLists`,
`DateYears` and `DateStarts` are the inputs of the dates; all of them run, and `Agrees` in the
property says which of the calls differ.

**Deadlock** is checked in `parallel_order`, `execution`, `language`, `library`,
`iterator_done` and `step_count`.  It is not in `parallel_safety` and `console_panic`, because a batch
whose console panics really stops (finding 1).
In `isolation` and `marshal_order` an input is answered once and nothing follows.

**Fairness.** `ParallelBatch!FairSpec` is weakly fair to each worker and to the
join: goroutines are scheduled, and a host call returns (`Dispatch` is given
the context and must honour it).  Nothing obliges anybody to cancel.  Weak
fairness is enough at the mutex although `lock` and `wait` need it free: the
worker that holds it has only finitely many lines to print, and the workers
that take it again are finitely many items.  `Execution!FairSpec` is weakly fair to
the script's goroutine as a whole, which includes the return of a dispatch.
`AllSpec` of `MCLanguage`, like `Collections!FairSpec`, is weakly fair to the next round of each walk: the loop in
`forEach` goes on when its callback has returned.  That the callback returns is
`ExecutionEnds`.

## 4. Findings

1. `console_panic` - a panic in the host's `Console` while the sequencer holds
   its mutex (`call.go:880`) hangs the batch for ever.
2. `masked_failure` - after a parallel batch the first error in input order is
   reported (`call.go:648`), so an exception hides a later item's uncatchable
   failure and the script can catch it.
3. `stale_label` - the label of a pending jump lives in `rt.label` while a
   `finally` block runs (`compile.go:757-763`), so a `break` inside the block is
   taken for the labelled one.
4. `step_count` - steps pending at the end are counted twice if the uncaught
   exception's `toString` runs on (`execute.go:227-237`).
5. `iterator_done` - an iterator that has reported its end yields again when the
   collection (or array) grows (`collections.go:125`, `:133`); in JavaScript it
   stays done.
6. `isolation` - `isolated` (`call.go:694-722`) does not see that the head of `for (n of a)`
   assigns to an outer `n`, nor an outer function that is called through a local (`let g = f;
   g()`), through an item or a member of a local, by a built-in it is handed to
   (`a.map(f)`), or as a member of an outer object that is named like a built-in method
   (`o.at()`).  The items race.
7. `marshal_order` - `jsonValue` (`execute.go:773-803`) counts nodes in one counter over the
   members of a map, in the order in which Go walks it.  Beyond the limit the order picks the
   message, which `execute.go:793` means to rule out: `{a: NaN, b: a long list}`
   fails because of the number, or at the limit.

### Other divergences

These showed while the models were compared with ECMAScript; the inputs of the
passing runs leave them out, and the MC modules say where.  Specifications that
show some of them are kept beside the ones that are run; to see one, give TLC a
cfg with that SPECIFICATION and the invariant of the module.

* `MethodCallSpec` of `MCExpressions`: the method is looked up after the
  arguments are evaluated, and so is a nullish receiver found out (`call.go:115-138`).
* `DeletingSpec` of `MCExpressions`: an array pattern reads a copy of the array
  from which holes are not gone; a default that deletes a later element lets the hole
  marker through (`patterns.go:107`).
* `>` and `<=` convert the right operand first (`expr.go:1203-1223`); `k in v`
  converts the key before it checks `v`; a call of what is no function calls
  its `toString` for the message; an array pattern drains the iterable first and
  evaluates a member target after the default.
* `EarlyAliasSpec` of `MCScopes`: an alias of a namespace may be used before its
  declaration (`compile.go:788`; README.md:84 speaks of a `const`).
* `UnseenSpec` of `MCAsyncShapes`: `try { return f() } catch` catches the
  rejection; `Promise.allSettled` of a bound list, or of a `map` with a
  named callback that throws, raises; aliases of async functions, logging a
  list of promises and `() => f()` are not seen.
* Arrays: `Array.from` and `flatMap` pass holes on, `toLocaleString` fails on
  them and `hasOwnProperty` finds them; `fill`, `slice` and `splice` read the length
  before their arguments are converted and use it for the array there is afterwards, so that
  `splice` (`builtins.go:1545`) keeps a tail ECMAScript cuts off, or cuts beyond the end of an array
  that has shrunk; `sort` without holes works in place (`~written` in
  `SortKeepsElements`), so that a comparator that throws leaves a partial order, one that
  writes to the array changes what is sorted, and one that shortens it leaves it short.
* `ResizedSpec` of `MCJson`: an array that `toJSON` resizes gets the separators of its
  new length (`json.go:168`).  Empty containers leave the indentation raised,
  which is Goja's behaviour.
* A write to an object inside a host object is lost on export of the outer one, unless the script
  wrote to the outer one too (`value.go:42`).
* The limit on the size of a Map counts deleted entries; setting `e.message` to
  `undefined` on an Error makes the property vanish.
* RegExp: `replace` converts the replacement after it has matched, and only if it has;
  Go's engine drops an empty match next to the previous one (`"abc".replace(/b*/g, "-")`),
  and stops a sticky global one there; `lastIndex` of an expression that is neither
  global nor sticky is not converted; a `lastIndex` other than 0 with `^` or `\b` is
  refused at run time.
* Strings: `split` with the limit 0 does not convert the separator; `split("")` goes
  by code points; halves of one character put together again by `replace` stay
  replacement characters.
* Dates: arguments after one that is `NaN` are not converted; milliseconds of times
  before 1970 are set from the second towards zero (Goja's behaviour); an invalid
  date whose conversion sets it becomes invalid again.  The proofs show two more, outside
  the numbers they speak of: `t.Unix()*1000` wraps for years beyond some 292 million
  (`date.go:57`, `:136`), so that a year far out of range can come back as a date; and
  `dateNorm` refuses only the very ends of int64 (`date.go:151`, `:160`), so that fields next
  to them overflow before `mkTime` looks at the day.

## 5. What is proved

All proofs are for every value of the constants the modules' assumptions
allow: any number of items and workers, any scripts, any limits.

**OrderedEffects** (`OrderedEffectsProofs`).  `TurnOrder`: the trace is in item
order.  The invariant is that every entry belongs to an item at or before the
turn, and that a line at the turn's item means the item is finished, so that no
effect of it can follow.

**ParallelBatch** (`ParallelBatchProofs`).  After `TypeCorrect`:

* `OrderInvariant` says which items the workers can be running: claimed items are
  those below `next`, no two workers have the same, an item is done exactly when
  its worker has passed `Finish`, and the turn is past only done items.  Then a
  worker that passed `wait` has the turn (`turn = item[w]`), because the turn cannot move
  on before that item is done.  `OrderedEffectsExclusive` follows, and
  `ImplementsOrdered`: `Finish` maps to `FinishItem`, `Emit` to `Show`,
  `AdvanceTurn` to `Pass`, the successful swap of an ordered call to `Perform`, every
  other step to a stutter.  With `TurnOrder` this is the order of all ordered
  effects of all batches.
* `BudgetSafe`: a worker between `load` and `cas` has seen a value below the limit,
  and the swap succeeds only if the counter still has it.
* `SleepersAreWoken`, for a console that does not panic (finding 1 is what happens
  if it does): if a worker sleeps, some worker holds the mutex or runs the item at
  the turn.

What a batch leaves behind (`BatchResultProofs`, over the invariants above):

* `EveryItemIsRun`.  An outcome is written once, as its worker goes to `Finish`;
  a finished item without one has a worker that panicked (`DyingInv`, `OutInv`); a claimed
  item that is not done has a worker on it, and nobody leaves the claim loop
  before all items are claimed (`JoinInv`).  The last is what makes "joined" mean
  "all were run": without it a worker could leave an item behind.
* `FatalAlwaysSurfaces`.  The item on record failed and its outcome cannot be overwritten
  (`FatalInv`).  What `Join` reports is a panic or a cancellation that there was, or the outcome of
  the first item that failed (`ResultInv`), which is the item on record or one before it; for
  `allSettled`, whose workers keep exceptions as records (`SettledInv`), an uncatchable one.
* `FatalStopsDispatching`.  Once `aborted` is set, the calls begun since and the workers
  between the check and the swap together are at most the other workers
  (`LateInv`): the worker that set the flag is in neither, and no worker gets
  past the check again.
* `StepsAreAccounted`.  The published steps and those that workers hold and can still
  publish are the steps taken (`StepInv`).  The sum over the workers is counted as the
  cardinality of a set of pairs, since a fold would need induction over data.
* `StepOverrunIsBounded`.  The overrun is charged to the items that failed because of it and to
  the workers that left (`OverInv`); both are finite sets that only grow.
* `NoLineIsLost`.  A line is out, in the queue of its item, or with the worker that has not
  finished the item (`LineInv`).
* `TraceInItemOrder`.  Not inductive by itself: it needs the turn (only the item at the turn
  has an effect or shows a line), that an item which is still running has shown no
  line, that the worker's place in the script is past its calls and its
  lines, and that queued lines come after those already out (`LogInv`, `TraceInv`).
  Unlike `TurnOrder` it speaks of the program order within an item too.
* `DeadConsoleIsSilent`, an action property.  The mutex a panicking console leaves locked keeps
  the turn at an item that is done (`LockInv`), so nobody takes it.

**Execution** (`ExecutionProofs`).  After `TypeCorrect`, `ShapeInvariant` relates
the phase, the point of a tool call, the stack and the error.  From it:
`UncatchableNotCaught`; `FatalIsFinal` (once `aborted` is set the error is
uncatchable until the end); `StepsLimited` (the steps taken are at most those published
plus those pending, and a live script's published steps are within the limit);
`CancellationPrompt` (after a cancellation, the pending steps are the only ones left and the first
publication is the last); `DepthIsRestored` (`depth` is the number of call
frames on the stack, by cardinality of their positions).

**Collections** (`CollectionsProofs`).  `IndexIsExact` is inductive with the types
(`Core`).  `ImplementsOrderedMap` needs one more invariant, `WalkInv`: the slots
between a walk's `mark` and its position are dead, and stay dead because a slot
is never reused.  So the first live slot from the position on is the oldest entry
from the mark on.

**Statements** (`CompletionsProofs`).  `StatementsMatchJavaScript`: every
body that satisfies `ProgramsAssumption`, of any number of statements nested to any depth, with
any labels, tests and limit on rounds, has the effects and the completion that ECMAScript gives
it, and leaves the register empty for the next, if it began with the register empty and is
`Apart`.  `NoLabelStaysInFlight`: where all programs are `Apart`, the register is empty between any
two bodies.  The hypothesis is needed: `A: while (1) { try { break A } finally { throw 1 } }` leaves
its label there, and `stale_label` has what comes of it.  The hard part is
what one body does, and the two sides keep the target of a jump in different places:

* `Agree(l, x, r, c)` relates what a closure entered with `l` in the register returns to a
  completion record, where `x` are the jumps that may leave the statement: a jump has
  its target in the register, and after anything else the register still has `l`.  With a
  label in flight (`l` not empty) only a normal completion is allowed, since an
  unlabelled `break` could not be told apart from the labelled one: that is finding 3, and
  why `Apart` asks for a quiet `finally`.
* One lemma per form (`BlockDoes`, `SwitchDoes`, `LoopDoes`, `TryDoes`, ...) says that the statement
  agrees if those inside it do; `TakenAgrees` is the jump that ends here.  `InStep` carries
  a relation along two sequences of functions, which lists, the rounds of a loop and
  the clauses of a switch are; `StartIs` relates the choice of a clause in advance to
  ECMAScript's flag that one was entered.
* `ProgramDoes` is the induction over the statements of a program in the order in which they are
  compiled.  `CompiledIs`, `MeaningsAre`, `ExitsAre` and `QuietIs` turn the recursive functions that
  go through a program into what each statement is made of; the induction is
  by the least counterexample (`NatMin`).

**Objects** (`LibraryProofs`).  `ObjectIndexExact` is inductive together with
`SlicesOK`, what is known of slices whatever they hold: a `set` adds at the end a
key that `find` has not found, a `delete` closes the gap and moves the places behind
it by one, and an index is made when the object outgrows `SmallObject`.

`ImplementsDictionary` is the refinement of `JsObject`, for any number of keys.  It needs two
invariants of its own: a hidden property of an Error is never also in the slices
(`Apart`), so that setting, reading and deleting mean the same property on both
sides; and a walk stays within the slice it took (`WalksOK`).  Sets and deletions
map to an append, an update and a removal of the entry at the same place (`Zip...`);
the slice a walk still has ahead of it is a suffix (`Suffix`), and what it skips
is what the dictionary no longer has.  The key order is the hard part: `ownKeys` parts the
keys with a loop, which is a recursive function here, and the dictionary ranks them
by counting.  `AmongSifts` says what the loop keeps, by induction up to its length (with
a set in place of the formula, since the library's induction theorems take
operators); `OwnKeysLists` that the two parts put together are ordered and
complete; and `EarlierAre` that the r-th key listed has r - 1 before it.

**Sorting** (`LibraryProofs`).  `SortedKeepElements` is `SortKeepsElements` for arrays of any length.
The invariant counts: at each step of the loop that sets the holes aside, `work` has every
element as often as the part that was read, and its length and the holes make up that part
(`SetAside`); a swap is a bijection of positions (`ExchangeKeeps`); the copy at the end puts back
as many holes as there were (`CopiedBackKeeps`).  For a sort in place the count holds as long as
the comparator has not written where the array was.

**Dates** (`DatesProofs`).  `DatesMatch`: in any zone of a constant offset and for any widths of
the integers as wide as the code's, on any dates (`DateStarts`) and with any lists of
arguments (`DateLists`, `DateYears`) up to N, each setter and each constructor by fields leaves the
time, the date and the conversions of ECMAScript, but for the calls that `Agrees` leaves out.
The invariant, `Answered`, says that a call is one of the inputs and has its
answer; that the answer is ECMAScript's is `CallAgrees`, from
`SettersAsInJavaScript` and `ConstructorsAsInJavaScript`, which are about any
arguments: numbers from -N to N, NaN, and objects that answer one, throw, or set
the date meanwhile.  `Within(N)` says how large N may be: ten times N within
int32, and the times that N makes within half a `Cycle` (for the code's integers, over 200 million; dates
end at the year 275,760).  What `Agrees` leaves out are the divergences
named in section 4: something that converts follows a NaN (`EndsAtNaN`), an unset date is
given a NaN and a conversion (`Settles`), or milliseconds are set before 1970 on a date
between two seconds (`Whole`).  The argument:

* `NormExact` and `MkTimeExact`: with fields within N no step of `dateNorm` is near the ends of its
  integers, no guard of `mkTime` refuses, and the time is that of ECMAScript's `MakeDay` and
  `MakeTime`, which carry in a single pass; `NoCycle`: it comes through `timeToMsec` unchanged.
* `YearFound`, `MonthFound`: `YearOf` and `MonthOf` find the year and the month of every day,
  although they search two candidates near an estimate.
  `FieldsTogether`: the seven fields of a time, put together again, are that time.
* `FieldsRead`: field by field the setter chain has what ECMAScript's conversions have
  (`Alike`), or has stopped at an argument that is NaN while ECMAScript goes on to
  convert, which nobody sees.
* `MillisSet`: `setMilliseconds` and ECMAScript's composition of seven fields give one time.

**Only model-checked.** `BatchReturns`, `ExecutionEnds` and `WalksEnd` (liveness is out of the
prover's reach), and what else compares a part of the language or the
library with ECMAScript: expressions, scopes, isolation and async shapes, array and string
methods, JSON and the exporters are RECURSIVE operators over data.
The type invariants of `Execution` and `Collections` are proved and not run again.

## 6. What is not modelled, and the plan

Left out of the modules above: the values computed by scripts, the wording of
errors, the text of console lines, and the compile errors for syntax outside the
dialect.  In `Collections`: array iterators, how `entry` renders a key, a value
or a pair, the reading of the items a constructor is given (after it, one `Set`
per item), and scripts' own properties of a Map.

Of the expressions: bitwise operators and the arithmetic of other numbers than small
integers.  Of the library: `Object.*` statics beyond their walks, Math, the case and
locale methods of strings, `encodeURI`; `JSON.parse` and the quoting of
strings; the translation of regular expressions and the limit on the length of
strings; parsing and formatting of dates, and zones whose offset changes.
Insertion sort stands for `sort.Stable`, which it is on up to twenty elements.

Not planned: number formatting digit by digit, date and Intl formatting from
generated tables, and regular-expression matching, which is a third-party
engine.  The repository's differential tests cover them better than a model.
