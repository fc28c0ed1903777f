# A verification development for go-steps-engine

TLA+ models of the step engine (`lifecycle/`), of the two keepers of its states and
of its throttler (`throttling/`), the TLC configurations that check them on small
instances, and theorems about them checked by TLAPS.

## The system

go-steps-engine runs a list of *steps* inside a Kubernetes reconciler or any
other program. A step has a function, optional predicates, an optional state that
is persisted by a *StateKeeper*, and optional throttling by a *Throttler* that
lives as long as the process. The reconciler builds the steps anew for every
reconciliation, calls `StepsEngine.Run`, and asks to be called again after a delay
that depends on the error.

| component | state it keeps | operations | interacts with |
|---|---|---|---|
| `StepsEngine` (`step_engine.go`) | position in its steps, deferred span ends | `Run`, `RunAsReconcilerResponse` | calls the steps, the keeper, the throttler, predicates and `OnFail` |
| `SimpleStep` (`step.go`) | configuration | `RunStep` calls the user's function | called by an engine or by a goroutine |
| `GroupedSteps` (`grouped_steps.go`) | configuration; keeper, throttler, context function once handed down | `RunStep` runs a nested engine | engine inside a step |
| `DynamicStep` (`dynamic_step.go`) | the same, and the generated step | `getStep` generates once; `RunStep` runs a nested engine over that one step | shares its State with the generated step |
| `ParallelSteps` (`parallel_steps.go`) | the same, and the channel of answers | `RunStep` starts one goroutine per child and receives one answer from each | goroutines share keeper and throttler |
| errors (`errors.go`) | - | `StepRunError`, `WaitError`, `AbortedByPredicate`, `ExpectedError`, ... | decide what engines and reconciler do next |
| throttler (`throttling.go`, `maps.go`) | entries by partitioned key, the sweep gate | `ShouldRun`, `SetNow`, `Reset`, `WithPartition`, the sweep | shared by all goroutines, partitions and reconciliations |
| `StateKeeper` (`step_engine.go`) | the states of steps, by name | `GetStepState`, `SetStepState`, `SupportsRunningState` | an interface; called by engines on any goroutine |
| `K8sObject` (`k8s.go`) | the conditions of one object, locally and on the server | the same | a StateKeeper without running state; talks to the API server |
| `InMemoryStateKeeper` (`examples/shared`) | a map behind a `sync.RWMutex` | the same, `GetAllStates`, `PrintFinalStates` | a StateKeeper with running state |
| predicates (`predicate_func.go`) | - | combinators over conditions | evaluated by engines and goroutines |
| operations (`operations.go`) | - | run an engine without keeper and throttler | as the body of a simple step |
| example controller (`examples/k8s-controller`) | - | `Reconcile` | fetches the object, builds keeper, steps and engine, runs it, answers |

Hard behaviours: nesting (an error passes through engines, groups, dynamic and
parallel steps, each of which may stop it, change it or record it); the goroutines
under a parallel step, with whole engines running in them; a keeper that fails at
any call, and whose failed write may have been applied; crashes and panics between
any two steps, after which only the persisted states remain; the store of the
throttler, where every access is atomic and nothing else is; boundaries of
intervals; a Kubernetes object of which the engine has a copy, the API server another
and the client's cache a third, with conflicts and lost replies between them; and
convergence over many reconciliations. What makes each component
correct, in one line: an engine never goes on after a failure it may not ignore, and
what it has gone past is recorded; a parallel step leaves nobody behind and loses no
error; a persisted state goes through its lifecycle whatever fails; a throttled
step does not run twice in an interval unless goroutines overtake each other, and its entry disappears only when nobody
uses it; a keeper that returns nil has persisted the state, and undoes nobody's work. `PROJECT.json` lists the hazards line by line.

## The modules

| module | what it is |
|---|---|
| `StepsEngine` | the engine, the kinds of step and operations; the core |
| `StepLifecycle` | the abstract specification of one persisted state |
| `EngineProperties` | the properties of the engine, the refinement mapping, and sentences of its comments that the code contradicts |
| `MCStepsEngine` | the flows for TLC |
| `StepsEngineProofs` | the inductive invariant of the engine and its proof |
| `OutcomeProofs` | the keeper holds the outcome of every step an engine has left, and none is passed over |
| `TreeProofs` | what holds of whole subtrees: no run reports success over a failure, what asks for patience is requeued soon, nothing is generated before its turn |
| `LifecycleProofs` | the engine implements `StepLifecycle`, and stamps a throttling key after success only |
| `StateKeeper` | the abstract specification of a keeper, as concurrent callers see it |
| `K8sObject` | the keeper over the conditions of a Kubernetes object, and its properties |
| `K8sObjectProofs` | its inductive invariant, and that it implements `StateKeeper` |
| `InMemoryStateKeeper` | the keeper of the examples, and its properties |
| `InMemoryStateKeeperProofs` | the same for it |
| `MCK8sObject` | the instance of `K8sObject` for TLC; `InMemoryStateKeeper` needs none |
| `PredicateFuncs` | the predicate combinators |
| `K8sReconciler` | `StepsEngine` composed with `K8sObject`, the predicates, the client's cache and the API server |
| `MCK8sReconciler` | its flows and predicates for TLC |
| `K8sReconcilerProofs` | what holds on the API server, and what the predicates return |
| `Throttler` | the abstract specification of a throttler, as the engine sees it |
| `Throttling` | the throttler at the grain of its shared accesses, and its properties |
| `MCThrottling` | its instances for TLC |
| `ThrottlingProofs` | type correctness of the throttler and the distance of sweeps; for one goroutine, intervals, sweeps and resets, and that it implements `Throttler`; how often a step of a goroutine with keys of its own runs |

### StepsEngine

A *flow* is a tree: the root is the `StepsEngine` of the reconciler, and each step
has a kind, its steps, its state name, its throttling key and its boolean options.
`Flows` is the set of trees a behaviour may start with; `WellFormed` says which
trees Go can build from distinct step values (an engine is never a step, a
parallel step has predicates and no other option, a step value sits at one place).

Every node has a program counter `pc`, so the goroutines under a parallel step
interleave at each call that touches something shared. One action is one stretch of
`Run` between such calls:

| code | action |
|---|---|
| hand down keeper and throttler (generating dynamic steps), `ShouldSkip` | `Consider` |
| predicates | `Predicates` |
| `Throttler.ShouldRun` | `Throttle` |
| context function, persist running, call `RunStep` | `Launch` |
| `RunStep` returns; expected errors | `Resume` |
| persist failed | `Failed` |
| `OnFail`; continue or return `StepRunError` | `Callback` |
| second read of the state | `Confirm` |
| persist succeeded | `Record` |
| finish, or tell the throttler | `Complete` |
| end of the steps | `EngineDone` |
| the body of a simple step | `FunctionReturns` |
| `ParallelSteps.RunStep`: validation and start, one goroutine, the join | `Fork`, `Goroutine`, `Join` |
| the reconciler | `Start`, `Respond` |
| time, eviction, `Reset` | `Lapse` |
| the process stops | `Crash` |

`at` is an engine's position, `res` what each node returned in this run, `stored`
the keeper, `window` what the throttler's entry of each key amounts to, `generated`
and `cleaned` which dynamic steps were generated and whose `OnFail` ran, and
`panicked` that a panic is unwinding the process. A result is a base error and the
number of `StepRunError`s around it, because no error type of the package but the
`%w` of the running write can be unwrapped with `errors.As`. An operation is a simple
step whose function is `AsRunFunc`: a nested engine again, but one with no keeper,
throttler or context function (`InOperation`), so that nothing below it is tracked.

Abstractions: messages, reasons, spans and logging are left out; the predicates of
a step have one answer; user functions return, with any outcome; in
`StepsEngine` a call of the throttler is one step (`Throttling` takes it apart); a
write that reports an error may have been applied; an empty `State.Name`, which falls
back to the step's name, is a state name like any other; a dynamic step does not
generate another dynamic step; steps are built anew for each reconciliation.
The four panics of the code on the way of an engine are modelled: a parallel step that is
given a state (`dynamic_step.go:51`) or asked for its name (`step_engine.go:263`), a stamp
without a throttler (`step_engine.go:375`), and a pre-set stamp of an interval below a
millisecond (`throttling.go:109`; the option `short`). The deferred handling of a second panic
and the recovery of panics by a caller are not modelled: a panic only waits for `Crash`.

### StepLifecycle and the refinement

Seen by one name, the keeper's state is `pending` until an execution begins; at most
one execution is in progress; none begins once the state is succeeded, unless
the step has `SkipStepStateCheck`; only an execution decides the outcome. In the
mapping (`Lifecycle` in `EngineProperties`) `status` is `stored`, `active` the
names whose step is between its launch and the end of its recording, and
`repeatable` the names of steps with `SkipStepStateCheck`. The mapping is meant for
flows that give a name to one step, or to a dynamic step and what it generates.

### The keepers

`StateKeeper` says what a caller may rely on. `possible[n]` are the statuses that `n`
may turn out to have: a call under way adds its status, taking effect makes it the
only one but for other calls under way, and an error settles nothing. `Settle` picks
among what is in doubt: the process has restarted, or the object has been fetched
again. Statuses a keeper does not keep (`SupportsRunningState`) are `Ignored`.

`K8sObject` takes a `SetStepState` apart where it touches something shared:

| code | action |
|---|---|
| the call; running and unknown states are skipped | `SetStepState`, `Skip` |
| `meta.SetStatusCondition`: find the condition, or append it to the slice as found | `Find`, `Append` |
| `Status().Update` sends the whole object | `Update` |
| the API server takes it, or not; the answer is decoded into the object, or lost | `Accept`, `Reject`, `Decode` |
| return | `Return` |
| `GetStepState` | `GetStepState`, `FindStatusCondition` |
| the next reconciliation; another writer | `Fetch`, `ForeignUpdate` |

The server takes an update of the version it has and no other, which is what
`resourceVersion` does. `acked` is a history variable. In the refinement a call has
taken effect when the answer has been decoded, and a status is possible when the local
copy or the server has it, or a call is about to set it.

`InMemoryStateKeeper` has the mutex as two sets of holders and takes each method apart
at the mutex and the map. `Copy` reads one entry, so that a listing is not atomic by
construction.

### K8sReconciler

`stored` of `StepsEngine` is now the local copy. `RunStep` is a step of a node,
and when that step calls `SetStepState` it is `Update` too: the local copy changes, and
the server takes all of it, or refuses it (always when `current` is false, as the copy is
not of its version), or takes it and the reply is lost. `Reconcile` fetches from a
cache that may lag (`Sync`). Predicates are built from `PredicateFuncs` and read the
local copy when they are called. Since the steps of these flows run one after the other
and foreign conditions play no part, the calls of `K8sObject` are one step here, and
versions are the two facts `current` and `fresh`. `KeeperAssumption` names what makes
that so: no reads that fail, no running state, no parallel step. `TimePasses` is `Lapse`
where there is a throttler, and after a panic nothing happens but a crash, a sync of the
cache and the writes of others.

`PredicateFuncs` has the closures as names, and `Built` says how each was made.
`Returns` is one call, given what the closures in it return, and `HoldsGiven` the
recursive function that it defines; `BuiltAssumption` says that a closure is built of
closures that were there before it.

A failing `Get` is a reconciliation that does not begin. The deletion of the object is
not modelled.

### Throttling

Entries have the two times of `throttleEntry`; `config` gives each key its
settings. Callers have program counters; `Gate`, `Swap`, `Visit`, `Delete` and
`Swept` are the sweep; `Read` is `ShouldRun` reading the clock, `Load`, `Store` and
`LoadOrStore` are its accesses of the map; `Finish` and `SetNow` are what the engine does
after the step, `Reset` and `ResetStore` a reset. The clock and other goroutines can
move between any two of these. The clock is a number of units, which stand for the
nanoseconds of a `time.Duration`, and `Millisecond` is how many of them make one. A pre-set
stamp is drawn as the code does it: `rand.IntN` takes the interval in milliseconds, what it
returns is taken for nanoseconds, and with nothing to draw from it panics, which ends the
call before anything is stored. `Horizon` bounds the clock, `Delay` bounds how far it
moves while a call is under way. `ran`, `before`, `called` and `resetAt` are history
variables for the properties: the last two runs of a step, the last question and the last reset.
`StepsEngine` knows of all this only a `window` for each key, absent, recent or
elapsed, and questions that are answered at one moment; `Throttler` states that, with
the same three values and the same cases, and `ThrottlerSpec` is the refinement: the
entry and the clock of `Throttling` make up the window (`Window`). A key
stands for a key with its partition.

## The runs

All runs check for deadlock.

| run | instance | checks | states |
|---|---|---|---|
| `sequence` | 75 flows of two steps, every option and throttling mode, with a keeper of either kind and with none; writes fail; crashes | `TypeOK`, `OutcomeIsPersisted`, `NothingIsPassedOver`, `StampedAfterSuccess`, `LifecycleSpec` | 96,098 |
| `parallel` | 8 flows: a parallel step over two branches, one of them dynamic, at the root or in a group that may continue; reads and writes fail | `EngineInv`, `StructuredConcurrency`, `NoSilentFailure`, `OutcomeIsPersisted`, `RunReturns` | 444,600 |
| `nested` | 20 flows: groups around parallel steps, valid and invalid ones, dynamic steps, operations, and 5 flows that panic, each in another way; crashes | `FailureStopsFlow`, `WaitIsRequeuedSoon`, `GeneratedWhenReached`, `LifecycleSpec` | 55,574 |
| `convergence` | 8 flows, a keeper that works | `Converges` | 88,252 |
| `throttle_sequential` | one goroutine, two keys, settings of four kinds (ensure with and without a pre-set stamp, and neither with and without), intervals from 1 to 3, resets of one of the keys, TTL 3, sweep interval 2, the clock from 2 to 6, calls that take up to one unit | `TypeOK`, `SequentialInv`, `IntervalRespected`, `SweepComplete`, `ResetHolds`, `OnlyIdleEvicted`, `ThrottlerSpec` | 2,419,515 |
| `throttle_concurrent` | two goroutines with a key each, one of which is reset too; settings with interval 1, pre-set (too short to be drawn), ensured or neither, TTL 2, sweep interval 2, the clock from 2 to 5, calls that take up to one unit | `TwiceInv`, `NeverThrice`, `SweepsApart` | 2,284,721 |
| `keeper_k8s` | `K8sObject` with one goroutine, two names, one foreign condition and 3 versions | `SessionInv`, `AcknowledgedIsPersisted`, `ForeignIsKept`, `KeeperSpec` | 71,560 |
| `keeper_memory` | `InMemoryStateKeeper` with two goroutines and two names | `LockInv`, `NoConcurrentMapAccess`, `SnapshotIsWhole`, `KeeperSpec` | 33,512 |
| `reconcile_k8s` | 7 flows: the example controller, guarded steps behind a group that may continue, a dynamic step that shares its state, a step that runs in every reconciliation, a throttled step; at most 3 faults | `K8sInv`, `OutcomeIsOnServer`, `GuardHoldsOnServer`, `SuccessIsFinal`, `ServerConverges` | 77,732 |

Why the bounds are enough: two steps in a row are the least on which "past a step"
means something, and every option of a step acts on that step and its successor. Two
branches of unequal depth are the least on which goroutines interleave with a
nested engine; a third only adds orders of independent steps. Depth three (engine,
group, parallel step, child) has every kind of node inside every other that treats
it differently. Five results deep no rule changes: unwrapping distinguishes none, one
and more layers. For the throttler, TTL and sweep interval are small but
distinct, and the clock goes far enough for an entry to be written, to expire, to
be evicted and to be written again. `throttle_concurrent` has every order of the accesses of
the clock and the store: the race of `v_sweep_race`, an eviction between the owner's reading of
the clock and its `Load`, and one while its step runs. In each of them a step runs twice in an
interval, so `IntervalRespected` is checked for one goroutine only. A clock that moves by
three lets a key be run, found idle, run again, evicted and run twice in its interval; a second
sweep after that is beyond the bound, and there only the theorem `TwiceAtMost` speaks. For `K8sObject`, two names are the least on which
an update sends along what another call has set, and three versions let a foreign update
fall before and after one of ours. In `reconcile_k8s`, `MaxDisturbances` bounds refused
updates of a current copy, foreign updates and crashes: three are enough for a fault in
the run that repairs a fault, whose repair is disturbed again; a convergence that needed
faults to stop is what the bound stands for. Its functions return success or failure;
an expected error would leave the engine to end a run with success and every other
outcome open, for which nothing is promised.

The writes of `nested` do not fail: with a shared state, a success that was written
but reported as failed is overwritten by `failed` in the outer engine, which is
outside the lifecycle.

### Fairness

`parallel` and `convergence` assume that each node that can move moves (goroutines
are scheduled and user functions return) and that the reconciler starts and answers
runs. `Converges` also assumes that a function that is called for ever succeeds at
last (strong fairness on that outcome), that entries expire, and that they are not
evicted: a pre-set step whose entry is evicted again and again is always throttled,
as the code says. Nothing is assumed of reads, writes, predicates or crashes.

`reconcile_k8s` assumes the same of nodes and reconciler, that the cache catches up
(weak fairness of `Sync`), that a recent stamp gets old, and that a function that is called again and again in runs
whose copy is the latest succeeds in such a run at last. The last is strong fairness
on an outcome of the user's function, which does not know how old the copy is; without
`current` in it the function might succeed in stale runs only, whose updates are all
refused.

### What the code does otherwise than it says

Each `v_` run checks one sentence of a doc or comment, in `EngineProperties` or
`Throttling`, and finds it violated; `PROJECT.json` quotes the lines.

| run | finding |
|---|---|
| `v_abort` | an abort at the top level is requeued after 10 s, as a failure |
| `v_sweep_race` | the sweep deletes an entry that was just reset |
| `v_k8s_race` | of two goroutines that share a `K8sObject`, one loses a condition that was acknowledged |

The models show more of them, which have no run of their own:

* `EnsureStepSuccess` in an engine without a throttler panics after the success
  (`step_engine.go:375`), although line 245 lets such a step run unthrottled; the steps
  of an operation are always in such an engine.
* With `WithStepContext` every `ParallelSteps` panics, since the engine asks it for a state
  name (`step_engine.go:263`, `parallel_steps.go:68`), although lines 259-260 say that steps
  without a state are not passed to the function.
* `ShouldRun` stores back the entry it has loaded, and overwrites a `Reset` that fell in
  between with the old stamp (`throttling.go:101`); hence one goroutine in
  `throttle_sequential`.
* `ShouldRun` panics when it is to pre-set a stamp for an interval below a millisecond, and
  takes the milliseconds it has drawn for nanoseconds (`throttling.go:108-109`): the stamp is
  within a millionth of the interval before now, so that callers of one interval are not
  distributed over it as lines 11-12 say.
* A sweep of another goroutine may delete an entry that was just renewed, or an idle one after
  its owner has read the clock (`throttling.go:86`), and the step runs twice in an interval;
  `NeverThrice` says what remains.
* With nil `Conditions`, `SetStepState` returns nil and persists nothing (`k8s.go:88`).
* `FinishOnSuccess` with `EnsureStepSuccess` is never stamped: the engine returns
  before it tells the throttler (`step_engine.go:363`).
* An expected error below `ParallelSteps` fails the flow (`parallel_steps.go:160`), and
  elsewhere leaves the state running (`step_engine.go:292`).
* A group whose steps were all throttled is marked succeeded for good
  (`step_engine.go:253`), and a failure inside a dynamic step that continues on
  error is overwritten by the success of the outer engine (`step_engine.go:340`).
* `State` of the children of `ParallelSteps` is ignored (`parallel_steps.go:150`).
* `OnFail` is not called when the failure cannot be persisted (`step_engine.go:308`).
* A failed read makes a finished step run again (`step.go:122`).
* A step with `SkipStepStateCheck` that succeeds again is not written when the copy says
  succeeded already (`step_engine.go:341`); when the copy came from a cache that lags, the
  server may say failed. `OutcomeIsOnServer` leaves such a step out by name.
* Dynamic steps in a group are generated when the engine reaches the group, before the
  steps ahead of them in the group have run (`dynamic_step.go:155`);
  `GeneratedWhenReached` says that it is not earlier than that.
* Two goroutines with one key run twice in an interval (`throttling.go:88`), and a
  step whose interval is above the TTL evicts its own entry (`throttling.go:83`);
  hence one user for each key in `throttle_concurrent`, and intervals up to the TTL
  in both runs.

## The theorems

A theorem holds for every value of the constants that meets the named assumptions
of its module; what it assumes beyond them is a hypothesis of the theorem itself,
and is named here.

**The engine.** `StepsEngineProofs` proves for every set of steps, every set of
well-formed flows and every combination of faults `EngineInvariant`
(`Spec => []EngineInv`) and from it `TypeCorrect`, `NoGoroutineLeaks`
(`StructuredConcurrency`) and `FailuresStop` (`FailureStopsFlow`).

`FailureStopsFlow` is not inductive. A step that an engine has passed could still
change its result if it were running, so one needs that only the step an engine
waits for is active (`StructuredConcurrency`); that in turn needs that an engine in
its loop has a current step, that only parallel steps fork and collect, and that
they never leave position one; and going on after a success needs that the step's
result was no error. `EngineInv` is their conjunction. The argument: every step of a
node either passes that node's current step or changes at most that node's own
result (`EnginePassesOrStays`, `BodyStays`), and an active node is the one its
parent waits for (`ChildIdle`), which is not behind the parent
(`StaysKeepsPast`, `PassesKeepsPast`). That a returned run leaves nobody behind
(`NothingLeftBehind`) uses that every set of steps has a topmost one, which is how
`WellFormed` says that a flow is a tree.

**What a run leaves behind.** `OutcomeProofs` proves `OutcomesPersist`
(`[]OutcomeIsPersisted`) for the flows in which no two steps share a state
(`SeparateStates`; a dynamic step and the step inside it may, as the code makes
them). The hypothesis is needed: the second of two steps with one condition type
overwrites what the keeper said of the first. The invariant is `OutcomeInv`:
`EngineInv`, the property, and `DealtWith`, which is what an engine has found out
about its current step and already persisted at each label between the body's
return and the next step. The argument has two halves. The engine's own step
(`OwnStep`) turns `DealtWith` into the property. Everybody else's leaves it alone: a
step that an engine has left, or is not waiting for, is idle (`QuietIsIdle`), so
nobody changes its result, and nobody else writes its state (`Untouched`); hence
`StillLeft`, `StillRecorded`, `StillDealt`.

For the same flows it proves `NothingPassedOver` (`[]NothingIsPassedOver`): an engine is past
a tracked step, one with neither predicate nor throttling, only when the keeper has its success or it has
just failed. So whatever a crash or a failed write left behind, a later run takes the step
up before what follows it. An engine gets past a step in four ways (`PassesOver`): it skips
it, and then it has read its success; it completes it, and `DealtWith` has the keeper's
success; or it goes on after a failure or an expected error. Nobody takes the keeper's
success away while the engine is past it, by the same `Untouched`.

**What a run reports.** `TreeProofs` proves `NoFailureIsSilent` (`NoSilentFailure`)
and `PatienceIsHeard` (`WaitIsRequeuedSoon`) for every set of well-formed flows and
every combination of faults. Both speak of whole subtrees, and neither is inductive.
`UpholdInv` (`FailuresUpheld`) is, and speaks of a node and what is right below it:
a node that rests has passed on every failure directly below it that may not be
continued on (`Upheld`, `PassedOn`), what it has not reached has not run
(`UnreachedInside`, `UnreachedAhead`), and what an engine has seen of its step is so
(`Witnessed`). To lift this along the tree one looks at the topmost node that breaks
the claim: its parent has passed it on, so it is not topmost. No induction is needed,
but the recursive function `Subtree` must be unfolded (`SubtreeUnfolds`), for which
one has to show that its equation has a solution: `Reachable`, the intersection
of the sets that are closed under `Nested`.

It also proves `GeneratedInTime` (`GeneratedWhenReached`): `GetStep` of a dynamic step is
not called before the engine that hands the keeper down reaches the outermost step
around it. The property is inductive as it stands, given `EngineInv`; that no other
engine hands down the keeper ahead of it needs the chain of nodes from that engine up to
the root, each of which waits for the next (`AwaitedAround`, `NotAhead`), and with it that a
flow is a finite tree.

**The lifecycle.** `LifecycleProofs` proves `ImplementsLifecycle`: every behaviour
of the engine is one of `StepLifecycle`, by a step of it or a stutter for every step
of the engine. Two hypotheses are needed. Every state belongs to one step
(`OneStateEach`), as an engine around a dynamic step may overwrite what
the engine inside has persisted; and reads do not fail (`~ReadsMayFail`), as a step
whose state cannot be read begins again after its success. The invariant,
`LifecycleInv`, is that from the look at its state to the end of its execution a step
is not closed. The argument is that a state is only written by the engine of its
step (`OwnWrites`, `OtherStaysOpen`), which begins it at `launch` (`BeginsAtLaunch`)
and nowhere else, and that the steps in progress change only there and where their
engine leaves them (`ActiveBegins`, `ActiveEnds`, `ActiveKept`).

`SuccessesStamp` (`StampedAfterSuccess`) is proved for flows in which no two steps share
a state (`SeparateStates`) or the key of a step with `EnsureStepSuccess` (`OwnKeys`: another
step with that key may stamp it when it pleases). The property looks at one step of the
behaviour, in which the engine is at `completing`; that the step has run and succeeded, and
that the keeper has it by then, is `StampInv`, which says of every label after the body
what has become of its result, and needs `OutcomeInv` for what is persisted.

**The API server.** `K8sReconcilerProofs` proves, under `KeeperAssumption` and for the
flows in which each state belongs to one step (`OneStateEach`), for every lag of the
cache, every number of faults and all flows, `CopyIsKnown` (`K8sInv`), `OutcomesReachServer`
(`OutcomeIsOnServer`), `SuccessesLast` (`SuccessIsFinal`) and `GuardsHold`
(`GuardHoldsOnServer`). It reuses the invariants of the engine: a step of `K8sNext` is one
of `Next`, except that `Reconcile` starts on another copy, and there nothing is under way
(`RunInv`, `ReconcileStarts`). `ServerInv` adds three facts. A copy of the latest version knows
every success that is final (`SuccessesKnown`), so an engine that writes failed writes
over no success of the server's: it would not have begun the step. What the server has of
a step that an engine is about to leave or has left is what the copy has (`OnServer`,
`Settled`), since every write on the way was accepted, or the engine gave up
(`WhatIsWritten`, `AboutToLeave`); and from `OutcomeInv` the copy has what the step returned.
Shared states break the second: the outer engine of a dynamic step writes again.

`GuardsHold` has one more hypothesis, `LastingGuards`: a condition that is asked for is no
state of a step with `SkipStepStateCheck`, whose success may be followed by a failure.
`GuardInv` says of the copy, of the cache and of the server that whoever has
succeeded there has its guards true there, and of an engine past the predicates of a step that
the copy has its guards true. The copy goes to the server whole, so it takes the guard
along with the guarded step, even if an earlier update that should have persisted
the guard was refused. The one fact about predicates it needs is that a closure
made by `IsTrueCondition` returns what it should, for which the recursion of `HoldsGiven`
must have a solution (`HoldsUnfold`): solutions on two sets of closures agree, since
there is no first closure on which they differ (`SolutionsAgree`), and the union of them all
is everything, since another closure could be added.

**The keepers.** Both are shown to implement `StateKeeper`, the specification of
what the engine relies on, by a step of the abstract keeper or a stutter for every
step of theirs.

* `K8sObjectProofs`: `RoundTrip` (every state the engine writes, but the one it
  never persists, is read back as it was written), and under `Alone`, one goroutine
  that uses the object, `Session` (the invariant: the local copy and the server's
  differ by at most the call in progress), `Acknowledged`, `ForeignKept` and
  `IsStateKeeper`. The run `v_k8s_race` shows that `Alone` is necessary.
* `InMemoryStateKeeperProofs`, for any number of goroutines: `Locked` (the
  invariant: who holds the lock, and what a reader under it has copied),
  `MapAccess`, `Snapshot` and `IsStateKeeper`.

**The throttler.** `ThrottlingProofs` proves for any number of goroutines and keys,
any settings and any delay `TypeCorrect` (no stamp, access or sweep is dated in the
future) and `SweepsStayApart` (`Spec => SweepsApart`, from the invariant that a
caller about to swap the gate read the clock a sweep interval after the sweep it
had read).

It also proves what the throttler promises to one caller
(`Alone`) whose intervals are at most the TTL (`Patient`): `Sequential`, the
invariant, and from it `IntervalHolds`, `SweepsComplete`, `ResetsHold` and
`IdleEvicted`. `Patient` is needed since an entry evicted after the TTL forgets a
longer interval (throttling.go:34); `Alone` since two callers that load an entry
together both run (throttling.go:88-95), and a sweep deletes an entry that was
used after it had been judged idle (run `v_sweep_race`). The invariant ties four
clocks of a key together, its stamp, its last access, its last reset and the last
run allowed (`EntryInv`), and says at each label of a call which of them the call
has looked at and which it is about to write (`CallInv`).

Of any number of goroutines that have their keys to themselves (`Owned`: nobody else uses or
resets them), with a call and an interval together at most the TTL (`Kept`) and calls shorter than
the sweep interval (`Swift`), it proves `Twice` (the invariant) and `TwiceAtMost`
(`Spec => []NeverThrice`): in whatever order the goroutines read the clock, load, store and sweep,
of three runs of a step the last is more than its interval after the first. Two runs in one
interval are possible, since a sweep may delete an entry that was renewed after it was found
idle, or an idle one whose owner has read the clock already. The invariant
(`TwiceInv`) says that a step may run only if its last run is an interval ago (`Elapsed`), or
else the last two are an interval apart (`Spread`) and no sweep is about to delete its entry
(`Threatened`); and that otherwise the entry is there and refuses it (`KeyInv`). The argument:
a sweep that deletes an entry has seen it idle for the TTL, so what it takes away is at
most the stamp of a run whose predecessor is an interval ago; the next sweep comes a sweep
interval later, and finds the entry renewed. That no two sweeps are under way at once is
where `Swift` is needed, and that what was idle is older than an interval, `Kept`.

`ImplementsThrottler` proves that under `Alone`, `Patient` and `Brief` (a call takes
at most one unit of time, and no longer than any interval) `Throttling` implements `Throttler`, which is
how the engine's model uses it. The step that allows a run is the `Store` of the new
stamp, or the `Load` where nothing is stored; `Read` and a `Store` that only refreshes the access
time are stutters. `AskInv` says that what the call found at `Load` is still so at
`Store`. `Brief` is needed since the stamp that is stored was taken at `Read`: after a
longer call it may be older than the interval already, and the step could run twice
without the window ever having been recent.

Every safety and action property that a passing run checks is the subject of a theorem.
Only model-checked are:

* liveness (`RunReturns`, `Converges`, `ServerConverges`), which needs fairness and ENABLED;
* the lifecycle, and the outcomes and successes on the server, of a state that a dynamic
  step shares with the step inside it (the flows of `nested` and `reconcile_k8s`).

## Plan

Everything the inventory calls state is modelled. What could still be added, in the
order of its worth:

1. `OutcomesReachServer` and `SuccessesLast` for `SeparateStates` in place of `OneStateEach`.
2. `ThrottlerSpec` for goroutines that have their keys to themselves, which needs
   an abstract throttler that may forget a key in the middle of a question.

## Not modelled

* Logging and tracing spans change no state that the engine reads.
* The names of steps that reflection finds (`GetFunctionName`): a step without a name
  takes that of its function for its persisted state and its throttling key. The models
  have these as `state` and `key` of the flow. All first anonymous functions are called
  `func1`, which makes unrelated steps share both; the theorems that need states to be
  separate say so.
* The example programs are callers of the engine. Their Kubernetes reconciler loop
  and their in-memory keeper are modelled, the bodies of their steps are the
  models' free choice of outcome, and what they print is left out.
* The deletion of the object under reconciliation: the engine does not look at it;
  a reconciler chooses another flow.
