------------------------------ MODULE StepsEngine ------------------------------
(***************************************************************************)
(* The execution engine of go-steps-engine (lifecycle/step_engine.go) and  *)
(* the four kinds of step it runs: SimpleStep, GroupedSteps, DynamicStep   *)
(* and ParallelSteps, with the operations that a SimpleStep may wrap.      *)
(*                                                                         *)
(* A flow is a tree of nodes.  The root is the StepsEngine a reconciler    *)
(* drives; a grouped or dynamic step runs a nested engine over its own     *)
(* steps; an operation is a simple step whose function is AsRunFunc and    *)
(* runs an engine with no keeper, throttler or context function; a         *)
(* parallel step starts one goroutine per child.  Every node has           *)
(* a program counter, so that the branches under a parallel step           *)
(* interleave at each call that touches shared state: the StateKeeper      *)
(* (stored), the Throttler (window) and the user's functions.  Between     *)
(* runs the process may crash; only what the StateKeeper persisted stays.  *)
(***************************************************************************)
EXTENDS Integers, Sequences, FiniteSets

CONSTANTS
  Step,           \* the steps flows are built from
  Root,           \* the StepsEngine at the top
  StateName,      \* names under which step states are persisted
  NoState,        \* a step whose State field is nil
  Key,            \* throttling keys (step name or PartitionKeyOverride)
  Flows,          \* the configurations the engine may be given
  Outcomes,       \* what the user's step functions may return
  ReadsMayFail,   \* GetStepState may return an error
  WritesMayFail,  \* SetStepState may return an error
  MayCrash        \* the process may stop at any moment

Node == Step \cup {Root}

Kinds == {"engine", "simple", "operation", "grouped", "dynamic", "parallel"}

(***************************************************************************)
(* The boolean fields of a step, with "short" for an Interval below one    *)
(* millisecond; and of the root, which collaborators the engine was given, *)
(* and whether the keeper supports the running state.                      *)
(***************************************************************************)
Options == {"skipCheck", "predicate", "abort", "finish", "continue",
            "throttled", "ensure", "preset", "short"}

Environment == {"keeper", "running", "throttler", "context"}

Flags == Options \cup Environment

NodeConfig == [kind : Kinds, steps : Seq(Step), state : StateName \cup {NoState},
               key : Key, flags : SUBSET Flags]

(***************************************************************************)
(* Steps are pointers placed at one position of one tree; an engine is     *)
(* never a step; a simple step has no steps of its own; a dynamic step     *)
(* has the one GetStep returns, here never another dynamic step; a         *)
(* parallel step has predicates, but none of the other options.  The tree  *)
(* is finite: every set of steps has a topmost and a lowest one.           *)
(***************************************************************************)
WellFormed(f) ==
  /\ f \in [Node -> NodeConfig]
  /\ \A n \in Node :
       /\ f[n].kind = "engine" <=> n = Root
       /\ f[n].flags \subseteq CASE f[n].kind = "engine"   -> Environment
                                 [] f[n].kind = "parallel" -> {"predicate", "abort"}
                                 [] OTHER                  -> Options
       /\ f[n].kind \in {"engine", "parallel"} => f[n].state = NoState
       /\ f[n].kind = "simple" => f[n].steps = << >>
       /\ f[n].kind = "dynamic" => /\ Len(f[n].steps) = 1
                                   /\ f[f[n].steps[1]].kind # "dynamic"
  /\ \A m, n \in Node : \A i \in 1..Len(f[m].steps), j \in 1..Len(f[n].steps) :
       f[m].steps[i] = f[n].steps[j] => m = n /\ i = j
  /\ \A S \in SUBSET Step :
       S # {} =>
         /\ \E s \in S : \A p \in S : \A i \in 1..Len(f[p].steps) : f[p].steps[i] # s
         /\ \E s \in S : \A i \in 1..Len(f[s].steps) : f[s].steps[i] \notin S

ASSUME RootAssumption == Root \notin Step
ASSUME StateAssumption == NoState \notin StateName
ASSUME FlowAssumption == \A f \in Flows : WellFormed(f)
ASSUME OutcomeAssumption == Outcomes \subseteq {"nil", "plain", "wait", "expected"}
ASSUME FaultAssumption == {ReadsMayFail, WritesMayFail, MayCrash} \subseteq BOOLEAN

VARIABLES
  flow,       \* the configuration; never changes
  pc,         \* where each engine, step body or goroutine is
  at,         \* position of each engine in its steps
  res,        \* what each node returned in this run
  stored,     \* the StateKeeper: status by state name
  window,     \* the Throttler: what its entry for each key amounts to now
  generated,  \* dynamic steps whose GetStep has been called in this run
  cleaned,    \* steps whose OnFail has been called in this run
  panicked    \* the process is unwinding a panic

vars == <<flow, pc, at, res, stored, window, generated, cleaned, panicked>>

--------------------------------------------------------------------------------
(* Results.  base is the innermost error, layers the StepRunErrors around   *)
(* it.  StepRunError and ParallelStepsError do not implement Unwrap.        *)

Bases == {"unset", "skipped", "nil",
          "plain", "wait", "expected", "aborted", "update", "parallel"}

Result == [layers : Nat, base : Bases]

Plainly(b) == [layers |-> 0, base |-> b]

Wrap(r) == [r EXCEPT !.layers = @ + 1]

IsError(r) == r.base \notin {"unset", "skipped", "nil"}

(* errors.As finds an ExpectedError only where nothing wraps it.            *)
IsExpected(r) == r.base = "expected" /\ r.layers = 0

(* Mutant: unwraps a single StepRunError.                                   *)
RequeueUnwrappingOnce(r) ==
  CASE ~IsError(r)                                           -> "30s"
    [] r.layers = 1 /\ r.base \in {"wait", "aborted"}         -> "soon"
    [] OTHER                                                 -> "10s"

(* RunAsReconcilerResponse: when the reconciler runs the flow again.        *)
Requeue(r) ==
  CASE ~IsError(r)                                           -> "30s"
    [] r.layers > 0 /\ r.base \in {"wait", "aborted"}         -> "soon"
    [] OTHER                                                 -> "10s"

--------------------------------------------------------------------------------
(* The configuration, read through the accessors of the step types.         *)

Kind(n) == flow[n].kind
Has(n, flag) == flag \in flow[n].flags
Positions(n) == 1..Len(flow[n].steps)
Nested(n) == {flow[n].steps[i] : i \in Positions(n)}
Current(e) == flow[e].steps[at[e]]

(* Everything below a node, itself included.                                *)
Subtree[n \in Node] == {n} \cup UNION {Subtree[c] : c \in Nested(n)}

(* The State of a step; a dynamic step hands its own to the step inside.    *)
StateOf(s) ==
  IF \E d \in Step : Kind(d) = "dynamic" /\ s \in Nested(d) /\ flow[d].state # NoState
  THEN flow[CHOOSE d \in Step : Kind(d) = "dynamic" /\ s \in Nested(d)].state
  ELSE flow[s].state

HasState(s) == Kind(s) # "parallel" /\ StateOf(s) # NoState

(* s is among the steps of an operation, whose engine has no collaborators. *)
InOperation(s) == \E o \in Step : Kind(o) = "operation" /\ o # s /\ s \in Subtree[o]

(* The keeper and the throttler are handed down to every other engine.      *)
Tracked(s) == Has(Root, "keeper") /\ HasState(s) /\ ~InOperation(s)

HasThrottler(s) == Has(Root, "throttler") /\ ~InOperation(s)

(* The context function is handed down by engines, but not by ParallelSteps. *)
HasContext(e) ==
  /\ Has(Root, "context")
  /\ ~ \E p \in Step : Kind(p) \in {"parallel", "operation"} /\ e \in Subtree[p]

(* The dynamic steps whose GetStep is called when s gets its keeper: an     *)
(* operation is a simple step, to which nothing is handed down.             *)
GeneratedWith(s) ==
  {d \in Step : /\ d \in Subtree[s] /\ Kind(d) = "dynamic"
                /\ ~ \E o \in Step : Kind(o) = "operation" /\ o \in Subtree[s] /\ d \in Subtree[o]}

(* getStep hands its State to what was generated: SetState of ParallelSteps *)
(* panics.                                                                  *)
SetStatePanics(d) ==
  flow[d].state # NoState /\ \E c \in Nested(d) : Kind(c) = "parallel"

(* Where the body of a step starts.                                         *)
Entry(s) == CASE Kind(s) = "simple"   -> "executing"
              [] Kind(s) = "parallel" -> "forking"
              [] OTHER                -> "next"

--------------------------------------------------------------------------------
PCs == {"idle", "next", "predicates", "throttle", "launch", "wait", "failing",
        "callback", "confirming", "recording", "completing", "executing",
        "forking", "spawned", "collecting", "returned"}

Statuses == {"pending", "running", "succeeded", "failed"}

Windows == {"absent", "recent", "elapsed"}

TypeOK ==
  /\ flow \in Flows
  /\ pc \in [Node -> PCs]
  /\ at \in [Node -> Nat \ {0}]
  /\ res \in [Node -> Result]
  /\ stored \in [StateName -> Statuses]
  /\ window \in [Key -> Windows]
  /\ generated \subseteq Step
  /\ cleaned \subseteq Step
  /\ panicked \in BOOLEAN

Init ==
  /\ flow \in Flows
  /\ pc = [n \in Node |-> "idle"]
  /\ at = [n \in Node |-> 1]
  /\ res = [n \in Node |-> Plainly("unset")]
  /\ stored = [x \in StateName |-> "pending"]
  /\ window = [k \in Key |-> "absent"]
  /\ generated = {}
  /\ cleaned = {}
  /\ panicked = FALSE

--------------------------------------------------------------------------------
(* The loop of StepsEngine.Run.                                             *)

Goto(e, label) == pc' = [pc EXCEPT ![e] = label]

Advance(e) ==
  /\ pc' = [pc EXCEPT ![e] = "next"]
  /\ at' = [at EXCEPT ![e] = @ + 1]

(* continue STEPS before the body ran.                                      *)
Skip(e) == Advance(e) /\ res' = [res EXCEPT ![Current(e)] = Plainly("skipped")]

Return(n, r) ==
  /\ pc' = [pc EXCEPT ![n] = "returned"]
  /\ res' = [res EXCEPT ![n] = r]
  /\ UNCHANGED at

Panic == panicked' = TRUE /\ UNCHANGED <<pc, at, res, stored, window, cleaned>>

(* What GetStepState may answer for a tracked step, and SetStepState: a     *)
(* write that reports an error may have been applied all the same.          *)
Reading(s) ==
  IF Tracked(s) THEN {stored[StateOf(s)]} \cup (IF ReadsMayFail THEN {"error"} ELSE {})
                ELSE {"untracked"}

(* Mutant: the keeper has no running state and stores it as unknown.        *)
WriteUnknown(s, status) ==
  stored' = [stored EXCEPT ![StateOf(s)] = IF status = "running" THEN "unknown" ELSE status]

Write(s, status) == stored' = [stored EXCEPT ![StateOf(s)] = status]

WriteFails(s, status) == WritesMayFail /\ (Write(s, status) \/ UNCHANGED stored)

EngineDone(e) ==
  /\ pc[e] = "next"
  /\ at[e] \notin Positions(e)
  /\ Return(e, Plainly("nil"))
  /\ UNCHANGED <<stored, window, generated, cleaned, panicked>>

(* Mutants: no look at the status; failed taken for a terminal state.       *)
ShouldSkipNothing(s, seen) == FALSE

ShouldSkipTerminal(s, seen) == ~Has(s, "skipCheck") /\ seen \in {"succeeded", "failed"}

(* ShouldSkip, given what the keeper answered.                              *)
ShouldSkip(s, seen) == ~Has(s, "skipCheck") /\ seen = "succeeded"

(* Mutant: the keeper is handed to all steps before the loop.               *)
ConsiderAfterAll(e) ==
  /\ pc[e] = "next"
  /\ at[e] \in Positions(e)
  /\ generated' = generated \cup UNION {GeneratedWith(s) : s \in Nested(e)}
  /\ \E seen \in Reading(Current(e)) :
       IF ShouldSkip(Current(e), seen)
       THEN Skip(e)
       ELSE Goto(e, "predicates") /\ UNCHANGED <<at, res>>
  /\ UNCHANGED <<stored, window, cleaned, panicked>>

(* Keeper and throttler are handed to nested steps, which calls GetStep of  *)
(* every dynamic step below; then ShouldSkip reads the keeper.              *)
Consider(e) ==
  /\ pc[e] = "next"
  /\ at[e] \in Positions(e)
  /\ LET s == Current(e)
         panics == \E d \in GeneratedWith(s) \ generated : SetStatePanics(d)
     IN /\ generated' = generated \cup GeneratedWith(s)
        /\ \/ panics /\ Panic
           \/ /\ ~panics
              /\ \E seen \in Reading(s) :
                   IF ShouldSkip(s, seen)
                   THEN Skip(e)
                   ELSE Goto(e, "predicates") /\ UNCHANGED <<at, res>>
              /\ UNCHANGED <<stored, window, cleaned, panicked>>

(* Predicates are the user's functions: either answer is possible.          *)
Predicates(e) ==
  /\ pc[e] = "predicates"
  /\ LET s == Current(e)
     IN \/ Goto(e, "throttle") /\ UNCHANGED <<at, res>>
        \/ Has(s, "predicate") /\ Has(s, "abort") /\ Return(e, Plainly("aborted"))
        \/ Has(s, "predicate") /\ ~Has(s, "abort") /\ Skip(e)
  /\ UNCHANGED <<stored, window, generated, cleaned, panicked>>

(* Mutant: stamps a step before it has succeeded.                           *)
ShouldRunStamping(s, answer) ==
  /\ answer = (window[flow[s].key] # "recent")
  /\ window' = [window EXCEPT ![flow[s].key] = "recent"]

(* rand.IntN has nothing to draw a pre-set stamp from.                      *)
DrawPanics(s) == window[flow[s].key] = "absent" /\ {"preset", "short"} \subseteq flow[s].flags

(* ShouldRun of the Throttler, as one step; module Throttling takes it      *)
(* apart.                                                                   *)
ShouldRun(s, answer) ==
  LET k == flow[s].key
  IN CASE window[k] = "recent" ->
            answer = FALSE /\ UNCHANGED window
       [] window[k] = "absent" /\ Has(s, "preset") ->
            answer = FALSE /\ window' = [window EXCEPT ![k] = "recent"]
       [] OTHER ->
            /\ answer = TRUE
            /\ window' = IF Has(s, "ensure") THEN window
                         ELSE [window EXCEPT ![k] = "recent"]

Throttle(e) ==
  /\ pc[e] = "throttle"
  /\ UNCHANGED generated
  /\ LET s == Current(e)
         consulted == Has(s, "throttled") /\ HasThrottler(s)
     IN \/ consulted /\ DrawPanics(s) /\ Panic
        \/ /\ consulted => ~DrawPanics(s)
           /\ \/ ~consulted /\ Goto(e, "launch") /\ UNCHANGED <<at, res, window>>
              \/ consulted /\ ShouldRun(s, TRUE) /\ Goto(e, "launch") /\ UNCHANGED <<at, res>>
              \/ consulted /\ ShouldRun(s, FALSE) /\ Skip(e)
           /\ UNCHANGED <<stored, cleaned, panicked>>

(* The body starts on the engine's goroutine, which waits for it.           *)
Call(e, s) ==
  /\ pc' = [pc EXCEPT ![e] = "wait", ![s] = Entry(s)]
  /\ UNCHANGED <<at, res>>

Launch(e) ==
  /\ pc[e] = "launch"
  /\ UNCHANGED generated
  /\ LET s == Current(e)
         marks == Tracked(s) /\ Has(Root, "running")
         panics == HasContext(e) /\ Kind(s) = "parallel"
     IN \/ panics /\ Panic
        \/ /\ ~panics
           /\ \/ ~marks /\ Call(e, s) /\ UNCHANGED stored
              \/ marks /\ Call(e, s) /\ Write(s, "running")
              \/ marks /\ WriteFails(s, "running") /\ Return(e, Plainly("update"))
           /\ UNCHANGED <<window, cleaned, panicked>>

(* RunStep has returned.  An expected error moves on to the next step at    *)
(* once, with the state of the step as it is.                               *)
Resume(e) ==
  /\ pc[e] = "wait"
  /\ LET s == Current(e)
         expected == IsExpected(res[s])
     IN /\ pc[s] = "returned"
        /\ pc' = [pc EXCEPT ![s] = "idle",
                            ![e] = IF expected THEN "next"
                                   ELSE IF IsError(res[s]) THEN "failing" ELSE "confirming"]
        /\ at' = IF expected THEN [at EXCEPT ![e] = @ + 1] ELSE at
  /\ UNCHANGED <<res, stored, window, generated, cleaned, panicked>>

(* Mutant: an error of the keeper is logged and forgotten.                  *)
FailedForgetting(e) ==
  /\ pc[e] = "failing"
  /\ LET s == Current(e)
     IN \/ ~Tracked(s) /\ UNCHANGED stored
        \/ Tracked(s) /\ (Write(s, "failed") \/ WriteFails(s, "failed"))
  /\ Goto(e, "callback")
  /\ UNCHANGED <<at, res, window, generated, cleaned, panicked>>

(* Persist the failure; if that fails, the keeper's error is returned bare. *)
Failed(e) ==
  /\ pc[e] = "failing"
  /\ LET s == Current(e)
     IN \/ ~Tracked(s) /\ Goto(e, "callback") /\ UNCHANGED <<at, res, stored>>
        \/ Tracked(s) /\ Write(s, "failed") /\ Goto(e, "callback") /\ UNCHANGED <<at, res>>
        \/ Tracked(s) /\ WriteFails(s, "failed") /\ Return(e, Plainly("update"))
  /\ UNCHANGED <<window, generated, cleaned, panicked>>

(* Mutant: the flow goes on after any failure.                              *)
CallbackContinuing(e) ==
  /\ pc[e] = "callback"
  /\ cleaned' = cleaned \cup {Current(e)}
  /\ Advance(e)
  /\ UNCHANGED <<res, stored, window, generated, panicked>>

(* OnFail runs, whatever it returns; then the flow goes on or stops.        *)
Callback(e) ==
  /\ pc[e] = "callback"
  /\ LET s == Current(e)
     IN /\ cleaned' = cleaned \cup {s}
        /\ IF Has(s, "continue") THEN Advance(e) /\ UNCHANGED res
                                 ELSE Return(e, Wrap(res[s]))
  /\ UNCHANGED <<stored, window, generated, panicked>>

(* Mutant: an unreadable state is taken for a recorded one.                 *)
ConfirmTrusting(e) ==
  /\ pc[e] = "confirming"
  /\ \E seen \in Reading(Current(e)) :
       Goto(e, IF seen \in Statuses \ {"succeeded"} THEN "recording" ELSE "completing")
  /\ UNCHANGED <<at, res, stored, window, generated, cleaned, panicked>>

(* The keeper is asked again after the body: the step may have persisted    *)
(* its own success.                                                         *)
Confirm(e) ==
  /\ pc[e] = "confirming"
  /\ \E seen \in Reading(Current(e)) :
       Goto(e, IF seen \in {"succeeded", "untracked"} THEN "completing" ELSE "recording")
  /\ UNCHANGED <<at, res, stored, window, generated, cleaned, panicked>>

Record(e) ==
  /\ pc[e] = "recording"
  /\ LET s == Current(e)
     IN \/ Write(s, "succeeded") /\ Goto(e, "completing") /\ UNCHANGED <<at, res>>
        \/ WriteFails(s, "succeeded") /\ Return(e, Wrap(Plainly("update")))
  /\ UNCHANGED <<window, generated, cleaned, panicked>>

(* FinishOnSuccess returns before the throttler is told; SetNow is called   *)
(* with no check that there is a throttler.                                 *)
Complete(e) ==
  /\ pc[e] = "completing"
  /\ UNCHANGED generated
  /\ LET s == Current(e)
         stamps == Has(s, "throttled") /\ Has(s, "ensure")
     IN \/ /\ Has(s, "finish")
           /\ Return(e, Plainly("nil"))
           /\ UNCHANGED <<stored, window, cleaned, panicked>>
        \/ ~Has(s, "finish") /\ stamps /\ ~HasThrottler(s) /\ Panic
        \/ /\ ~Has(s, "finish")
           /\ stamps => HasThrottler(s)
           /\ Advance(e)
           /\ window' = IF stamps THEN [window EXCEPT ![flow[s].key] = "recent"] ELSE window
           /\ UNCHANGED <<res, stored, cleaned, panicked>>

--------------------------------------------------------------------------------
(* The bodies of steps.                                                     *)

FunctionReturns(s) ==
  /\ pc[s] = "executing"
  /\ \E o \in Outcomes : Return(s, Plainly(o))
  /\ UNCHANGED <<stored, window, generated, cleaned, panicked>>

(* ValidateParallelSteps.                                                   *)
Invalid(p) ==
  \/ Nested(p) = {}
  \/ \E c \in Nested(p) : Has(c, "finish") \/ Has(c, "continue")

Fork(p) ==
  /\ pc[p] = "forking"
  /\ \/ Invalid(p) /\ Return(p, Plainly("plain"))
     \/ /\ ~Invalid(p)
        /\ pc' = [n \in Node |-> CASE n = p           -> "collecting"
                                   [] n \in Nested(p) -> "spawned"
                                   [] OTHER           -> pc[n]]
        /\ UNCHANGED <<at, res>>
  /\ UNCHANGED <<stored, window, generated, cleaned, panicked>>

(* A goroutine of ParallelSteps: predicates, then the body, and nothing     *)
(* else: no state, no throttling, no callback.                              *)
Goroutine(c) ==
  /\ pc[c] = "spawned"
  /\ \/ Goto(c, Entry(c)) /\ UNCHANGED <<at, res>>
     \/ Has(c, "predicate") /\ Return(c, Plainly("skipped"))
  /\ UNCHANGED <<stored, window, generated, cleaned, panicked>>

(* Mutants: returns at the first error; fails only when all have failed;    *)
(* a goroutine that failed sends nothing.                                   *)
JoinFirst(p) ==
  /\ pc[p] = "collecting"
  /\ \/ \A c \in Nested(p) : pc[c] = "returned"
     \/ \E c \in Nested(p) : pc[c] = "returned" /\ IsError(res[c])
  /\ Return(p, Plainly(IF \E c \in Nested(p) : IsError(res[c]) THEN "parallel" ELSE "nil"))
  /\ UNCHANGED <<stored, window, generated, cleaned, panicked>>

JoinAll(p) ==
  /\ pc[p] = "collecting"
  /\ \A c \in Nested(p) : pc[c] = "returned"
  /\ LET failed == \A c \in Nested(p) : IsError(res[c])
     IN res' = [res EXCEPT ![p] = Plainly(IF failed THEN "parallel" ELSE "nil")]
  /\ pc' = [n \in Node |-> CASE n = p           -> "returned"
                             [] n \in Nested(p) -> "idle"
                             [] OTHER           -> pc[n]]
  /\ UNCHANGED <<at, stored, window, generated, cleaned, panicked>>

JoinSuccesses(p) ==
  (\A c \in Nested(p) : ~IsError(res[c])) /\ JoinAll(p)

(* One answer is received from every goroutine before RunStep returns.      *)
Join(p) ==
  /\ pc[p] = "collecting"
  /\ \A c \in Nested(p) : pc[c] = "returned"
  /\ LET failed == \E c \in Nested(p) : IsError(res[c])
     IN res' = [res EXCEPT ![p] = Plainly(IF failed THEN "parallel" ELSE "nil")]
  /\ pc' = [n \in Node |-> CASE n = p           -> "returned"
                             [] n \in Nested(p) -> "idle"
                             [] OTHER           -> pc[n]]
  /\ UNCHANGED <<at, stored, window, generated, cleaned, panicked>>

--------------------------------------------------------------------------------
(* The reconciler and the environment.                                      *)

Start ==
  /\ pc[Root] = "idle"
  /\ Goto(Root, "next")
  /\ UNCHANGED <<at, res, stored, window, generated, cleaned, panicked>>

(* RunAsReconcilerResponse answers; the next reconciliation builds its      *)
(* engine and steps anew.                                                   *)
Respond ==
  /\ pc[Root] = "returned"
  /\ Goto(Root, "idle")
  /\ at' = [n \in Node |-> 1]
  /\ res' = [n \in Node |-> Plainly("unset")]
  /\ generated' = {}
  /\ cleaned' = {}
  /\ UNCHANGED <<stored, window, panicked>>

(* Time passes or someone calls Reset, which makes an entry where there is  *)
(* none; or the entry is evicted.                                           *)
Lapse(k) ==
  /\ \/ window[k] # "elapsed" /\ window' = [window EXCEPT ![k] = "elapsed"]
     \/ window[k] # "absent" /\ window' = [window EXCEPT ![k] = "absent"]
  /\ UNCHANGED <<pc, at, res, stored, generated, cleaned, panicked>>

(* The process stops; a panic always ends this way.                         *)
Crash ==
  /\ MayCrash
  /\ pc' = [n \in Node |-> "idle"]
  /\ at' = [n \in Node |-> 1]
  /\ res' = [n \in Node |-> Plainly("unset")]
  /\ window' = [k \in Key |-> "absent"]
  /\ generated' = {}
  /\ cleaned' = {}
  /\ panicked' = FALSE
  /\ UNCHANGED stored

--------------------------------------------------------------------------------
EngineStep(e) ==
  \/ EngineDone(e) \/ Consider(e) \/ Predicates(e) \/ Throttle(e) \/ Launch(e)
  \/ Resume(e) \/ Failed(e) \/ Callback(e) \/ Confirm(e) \/ Record(e) \/ Complete(e)

StepStep(s) == FunctionReturns(s) \/ Fork(s) \/ Goroutine(s) \/ Join(s)

NodeStep(n) == EngineStep(n) \/ (n \in Step /\ StepStep(n))

Next ==
  /\ UNCHANGED flow
  /\ \/ /\ ~panicked
        /\ \/ \E n \in Node : NodeStep(n)
           \/ Start \/ Respond
           \/ \E k \in Key : Lapse(k)
     \/ Crash

(* Goroutines are scheduled, user functions return, and the controller      *)
(* requeues; time passes.  Nothing is assumed about how functions, reads    *)
(* and writes turn out, or about crashes.                                   *)
Fairness ==
  /\ \A n \in Node : WF_vars(UNCHANGED flow /\ ~panicked /\ NodeStep(n))
  /\ WF_vars(UNCHANGED flow /\ ~panicked /\ (Start \/ Respond))

Spec == Init /\ [][Next]_vars

FairSpec == Spec /\ Fairness
================================================================================
