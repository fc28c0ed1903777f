---------------------------- MODULE LifecycleProofs ----------------------------
(***************************************************************************)
(* StepsEngine implements StepLifecycle for the flows in which every state *)
(* belongs to one step, with a keeper whose reads do not fail; and it      *)
(* tells the throttler of a success only when the keeper has it.           *)
(***************************************************************************)
EXTENDS OutcomeProofs, TreeProofs

--------------------------------------------------------------------------------
(* A step stays open from the look at its state to its end.                 *)

LEMMA LifecycleParts ==
  ASSUME LifecycleInv
  PROVE  /\ TypeInv /\ ParallelInv /\ SuccessInv /\ StructuredConcurrency
         /\ flow \in Flows /\ Step \subseteq Node /\ stored \in [StateName -> Statuses]
         /\ pc \in [Node -> PCs] /\ at \in [Node -> Nat \ {0}]
         /\ \A s \in Step : Tracked(s) => StateOf(s) \in StateName
BY EngineInvParts, TrackedHasState DEF LifecycleInv, TypeInv, TypeOK, Node

(* What the engine of s does to the state of s.                             *)
LEMMA OwnWrites ==
  ASSUME LifecycleInv, NEW e \in Node, EngineStep(e), NEW s, s = Current(e)
  PROVE  \/ stored' = stored
         \/ /\ pc[e] \in {"launch", "failing", "recording"}
            /\ Tracked(s)
            /\ \E x \in Statuses \ {"pending"} :
                 /\ stored' = [stored EXCEPT ![StateOf(s)] = x]
                 /\ pc[e] = "launch" => x = "running"
<1>1. CASE Launch(e)
  BY <1>1 DEF Launch, Panic, Write, WriteFails, Statuses
<1>2. CASE Failed(e)
  BY <1>2 DEF Failed, Write, WriteFails, Statuses
<1>3. CASE Record(e)
  <2>1. Tracked(s)
    BY <1>3 DEF Record, LifecycleInv, StaysOpen
  <2>2. QED
    BY <1>3, <2>1 DEF Record, Write, WriteFails, Statuses
<1>4. QED
  BY <1>1, <1>2, <1>3 DEF EngineStep, EngineDone, Consider, Predicates, Throttle, Resume,
                          Callback, Confirm, Complete, Panic

LEMMA OwnStaysOpen ==
  ASSUME LifecycleInv, ~ReadsMayFail, NEW e \in Node, EngineStep(e), UNCHANGED flow,
         pc'[e] \in LifecyclePCs, NEW s, s = Current(e)
  PROVE  at'[e] = at[e] /\ StaysOpen(e, s)'
<1>0. /\ pc \in [Node -> PCs] /\ at \in [Node -> Nat \ {0}] /\ stored \in [StateName -> Statuses]
      /\ pc[e] \in InStep => s # e /\ s \in Node /\ s \in Step
      /\ StaysOpen(e, s)
      /\ s \in Step /\ Tracked(s) => StateOf(s) \in StateName
  BY LifecycleParts, CurrentIsNested DEF LifecycleInv, TypeInv, Node
<1>k. /\ Tracked(s)' <=> Tracked(s)
      /\ StateOf(s)' = StateOf(s)
      /\ Has(s, "skipCheck")' <=> Has(s, "skipCheck")
  BY FlowKeeps DEF Has
<1> USE DEF LifecyclePCs
<1>1. CASE Consider(e)
  <2>1. CASE Panic
    BY <1>0, <1>1, <2>1 DEF Consider, Panic
  <2>2. CASE ~Panic
    <3>1. PICK seen \in Reading(s) : /\ ~ShouldSkip(s, seen)
                                     /\ Goto(e, "predicates") /\ UNCHANGED <<at, stored>>
      BY <1>0, <1>1, <2>2 DEF Consider, Skip, Advance
    <3>2. Tracked(s) => stored[StateOf(s)] # "succeeded" \/ Has(s, "skipCheck")
      BY <3>1 DEF Reading, ShouldSkip
    <3>3. QED
      BY <1>0, <1>k, <3>1, <3>2 DEF Goto, StaysOpen
  <2>3. QED  BY <2>1, <2>2
<1>2. CASE Predicates(e) \/ Throttle(e)
  BY <1>0, <1>2, <1>k DEF Predicates, Throttle, Panic, Skip, Advance, Return, Goto, StaysOpen
<1>3. CASE Launch(e)
  <2>1. at'[e] = at[e] /\ pc[e] = "launch" /\ pc'[e] \in {"launch", "wait"}
    BY <1>0, <1>3 DEF Launch, Panic, Call, Return, InStep
  <2>2. Tracked(s) => stored'[StateOf(s)] \in {stored[StateOf(s)], "running"}
    BY <1>0, <1>3, <2>1, OwnWrites DEF InStep
  <2>3. QED
    BY <1>0, <1>k, <2>1, <2>2 DEF StaysOpen
<1>4. CASE Resume(e)
  BY <1>0, <1>4, <1>k DEF Resume, StaysOpen, InStep
<1>5. CASE Confirm(e)
  BY <1>0, <1>5, <1>k DEF Confirm, Reading, Goto, StaysOpen
<1>6. CASE EngineDone(e) \/ Failed(e) \/ Callback(e) \/ Record(e) \/ Complete(e)
  BY <1>0, <1>6 DEF EngineDone, Failed, Callback, Record, Complete, Panic, Advance, Return, Goto
<1>7. QED
  BY <1>1, <1>2, <1>3, <1>4, <1>5, <1>6 DEF EngineStep

(* The step of n leaves alone where another engine is, and at which step.   *)
LEMMA OtherEngines ==
  ASSUME TypeInv, StructuredConcurrency, NEW n \in Node, NodeStep(n), UNCHANGED flow,
         NEW e \in Node, e # n
  PROVE  /\ at'[e] = at[e]
         /\ pc'[e] \in LifecyclePCs => pc'[e] = pc[e]
         /\ pc[e] \in LifecyclePCs => pc'[e] = pc[e]
<1>1. CASE Unmoved(e)
  BY <1>1 DEF Unmoved
<1>2. CASE e \in Nested(n) /\ ~Unmoved(e)
  <2>1. Touches(n, e)
    BY <1>2, NodeTouches
  <2>2. pc[n] \in {"launch", "forking"} => pc[e] = "idle"
    BY <1>2, ChildIdle DEF WaitsFor, TypeInv
  <2>3. QED
    BY <1>2, <2>1, <2>2, EntryIsLabel DEF Touches, Skips, Calls, Resumes, LifecyclePCs
<1>3. QED
  BY <1>1, <1>2, NodeTouches

(* Nobody else writes the state of the step an engine is at.                *)
LEMMA OtherStaysOpen ==
  ASSUME LifecycleInv, OneStateEach, NEW n \in Node, NodeStep(n), UNCHANGED flow,
         NEW e \in Node, e # n, pc'[e] \in LifecyclePCs, NEW s, s = Current(e)
  PROVE  at'[e] = at[e] /\ StaysOpen(e, s)'
<1>0. /\ at'[e] = at[e] /\ pc'[e] = pc[e]
      /\ StaysOpen(e, s)
      /\ Tracked(s)' <=> Tracked(s)
      /\ StateOf(s)' = StateOf(s)
      /\ Has(s, "skipCheck")' <=> Has(s, "skipCheck")
  BY LifecycleParts, OtherEngines, FlowKeeps DEF LifecycleInv, Has
<1>1. SUFFICES ASSUME Tracked(s), stored[StateOf(s)] # "succeeded"
               PROVE  stored'[StateOf(s)] # "succeeded"
  BY <1>0 DEF StaysOpen
<1>2. CASE stored' = stored
  BY <1>1, <1>2
<1>3. CASE stored' # stored
  <2>1. EngineStep(n)
    BY <1>3 DEF NodeStep, StepStep, FunctionReturns, Fork, Goroutine, Join
  <2>2. PICK t : t = Current(n)
    OBVIOUS
  <2>3. /\ pc[n] \in {"launch", "failing", "recording"} /\ Tracked(t)
        /\ \E x : stored' = [stored EXCEPT ![StateOf(t)] = x]
    BY <1>3, <2>1, <2>2, OwnWrites
  <2>4. t \in Nested(n) /\ t \in Step
    BY <2>2, <2>3, LifecycleParts, CurrentIsNested DEF InStep, TypeInv
  <2>5. CASE pc[e] \in InStep
    <3>1. s \in Nested(e) /\ s \in Step
      BY <2>5, LifecycleParts, CurrentIsNested DEF TypeInv
    <3>2. StateOf(s) # StateOf(t)
      BY <1>1, <2>3, <2>4, <3>1, LifecycleParts, OneParent DEF OneStateEach
    <3>3. QED
      BY <1>1, <2>3, <2>4, <3>1, <3>2, LifecycleParts
  <2>6. pc[e] \in InStep
    BY <1>0 DEF LifecyclePCs, InStep
  <2>7. QED
    BY <2>5, <2>6
<1>4. QED
  BY <1>2, <1>3

LEMMA LifecycleInvNext ==
  ASSUME LifecycleInv, EngineInv', [Next]_vars, OneStateEach, ~ReadsMayFail
  PROVE  LifecycleInv'
<1>0. UNCHANGED flow
  BY DEF Next, vars
<1> SUFFICES ASSUME NEW e \in Node, pc'[e] \in LifecyclePCs
             PROVE  StaysOpen(e, Current(e))'
  BY DEF LifecycleInv, StaysOpen, LifecyclePCs
<1>1. PICK s : s = Current(e)
  OBVIOUS
<1>2. ASSUME at'[e] = at[e] PROVE Current(e)' = s
  BY <1>0, <1>1, <1>2 DEF Current
<1>3. SUFFICES at'[e] = at[e] /\ StaysOpen(e, s)'
  BY <1>2
<1>4. StaysOpen(e, s)
  BY <1>1 DEF LifecycleInv
<1>5. CASE UNCHANGED <<pc, at, stored>>
  BY <1>0, <1>4, <1>5, FlowKeeps DEF StaysOpen, Has
<1>6. ASSUME NEW n \in Node, NodeStep(n) PROVE at'[e] = at[e] /\ StaysOpen(e, s)'
  <2>1. CASE n # e
    BY <1>0, <1>1, <1>6, <2>1, OtherStaysOpen
  <2>2. CASE n = e /\ EngineStep(n)
    BY <1>0, <1>1, <2>2, OwnStaysOpen
  <2>3. CASE n = e /\ n \in Step /\ StepStep(n)
    BY <1>0, <2>3, LifecycleParts, BodyCounters, EntryIsLabel DEF LifecyclePCs
  <2>4. QED
    BY <1>6, <2>1, <2>2, <2>3 DEF NodeStep
<1>7. CASE Start
  <2>1. UNCHANGED <<at, stored>> /\ pc'[e] = pc[e]
    BY <1>7, LifecycleParts DEF Start, Goto, LifecyclePCs
  <2>2. QED
    BY <1>0, <1>4, <2>1, FlowKeeps DEF StaysOpen, Has
<1>8. CASE Respond \/ Crash
  <2>1. pc'[e] = "idle"
    BY <1>8, LifecycleParts, NothingLeftBehind DEF Respond, Crash, Goto, TypeInv, Node
  <2>2. QED
    BY <2>1 DEF LifecyclePCs
<1>9. QED
  BY <1>5, <1>6, <1>7, <1>8 DEF Next, Lapse, vars

--------------------------------------------------------------------------------
(* What is in progress.                                                     *)

(* What Lifecycle calls active.                                             *)
Active == {StateOf(s) : s \in {t \in Step : Tracked(t) /\ InProgress(t)}}

InProgressPCs == {"wait", "failing", "confirming", "recording"}

(* t is in progress with engine e.                                          *)
RunsIn(e, t) ==
  t \in Nested(e) /\ at[e] \in Positions(e) /\ Current(e) = t /\ pc[e] \in InProgressPCs

LEMMA InProgressIs == \A t : InProgress(t) <=> \E e \in Node : RunsIn(e, t)
BY DEF InProgress, RunsIn, InProgressPCs

LEMMA OthersRun ==
  ASSUME TypeInv, StructuredConcurrency, NEW n \in Node, NodeStep(n), UNCHANGED flow,
         NEW e \in Node, e # n, NEW t
  PROVE  RunsIn(e, t)' <=> RunsIn(e, t)
<1>1. /\ at'[e] = at[e]
      /\ pc'[e] \in InProgressPCs => pc'[e] = pc[e]
      /\ pc[e] \in InProgressPCs => pc'[e] = pc[e]
  BY OtherEngines DEF InProgressPCs, LifecyclePCs
<1>2. QED
  BY <1>1 DEF RunsIn, Nested, Positions, Current

(* The step of n changes at most whether n's own step is in progress.       *)
LEMMA OnlyOwnProgress ==
  ASSUME TypeInv, StructuredConcurrency, NEW n \in Node, NodeStep(n), UNCHANGED flow,
         NEW t, RunsIn(n, t)' <=> RunsIn(n, t)
  PROVE  InProgress(t)' <=> InProgress(t)
<1>1. InProgress(t)' <=> \E e \in Node : RunsIn(e, t)'
  BY DEF InProgress, RunsIn, InProgressPCs
<1>2. QED
  BY <1>1, InProgressIs, OthersRun

(* How the current step of e, which is tracked, begins and ends.            *)
LEMMA ActiveBegins ==
  ASSUME LifecycleInv, OneStateEach, NEW e \in Node, EngineStep(e), UNCHANGED flow,
         NEW s \in Step, s = Current(e), at[e] \in Positions(e), Tracked(s),
         pc[e] \notin InProgressPCs, pc'[e] \in InProgressPCs, at'[e] = at[e]
  PROVE  StateOf(s) \notin Active /\ Active' = Active \cup {StateOf(s)}
<1>0. TypeInv /\ StructuredConcurrency /\ flow \in Flows /\ s \in Nested(e) /\ NodeStep(e)
  BY LifecycleParts, CurrentIsNested DEF NodeStep
<1>1. ~InProgress(s)
  BY <1>0, InProgressIs, OneParent DEF RunsIn
<1>2. InProgress(s)'
  <2>1. RunsIn(e, s)'
    BY <1>0 DEF RunsIn, Nested, Positions, Current
  <2>2. QED
    BY <2>1 DEF InProgress, RunsIn, InProgressPCs
<1>3. ASSUME NEW t \in Step, t # s PROVE InProgress(t)' <=> InProgress(t)
  <2>1. ~RunsIn(e, t) /\ ~RunsIn(e, t)'
    BY <1>3 DEF RunsIn, Current
  <2>2. QED
    BY <1>0, <2>1, OnlyOwnProgress
<1>4. StateOf(s) \notin Active
  BY <1>1 DEF Active, OneStateEach
<1>5. QED
  BY <1>2, <1>3, <1>4, FlowKeeps DEF Active

LEMMA ActiveEnds ==
  ASSUME LifecycleInv, OneStateEach, NEW e \in Node, EngineStep(e), UNCHANGED flow,
         NEW s \in Step, s = Current(e), at[e] \in Positions(e), Tracked(s),
         pc[e] \in InProgressPCs, pc'[e] \notin InProgressPCs
  PROVE  StateOf(s) \in Active /\ Active' = Active \ {StateOf(s)}
<1>0. TypeInv /\ StructuredConcurrency /\ flow \in Flows /\ s \in Nested(e) /\ NodeStep(e)
  BY LifecycleParts, CurrentIsNested DEF NodeStep
<1>1. InProgress(s)
  BY <1>0, InProgressIs DEF RunsIn
<1>2. ~InProgress(s)'
  <2>1. ASSUME NEW x \in Node PROVE ~RunsIn(x, s)'
    <3>1. CASE x = e
      BY <3>1 DEF RunsIn
    <3>2. CASE x # e
      BY <1>0, <3>2, OthersRun, OneParent DEF RunsIn
    <3>3. QED  BY <3>1, <3>2
  <2>2. QED
    BY <2>1 DEF InProgress, RunsIn, InProgressPCs
<1>3. ASSUME NEW t \in Step, t # s PROVE InProgress(t)' <=> InProgress(t)
  <2>1. ~RunsIn(e, t) /\ ~RunsIn(e, t)'
    BY <1>3 DEF RunsIn, Current
  <2>2. QED
    BY <1>0, <2>1, OnlyOwnProgress
<1>4. QED
  BY <1>1, <1>2, <1>3, FlowKeeps DEF Active, OneStateEach

(* Otherwise nothing begins or ends.                                        *)
LEMMA ActiveKept ==
  ASSUME TypeInv, StructuredConcurrency, NEW n \in Node, NodeStep(n), UNCHANGED flow,
         \/ pc[n] \notin InProgressPCs /\ pc'[n] \notin InProgressPCs
         \/ pc[n] \in InProgressPCs /\ pc'[n] \in InProgressPCs /\ at'[n] = at[n]
         \/ ~Tracked(Current(n)) /\ (at'[n] = at[n] \/ pc'[n] \notin InProgressPCs)
  PROVE  Active' = Active
<1>1. ASSUME NEW t \in Step, Tracked(t) PROVE InProgress(t)' <=> InProgress(t)
  <2>1. RunsIn(n, t)' <=> RunsIn(n, t)
    BY <1>1 DEF RunsIn, Nested, Positions, Current
  <2>2. QED
    BY <2>1, OnlyOwnProgress
<1>2. QED
  BY <1>1, FlowKeeps DEF Active

--------------------------------------------------------------------------------
(* Every step of the engine is one of Lifecycle, or none.                   *)

Repeatable == {StateOf(s) : s \in {t \in Step : Tracked(t) /\ Has(t, "skipCheck")}}

Implements == Lifecycle!Next \/ UNCHANGED <<stored, Active, Repeatable>>

LEMMA RepeatableKept == UNCHANGED flow => Repeatable' = Repeatable
BY FlowKeeps DEF Repeatable, Has

(* A step begins where its engine has launched it.                          *)
LEMMA BeginsAtLaunch ==
  ASSUME TypeInv, StructuredConcurrency, NEW e \in Node, EngineStep(e), NEW s \in Step,
         s = Current(e), s \in Nested(e), pc[e] \notin InProgressPCs, pc'[e] \in InProgressPCs
  PROVE  pc[e] = "launch"
<1>0. pc \in [Node -> PCs]
  BY DEF TypeInv, TypeOK
<1>1. CASE EngineDone(e)
  BY <1>0, <1>1 DEF EngineDone, Return, InProgressPCs
<1>2. CASE Consider(e)
  BY <1>0, <1>2 DEF Consider, Skip, Advance, Goto, Panic, InProgressPCs
<1>3. CASE Predicates(e)
  BY <1>0, <1>3 DEF Predicates, Skip, Advance, Goto, Return, InProgressPCs
<1>4. CASE Throttle(e)
  BY <1>0, <1>4 DEF Throttle, Panic, Skip, Advance, Goto, InProgressPCs
<1>5. CASE Launch(e)
  BY <1>5 DEF Launch
<1>6. CASE Resume(e) \/ Failed(e) \/ Confirm(e) \/ Record(e)
  BY <1>6 DEF Resume, Failed, Confirm, Record, InProgressPCs
<1>7. CASE Callback(e)
  BY <1>0, <1>7 DEF Callback, Advance, Return, InProgressPCs
<1>8. CASE Complete(e)
  BY <1>0, <1>8 DEF Complete, Advance, Return, Panic, InProgressPCs
<1>9. QED
  BY <1>1, <1>2, <1>3, <1>4, <1>5, <1>6, <1>7, <1>8 DEF EngineStep

(* What a tracked step does as a step of its state.                         *)
LEMMA TrackedImplements ==
  ASSUME LifecycleInv, OneStateEach, ~ReadsMayFail, NEW e \in Node, EngineStep(e), UNCHANGED flow,
         NEW s \in Step, s = Current(e), at[e] \in Positions(e), Tracked(s)
  PROVE  Implements
<1> DEFINE x == StateOf(s)
<1>0. /\ TypeInv /\ StructuredConcurrency /\ NodeStep(e) /\ x \in StateName
      /\ s \in Nested(e) /\ Repeatable' = Repeatable
      /\ stored \in [StateName -> Statuses]
  BY LifecycleParts, RepeatableKept, CurrentIsNested DEF NodeStep
<1>1. pc[e] \in LifecyclePCs => stored[x] # "succeeded" \/ x \in Repeatable
  BY DEF LifecycleInv, StaysOpen, Repeatable
<1>2. pc'[e] \in InProgressPCs => at'[e] = at[e]
  BY OwnStaysOpen DEF InProgressPCs, LifecyclePCs
<1>3. \/ stored' = stored
      \/ /\ pc[e] \in {"launch", "failing", "recording"}
         /\ \E y \in Statuses \ {"pending"} :
              /\ stored' = [stored EXCEPT ![x] = y]
              /\ pc[e] = "launch" => y = "running"
  BY OwnWrites
<1>4. CASE pc[e] \in InProgressPCs
  <2>1. x \in Active /\ Active' \in {Active, Active \ {x}}
    <3>1. CASE pc'[e] \in InProgressPCs
      <4>1. InProgress(s)
        BY <1>0, <1>4, InProgressIs DEF RunsIn
      <4>2. Active' = Active
        BY <1>0, <1>2, <1>4, <3>1, ActiveKept
      <4>3. QED
        BY <4>1, <4>2 DEF Active
    <3>2. CASE pc'[e] \notin InProgressPCs
      BY <1>4, <3>2, ActiveEnds
    <3>3. QED  BY <3>1, <3>2
  <2>2. stored[x] # "succeeded" \/ x \in Repeatable
    BY <1>1, <1>4 DEF InProgressPCs, LifecyclePCs
  <2>3. stored' = stored \/ \E y \in Statuses \ {"pending"} : stored' = [stored EXCEPT ![x] = y]
    BY <1>3
  <2>4. Lifecycle!Progress(x)
    BY <2>1, <2>2, <2>3
       DEF Lifecycle!Progress, Lifecycle!Open, Lifecycle!Report, Lifecycle!Statuses, Statuses,
           Active, Repeatable
  <2>5. QED
    BY <1>0, <2>4 DEF Implements, Lifecycle!Next, Repeatable
<1>5. CASE pc[e] \notin InProgressPCs
  <2>1. stored' = stored \/ (pc[e] = "launch" /\ stored' = [stored EXCEPT ![x] = "running"])
    BY <1>3, <1>5 DEF InProgressPCs
  <2>2. pc[e] = "launch" => (stored[x] # "succeeded" \/ x \in Repeatable)
    BY <1>1 DEF LifecyclePCs
  <2>3. CASE pc'[e] \in InProgressPCs
    <3>1. x \notin Active /\ Active' = Active \cup {x}
      BY <1>2, <1>5, <2>3, ActiveBegins
    <3>2. pc[e] = "launch"
      BY <1>0, <1>5, <2>3, BeginsAtLaunch
    <3>3. Lifecycle!Begin(x)
      BY <2>1, <2>2, <3>1, <3>2
         DEF Lifecycle!Begin, Lifecycle!Open, Lifecycle!Report, Active, Repeatable
    <3>4. QED
      BY <1>0, <3>3 DEF Implements, Lifecycle!Next, Repeatable
  <2>4. CASE pc'[e] \notin InProgressPCs
    <3>1. Active' = Active
      BY <1>0, <1>5, <2>4, ActiveKept
    <3>2. CASE stored' = stored
      BY <1>0, <3>1, <3>2 DEF Implements
    <3>3. CASE stored' # stored
      <4>1. x \notin Active
        <5>1. ~InProgress(s)
          BY <1>0, <1>5, LifecycleParts, InProgressIs, OneParent DEF RunsIn
        <5>2. QED
          BY <5>1 DEF Active, OneStateEach
      <4>2. Lifecycle!Announce(x)
        BY <2>1, <2>2, <3>1, <3>3, <4>1
           DEF Lifecycle!Announce, Lifecycle!Open, Lifecycle!Report, Active, Repeatable
      <4>3. QED
        BY <1>0, <4>2 DEF Implements, Lifecycle!Next, Repeatable
    <3>4. QED  BY <3>2, <3>3
  <2>5. QED  BY <2>3, <2>4
<1>6. QED  BY <1>4, <1>5

LEMMA NodeImplements ==
  ASSUME LifecycleInv, OneStateEach, ~ReadsMayFail, NEW n \in Node, NodeStep(n), UNCHANGED flow
  PROVE  Implements
<1>0. TypeInv /\ StructuredConcurrency /\ Repeatable' = Repeatable
  BY LifecycleParts, RepeatableKept
<1>1. CASE n \in Step /\ StepStep(n)
  <2>1. pc[n] \notin InProgressPCs /\ pc'[n] \notin InProgressPCs
    BY <1>0, <1>1, BodyCounters, EntryIsLabel DEF InProgressPCs
  <2>2. stored' = stored
    BY <1>1 DEF StepStep, FunctionReturns, Fork, Goroutine, Join
  <2>3. QED
    BY <1>0, <2>1, <2>2, ActiveKept DEF Implements
<1>2. CASE EngineStep(n) /\ pc[n] \in InStep
  <2>1. PICK s \in Step : s = Current(n) /\ at[n] \in Positions(n)
    BY <1>2, LifecycleParts, CurrentIsNested DEF TypeInv
  <2>2. CASE Tracked(s)
    BY <1>2, <2>1, <2>2, TrackedImplements
  <2>3. CASE ~Tracked(s)
    <3>1. stored' = stored
      BY <1>2, <2>1, <2>3, OwnWrites
    <3>2. pc'[n] \in InProgressPCs => at'[n] = at[n]
      BY <1>2, <2>1, OwnStaysOpen DEF InProgressPCs, LifecyclePCs
    <3>3. Active' = Active
      BY <1>0, <2>1, <2>3, <3>2, ActiveKept
    <3>4. QED
      BY <1>0, <3>1, <3>3 DEF Implements
  <2>4. QED  BY <2>2, <2>3
<1>3. CASE EngineStep(n) /\ pc[n] \notin InStep
  <2>1. EngineDone(n) \/ Consider(n)
    BY <1>3 DEF InStep, EngineStep, Predicates, Throttle, Launch, Resume, Failed, Callback,
                Confirm, Record, Complete
  <2>2. stored' = stored /\ pc'[n] \notin InProgressPCs /\ pc[n] \notin InProgressPCs
    BY <2>1, LifecycleParts
       DEF EngineDone, Consider, Panic, Skip, Advance, Goto, Return, InProgressPCs
  <2>3. QED
    BY <1>0, <2>2, ActiveKept DEF Implements
<1>4. QED
  BY <1>1, <1>2, <1>3 DEF NodeStep

LEMMA NextImplements ==
  ASSUME LifecycleInv, OneStateEach, ~ReadsMayFail, [Next]_vars
  PROVE  Implements
<1>0. UNCHANGED flow /\ Repeatable' = Repeatable
  BY RepeatableKept DEF Next, vars
<1>1. ASSUME \A t : InProgress(t)' <=> InProgress(t), UNCHANGED stored PROVE Implements
  <2>1. Active' = Active
    BY <1>0, <1>1, FlowKeeps DEF Active
  <2>2. QED
    BY <1>0, <1>1, <2>1 DEF Implements
<1>2. ASSUME UNCHANGED <<pc, at, stored>> PROVE Implements
  <2>1. \A t : InProgress(t)' <=> InProgress(t)
    BY <1>0, <1>2 DEF InProgress, Nested, Positions, Current
  <2>2. QED
    BY <1>1, <1>2, <2>1
<1>3. ASSUME NEW n \in Node, NodeStep(n) PROVE Implements
  BY <1>0, <1>3, NodeImplements
<1>4. CASE Start
  <2>1. /\ UNCHANGED <<at, stored>> /\ pc[Root] = "idle" /\ pc'[Root] = "next"
        /\ \A e \in Node : e # Root => pc'[e] = pc[e]
    BY <1>4, LifecycleParts DEF Start, Goto, Node
  <2>2. \A t, e : e \in Node => (RunsIn(e, t)' <=> RunsIn(e, t))
    BY <1>0, <2>1 DEF RunsIn, Nested, Positions, Current, InProgressPCs
  <2>3. \A t : InProgress(t)' <=> \E e \in Node : RunsIn(e, t)'
    BY DEF InProgress, RunsIn, InProgressPCs
  <2>4. QED
    BY <1>1, <2>1, <2>2, <2>3, InProgressIs
<1>5. CASE Respond
  <2>1. \A e \in Node : pc[e] \in {"idle", "returned"} /\ pc'[e] = "idle"
    BY <1>5, LifecycleParts, NothingLeftBehind DEF Respond, Goto, TypeInv, Node
  <2>2. \A t : ~InProgress(t) /\ ~InProgress(t)'
    BY <2>1 DEF InProgress
  <2>3. QED
    BY <1>1, <1>5, <2>2 DEF Respond
<1>6. CASE Crash
  <2>1. \A t : ~InProgress(t)'
    BY <1>6 DEF Crash, InProgress
  <2>2. Active' = {} /\ stored' = stored
    BY <1>6, <2>1 DEF Active, Crash
  <2>3. Lifecycle!Abandon
    BY <2>2 DEF Lifecycle!Abandon, Active
  <2>4. QED
    BY <1>0, <2>3 DEF Implements, Lifecycle!Next, Repeatable
<1>7. QED
  BY <1>2, <1>3, <1>4, <1>5, <1>6 DEF Next, Lapse, vars

LEMMA InitImplements == Init => LifecycleInv /\ Lifecycle!Init
<1> SUFFICES ASSUME Init PROVE LifecycleInv /\ Lifecycle!Init
  OBVIOUS
<1>1. \A e \in Node : pc[e] = "idle"
  BY DEF Init
<1>2. LifecycleInv
  BY <1>1, EngineInvInit DEF LifecycleInv, StaysOpen, LifecyclePCs
<1>3. \A s \in Step : Tracked(s) => StateOf(s) \in StateName
  BY TrackedHasState DEF Init
<1>4. Active = {} /\ Repeatable \subseteq StateName
  BY <1>1, <1>3 DEF Active, Repeatable, InProgress
<1>5. QED
  BY <1>2, <1>4 DEF Init, Lifecycle!Init, Active, Repeatable

(* Where every state belongs to one step and reads do not fail, each        *)
(* persisted state goes through the lifecycle the keeper's contract names:  *)
(* one execution at a time, none after a success, at any depth and on any   *)
(* goroutine, with lost and failing writes and crashes                      *)
(* (step_engine.go:253-366).                                                *)
THEOREM ImplementsLifecycle ==
  ASSUME ~ReadsMayFail
  PROVE  Spec /\ OneStateEach => LifecycleSpec
<1>1. Init => LifecycleInv /\ Lifecycle!Init
  BY InitImplements
<1>2. LifecycleInv /\ EngineInv' /\ OneStateEach /\ [Next]_vars => (LifecycleInv /\ OneStateEach)'
  <2>1. [Next]_vars => UNCHANGED flow
    BY DEF Next, vars
  <2>2. UNCHANGED flow /\ OneStateEach => OneStateEach'
    BY FlowKeeps DEF OneStateEach
  <2>3. QED
    BY <2>1, <2>2, LifecycleInvNext
<1>3. LifecycleInv /\ OneStateEach /\ [Next]_vars
      => [Lifecycle!Next]_<<stored, Active, Repeatable>>
  BY NextImplements DEF Implements
<1>4. QED
  BY <1>1, <1>2, <1>3, EngineInvariant, PTL
     DEF Spec, LifecycleSpec, Lifecycle!Spec, Active, Repeatable

--------------------------------------------------------------------------------
(* The throttler is told of a success that is persisted.                    *)

(* A state that s does not have of its own is that of the dynamic step      *)
(* around it.                                                               *)
LEMMA SharedWithDynamic ==
  ASSUME flow \in Flows, NEW s \in Step, Tracked(s), ~Unshared(s)
  PROVE  \E d \in Step : s \in Nested(d) /\ Tracked(d) /\ Unshared(d) /\ StateOf(d) = StateOf(s)
<1> DEFINE Hands(x, c) == Kind(x) = "dynamic" /\ c \in Nested(x)
<1>0. \A x \in Step : x \in Node
  BY DEF Node
<1>1. PICK d \in Step : Hands(d, s) /\ flow[d].state # NoState
  BY DEF Unshared, StateOf
<1>2. StateOf(s) = flow[d].state
  <2>1. \A x \in Step : Hands(x, s) => x = d
    BY <1>0, <1>1, OneParent
  <2>2. (CHOOSE x \in Step : Hands(x, s)) = d
    BY <1>1, <2>1
  <2>3. QED
    BY <1>1, <2>2 DEF StateOf
<1>3. \A x \in Step : ~Hands(x, d)
  <2>1. SUFFICES ASSUME NEW x \in Step, Hands(x, d) PROVE FALSE
    OBVIOUS
  <2>2. Len(flow[x].steps) = 1 /\ flow[flow[x].steps[1]].kind # "dynamic"
    BY <1>0, <2>1, FlowIsWellFormed DEF WellFormed, Kind
  <2>3. d = flow[x].steps[1]
    BY <2>1, <2>2 DEF Nested, Positions
  <2>4. QED
    BY <1>1, <2>2, <2>3 DEF Kind
<1>4. StateOf(d) = flow[d].state
  BY <1>3 DEF StateOf
<1>5. ~InOperation(d)
  <2>1. SUFFICES ASSUME NEW o \in Step, Kind(o) = "operation", o # d, d \in Subtree[o] PROVE FALSE
    BY DEF InOperation
  <2>2. s \in Subtree[o]
    BY <1>0, <1>1, <2>1, SubtreeCloses
  <2>3. o # s
    BY <1>0, <1>1, <2>1, NoCycle
  <2>4. QED
    BY <2>1, <2>2, <2>3 DEF Tracked, InOperation
<1>6. Tracked(d)
  BY <1>1, <1>4, <1>5 DEF Tracked, HasState
<1>7. QED
  BY <1>1, <1>2, <1>4, <1>6 DEF Unshared

LEMMA StampParts ==
  ASSUME UpholdInv
  PROVE  /\ TypeInv /\ ParallelInv /\ SuccessInv /\ StructuredConcurrency
         /\ flow \in Flows /\ Step \subseteq Node /\ stored \in [StateName -> Statuses]
         /\ pc \in [Node -> PCs] /\ at \in [Node -> Nat \ {0}] /\ res \in [Node -> Result]
BY UpholdParts DEF TypeInv, TypeOK

(* A step that answers has run.                                             *)
LEMMA AnswersStep ==
  ASSUME UpholdInv, StampInv, NEW n \in Node, NodeStep(n), UNCHANGED flow,
         NEW e \in Node, Kind(e) # "parallel", NEW s \in Nested(e)
  PROVE  Answers(s)'
<1>0. Answers(s) /\ s \in Node /\ s \in Step
  BY StampParts, NestedIsBelow DEF StampInv, Node
<1>1. CASE s = n /\ EngineStep(n)
  <2>1. pc'[n] \in InStep \cup {"next", "returned"}
    BY <1>1, StampParts, EngineCounters
  <2>2. pc'[n] = "returned" => IsError(res'[n]) \/ res'[n] = Plainly("nil")
    BY <1>1, EngineReturns
  <2>3. QED
    BY <1>1, <2>1, <2>2 DEF Answers, InStep, IsError, Plainly
<1>2. CASE s = n /\ n \in Step /\ StepStep(n)
  <2>1. pc'[n] # "spawned"
    BY <1>2, StampParts, BodyCounters, EntryIsLabel
  <2>2. ASSUME pc'[n] = "returned" PROVE res'[n].base \notin {"unset", "skipped"}
    <3>1. ~Goroutine(n)
      BY <1>0, <1>2 DEF Answers, Goroutine
    <3>2. CASE FunctionReturns(n)
      BY <3>2, StampParts, OutcomeAssumption DEF FunctionReturns, Return, Plainly
    <3>3. CASE Fork(n)
      BY <2>2, <3>3, StampParts DEF Fork, Return, Plainly
    <3>4. CASE Join(n)
      BY <3>4, StampParts DEF Join, Plainly
    <3>5. QED
      BY <1>2, <3>1, <3>2, <3>3, <3>4 DEF StepStep
  <2>3. QED
    BY <1>2, <2>1, <2>2 DEF Answers
<1>3. CASE s # n /\ s \in Nested(n)
  <2>1. n = e /\ pc[n] \notin {"forking", "collecting"}
    BY <1>3, StampParts, OneParent DEF ParallelInv
  <2>2. CASE Unmoved(s)
    BY <2>2, <1>0 DEF Answers, Unmoved
  <2>3. CASE at[n] \in Positions(n) /\ s = Current(n) /\ Skips(n, s)
    <3>1. pc[s] = "idle"
      BY <1>3, <2>3, StampParts, ChildIdle DEF Skips, WaitsFor, TypeInv
    <3>2. QED
      BY <2>3, <3>1 DEF Skips, Answers
  <2>4. CASE Calls(n, s) \/ Resumes(n, s)
    BY <2>4, EntryIsLabel DEF Calls, Resumes, Answers
  <2>5. QED
    BY <1>3, <2>1, <2>2, <2>3, <2>4, StampParts, NodeTouches DEF Touches
<1>4. CASE s # n /\ s \notin Nested(n)
  BY <1>0, <1>4, StampParts, NodeTouches DEF Answers, Unmoved
<1>5. QED
  BY <1>1, <1>2, <1>3, <1>4 DEF NodeStep

(* What e itself finds successful.                                          *)
LEMMA OwnSuccess ==
  ASSUME UpholdInv, StampInv, NEW e \in Node, EngineStep(e), UNCHANGED flow,
         pc'[e] \in InSuccess, NEW s, s = Current(e)
  PROVE  at'[e] = at[e] /\ Succeeded(e, s)'
<1>0. /\ pc \in [Node -> PCs] /\ at \in [Node -> Nat \ {0}] /\ res \in [Node -> Result]
      /\ stored \in [StateName -> Statuses]
      /\ pc[e] \in InStep => s # e /\ s \in Node /\ s \in Step /\ s \in Nested(e)
      /\ s \in Step /\ Tracked(s) => StateOf(s) \in StateName
      /\ Succeeded(e, s)
  BY StampParts, CurrentIsNested, TrackedHasState DEF TypeInv, StampInv
<1>k. (Tracked(s)' <=> Tracked(s)) /\ StateOf(s)' = StateOf(s)
  BY FlowKeeps
<1>1. CASE Resume(e)
  <2>1. pc[e] = "wait" /\ pc[s] = "returned" /\ s \in Nested(e) /\ s # e /\ s \in Node
    BY <1>0, <1>1 DEF Resume, InStep
  <2>2. Kind(e) # "parallel"
    BY <2>1, StampParts DEF ParallelInv, ParallelPCs
  <2>3. Answers(s)
    BY <2>1, <2>2 DEF StampInv
  <2>4. pc'[e] = "confirming" /\ ~IsError(res[s]) /\ at' = at /\ res' = res
    BY <1>0, <1>1, <2>1 DEF Resume, InSuccess
  <2>5. res[s].base = "nil"
    BY <2>1, <2>3, <2>4 DEF Answers, IsError
  <2>6. QED
    BY <2>4, <2>5 DEF Succeeded
<1>2. CASE Confirm(e)
  <2>1. at' = at /\ res' = res /\ stored' = stored /\ pc'[e] \in {"completing", "recording"}
    BY <1>0, <1>2 DEF Confirm, Goto
  <2>2. pc'[e] = "completing" /\ Tracked(s) => stored[StateOf(s)] = "succeeded"
    <3>1. PICK seen \in Reading(s) :
                 Goto(e, IF seen \in {"succeeded", "untracked"} THEN "completing" ELSE "recording")
      BY <1>2 DEF Confirm
    <3>2. Tracked(s) => seen \in {stored[StateOf(s)], "error"} /\ stored[StateOf(s)] # "untracked"
      BY <1>0, <1>2, <3>1 DEF Reading, Statuses, Confirm, InStep
    <3>3. QED
      BY <1>0, <3>1, <3>2 DEF Goto
  <2>3. QED
    BY <1>0, <1>2, <1>k, <2>1, <2>2 DEF Succeeded, Confirm, InSuccess
<1>3. CASE Record(e)
  <2>1. Write(s, "succeeded") /\ Goto(e, "completing") /\ UNCHANGED <<at, res>>
    BY <1>0, <1>3 DEF Record, Return, InSuccess
  <2>2. Tracked(s) => stored'[StateOf(s)] = "succeeded"
    BY <1>0, <1>3, <2>1 DEF Write, Record, InStep
  <2>3. QED
    BY <1>0, <1>3, <1>k, <2>1, <2>2 DEF Succeeded, Record, InSuccess
<1>4. CASE Complete(e)
  <2>1. Panic
    BY <1>0, <1>4 DEF Complete, Advance, Return, InSuccess
  <2>2. QED
    BY <1>0, <1>k, <2>1 DEF Panic, Succeeded
<1>5. CASE EngineDone(e) \/ Failed(e) \/ Callback(e)
  BY <1>0, <1>5 DEF EngineDone, Failed, Callback, Advance, Return, Goto, InSuccess
<1>6. CASE Consider(e) \/ Predicates(e) \/ Throttle(e)
  BY <1>0, <1>6 DEF Consider, Predicates, Throttle, Panic, Skip, Advance, Return, Goto, InSuccess
<1>7. CASE Launch(e)
  BY <1>0, <1>7 DEF Launch, Panic, Call, Return, InSuccess, InStep
<1>8. QED
  BY <1>1, <1>2, <1>3, <1>4, <1>5, <1>6, <1>7 DEF EngineStep

(* Nobody else takes back what e has found successful.                      *)
LEMMA OthersSuccess ==
  ASSUME UpholdInv, OutcomeInv, StampInv, SeparateStates, NEW n \in Node, NodeStep(n),
         UNCHANGED flow, NEW e \in Node, e # n, pc'[e] \in InSuccess, NEW s, s = Current(e)
  PROVE  at'[e] = at[e] /\ Succeeded(e, s)'
<1>0. /\ pc'[e] = pc[e] /\ at'[e] = at[e]
  <2>1. CASE Unmoved(e)
    BY <2>1 DEF Unmoved
  <2>2. CASE e \in Nested(n) /\ ~Unmoved(e)
    BY <2>2, StampParts, NodeTouches, EntryIsLabel DEF Touches, Skips, Calls, Resumes, InSuccess
  <2>3. QED
    BY <2>1, <2>2, StampParts, NodeTouches
<1>1. at[e] \in Positions(e) /\ s \in Nested(e) /\ s \in Step /\ s \in Node
  BY <1>0, StampParts, CurrentIsNested DEF TypeInv, InSuccess, InStep
<1>2. pc[s] = "idle"
  BY <1>0, <1>1, StampParts, ChildIdle DEF WaitsFor, TypeInv, InSuccess
<1>3. s # n /\ Unmoved(s)
  <2>1. s # n
    BY <1>2, StampParts, NodeTouches
  <2>2. QED
    BY <1>1, <2>1, StampParts, BelowOthers
<1>4. Succeeded(e, s)
  BY DEF StampInv
<1>5. SUFFICES ASSUME pc[e] = "completing", Tracked(s)
               PROVE  stored'[StateOf(s)] = stored[StateOf(s)]
  BY <1>0, <1>3, <1>4, FlowKeeps DEF Succeeded, Unmoved
<1>6. CASE Unshared(s)
  BY <1>1, <1>2, <1>5, <1>6, Untouched DEF Current
<1>7. CASE ~Unshared(s)
  <2>1. SUFFICES ASSUME stored' # stored PROVE stored'[StateOf(s)] = stored[StateOf(s)]
    OBVIOUS
  <2>2. e \in Step /\ Tracked(e) /\ Unshared(e) /\ StateOf(e) = StateOf(s)
    BY <1>1, <1>5, <1>7, StampParts, SharedWithDynamic, OneParent
  <2>3. EngineStep(n)
    BY <2>1 DEF NodeStep, StepStep, FunctionReturns, Fork, Goroutine, Join
  <2>4. PICK t : t = Current(n)
    OBVIOUS
  <2>5. pc[n] \in InStep /\ Tracked(t) /\ \E status \in Statuses : Write(t, status)
    BY <2>1, <2>3, <2>4, StampParts, EngineWrites DEF OutcomeInv
  <2>6. t \in Nested(n) /\ t \in Step
    BY <2>4, <2>5, StampParts, CurrentIsNested DEF TypeInv
  <2>7. StateOf(t) # StateOf(s)
    <3>1. SUFFICES ASSUME StateOf(t) = StateOf(s) PROVE FALSE
      OBVIOUS
    <3>2. t \in Nested(e) \cup {e}
      BY <2>2, <2>5, <2>6, <3>1 DEF SeparateStates
    <3>3. t = e
      BY <2>6, <3>2, StampParts, OneParent
    <3>4. pc[n] = "wait"
      BY <1>5, <2>5, <2>6, <3>3, StampParts, ChildIdle DEF WaitsFor, InStep, TypeInv
    <3>5. Resume(n)
      BY <2>3, <3>4 DEF EngineStep, EngineDone, Consider, Predicates, Throttle, Launch, Failed,
                        Callback, Confirm, Record, Complete
    <3>6. QED
      BY <2>1, <3>5 DEF Resume
  <2>8. QED
    BY <1>1, <1>5, <2>5, <2>6, <2>7, StampParts, TrackedHasState DEF Write
<1>8. QED
  BY <1>6, <1>7

LEMMA StampInvNext ==
  ASSUME UpholdInv, OutcomeInv, StampInv, SeparateStates, [Next]_vars
  PROVE  StampInv'
<1>0. UNCHANGED flow /\ \A e : Kind(e)' = Kind(e) /\ Nested(e)' = Nested(e)
  BY FlowKeeps DEF Next, vars
<1>1. ASSUME NEW n \in Node, NodeStep(n) PROVE StampInv'
  <2>1. ASSUME NEW e \in Node, Kind(e) # "parallel", NEW s \in Nested(e) PROVE Answers(s)'
    BY <1>0, <1>1, <2>1, AnswersStep
  <2>2. ASSUME NEW e \in Node PROVE Succeeded(e, Current(e))'
    <3>1. SUFFICES ASSUME pc'[e] \in InSuccess PROVE Succeeded(e, Current(e))'
      BY DEF Succeeded, InSuccess
    <3>2. PICK s : s = Current(e)
      OBVIOUS
    <3>3. at'[e] = at[e] /\ Succeeded(e, s)'
      <4>1. CASE e # n
        BY <1>0, <1>1, <3>1, <3>2, <4>1, OthersSuccess
      <4>2. CASE e = n /\ EngineStep(n)
        BY <1>0, <3>1, <3>2, <4>2, OwnSuccess
      <4>3. CASE e = n /\ n \in Step /\ StepStep(n)
        BY <1>0, <3>1, <4>3, StampParts, BodyCounters, EntryIsLabel DEF InSuccess
      <4>4. QED
        BY <1>1, <4>1, <4>2, <4>3 DEF NodeStep
    <3>4. Current(e)' = s
      BY <1>0, <3>2, <3>3 DEF Current
    <3>5. QED
      BY <3>3, <3>4
  <2>3. QED
    BY <1>0, <2>1, <2>2 DEF StampInv
<1>2. ASSUME UNCHANGED <<at, res, stored>>, \A e \in Node : pc'[e] = pc[e] \/ pc'[e] = "next"
      PROVE  StampInv'
  <2>1. \A e \in Node : Current(e)' = Current(e)
    BY <1>0, <1>2 DEF Current
  <2>2. ASSUME NEW e \in Node, Kind(e) # "parallel", NEW s \in Nested(e) PROVE Answers(s)'
    BY <1>2, <2>2, StampParts, NestedIsBelow DEF StampInv, Answers
  <2>3. ASSUME NEW e \in Node PROVE Succeeded(e, Current(e))'
    <3>1. PICK s : s = Current(e)
      OBVIOUS
    <3>2. Succeeded(e, s)
      BY <3>1 DEF StampInv
    <3>3. Succeeded(e, s)'
      BY <1>0, <1>2, <3>2, FlowKeeps DEF Succeeded, InSuccess
    <3>4. QED
      BY <2>1, <3>1, <3>3
  <2>4. QED
    BY <1>0, <2>2, <2>3 DEF StampInv
<1>3. ASSUME \A e \in Node : pc'[e] = "idle" PROVE StampInv'
  BY <1>0, <1>3, StampParts, NestedIsBelow DEF StampInv, Answers, Succeeded, InSuccess
<1>4. CASE Start
  BY <1>2, <1>4, StampParts DEF Start, Goto
<1>5. CASE Respond \/ Crash
  BY <1>3, <1>5, StampParts, NothingLeftBehind DEF Respond, Crash, Goto, TypeInv, Node
<1>6. QED
  BY <1>1, <1>2, <1>4, <1>5 DEF Next, Lapse, vars

(* Who stamps the key of an EnsureStepSuccess step.                         *)
LEMMA StampsSuccess ==
  ASSUME UpholdInv, StampInv, OwnKeys, [Next]_vars, NEW s \in Step,
         Has(s, "ensure"), ~Has(s, "preset"),
         window[flow[s].key] # "recent", window'[flow[s].key] = "recent"
  PROVE  res[s].base = "nil" /\ (Tracked(s) => stored[StateOf(s)] = "succeeded")
<1> DEFINE k == flow[s].key
<1>0. UNCHANGED flow /\ k \in Key
  BY StampParts, FlowIsWellFormed DEF Next, vars, NodeConfig
<1>1. CASE \E l \in Key : Lapse(l)
  BY <1>0, <1>1, StampParts DEF Lapse, TypeInv, TypeOK
<1>2. CASE Crash
  BY <1>0, <1>2 DEF Crash
<1>3. ASSUME NEW e \in Node, EngineStep(e) PROVE Complete(e) \/ Throttle(e)
  BY <1>3 DEF EngineStep, EngineDone, Consider, Predicates, Launch, Resume, Failed, Callback,
              Confirm, Record, Panic
<1>4. ASSUME NEW e \in Node, EngineStep(e) PROVE at[e] \in Positions(e) /\ Current(e) \in Step
  BY <1>3, <1>4, StampParts, CurrentIsNested DEF Complete, Throttle, TypeInv, InStep
<1>5. ASSUME NEW e \in Node, Throttle(e) PROVE FALSE
  <2>1. PICK t \in Step : t = Current(e)
    BY <1>4, <1>5 DEF EngineStep
  <2>a. ~Panic
    BY DEF Panic
  <2>2. PICK answer : ShouldRun(t, answer) /\ Has(t, "throttled")
    BY <1>5, <2>1, <2>a DEF Throttle
  <2>3. window' = window \/ (window' = [window EXCEPT ![flow[t].key] = "recent"]
                            /\ (Has(t, "preset") \/ ~Has(t, "ensure")))
    BY <2>2 DEF ShouldRun
  <2>4. t = s
    <3>1. flow[t].key = k
      BY <1>0, <2>3, StampParts DEF TypeInv, TypeOK
    <3>2. QED
      BY <2>2, <3>1 DEF OwnKeys
  <2>5. QED
    BY <2>3, <2>4
<1>6. ASSUME NEW e \in Node, Complete(e)
      PROVE  res[s].base = "nil" /\ (Tracked(s) => stored[StateOf(s)] = "succeeded")
  <2>1. PICK t \in Step : t = Current(e)
    BY <1>4, <1>6 DEF EngineStep
  <2>2. Has(t, "throttled") /\ window' = [window EXCEPT ![flow[t].key] = "recent"]
    BY <1>6, <2>1 DEF Complete, Panic
  <2>3. t = s
    <3>1. flow[t].key = k
      BY <1>0, <2>2, StampParts DEF TypeInv, TypeOK
    <3>2. QED
      BY <2>2, <3>1 DEF OwnKeys
  <2>4. Succeeded(e, s)
    BY <2>1, <2>3 DEF StampInv
  <2>5. QED
    BY <1>6, <2>4 DEF Complete, Succeeded, InSuccess
<1>7. QED
  BY <1>1, <1>2, <1>3, <1>5, <1>6
     DEF Next, NodeStep, StepStep, FunctionReturns, Fork, Goroutine, Join, Start, Respond, vars

(* In every flow in which an EnsureStepSuccess step shares its key with no  *)
(* other throttled step, and steps share no states, its stamp is renewed    *)
(* only when it has succeeded and its success is persisted, with any faults *)
(* and crashes (step_engine.go:337-376).                                    *)
THEOREM SuccessesStamp == Spec /\ SeparateStates /\ OwnKeys => StampedAfterSuccess
<1>1. Init => OutcomeInv /\ UpholdInv /\ StampInv
  <2>1. Init => StampInv
    <3> SUFFICES ASSUME Init PROVE StampInv
      OBVIOUS
    <3>1. \A e \in Node : Nested(e) \subseteq Node
      BY NestedIsBelow DEF Init, Node
    <3>2. QED
      BY <3>1 DEF Init, StampInv, Answers, Succeeded, InSuccess
  <2>2. QED
    BY <2>1, OutcomeInit, UpholdInit
<1>2. [Next]_vars => UNCHANGED flow
  BY DEF Next, vars
<1>3. UNCHANGED flow /\ SeparateStates /\ OwnKeys => (SeparateStates /\ OwnKeys)'
  BY FlowKeeps DEF OwnKeys, Has
<1>4. OutcomeInv /\ SeparateStates /\ [Next]_vars => OutcomeInv'
  BY OutcomeStep
<1>5. UpholdInv /\ OutcomeInv' /\ [Next]_vars => UpholdInv'
  <2>1. OutcomeInv' => EngineInv'
    BY DEF OutcomeInv
  <2>2. QED
    BY <2>1, UpholdNext
<1>6. UpholdInv /\ OutcomeInv /\ StampInv /\ SeparateStates /\ [Next]_vars => StampInv'
  BY StampInvNext
<1>7. UpholdInv /\ StampInv /\ OwnKeys /\ [Next]_vars
      => \A s \in Step :
           /\ Has(s, "ensure") /\ ~Has(s, "preset")
           /\ window[flow[s].key] # "recent" /\ window'[flow[s].key] = "recent"
           => res[s].base = "nil" /\ (Tracked(s) => stored[StateOf(s)] = "succeeded")
  BY StampsSuccess
<1>8. QED
  BY <1>1, <1>2, <1>3, <1>4, <1>5, <1>6, <1>7, PTL DEF Spec, StampedAfterSuccess
================================================================================
