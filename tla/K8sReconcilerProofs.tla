-------------------------- MODULE K8sReconcilerProofs ---------------------------
(***************************************************************************)
(* What holds on the API server, for every sequential flow in which each   *)
(* state belongs to one step, for every lag of the cache and any number of *)
(* faults: what an engine has found out about a step is there, a success   *)
(* is final, and a guard that has let a step pass is true.                 *)
(***************************************************************************)
EXTENDS K8sReconciler, LifecycleProofs

--------------------------------------------------------------------------------
(* The engine is the one of module StepsEngine, but for Reconcile, which    *)
(* starts it on the copy that the cache has.                                *)

LEMMA AllSeparate == OneStateEach => SeparateStates
BY DEF OneStateEach, SeparateStates

(* Nothing has been reached where no reconciliation is under way, and who    *)
(* has not answered has no result.                                          *)
Untried == \A n \in Node : pc[n] = "idle" /\ at[n] = 1 /\ res[n] = Plainly("unset")

Unanswered(n) == pc[n] \notin {"idle", "returned"} => res[n] = Plainly("unset")

RunInv ==
  /\ UpholdInv /\ OutcomeInv /\ LifecycleInv
  /\ pc[Root] = "idle" => Untried
  /\ \A n \in Node : Unanswered(n)

LEMMA RunParts ==
  ASSUME RunInv
  PROVE  /\ EngineInv /\ TypeInv /\ ParallelInv /\ SuccessInv /\ StructuredConcurrency
         /\ flow \in Flows /\ Step \subseteq Node /\ Root \in Node /\ Root \notin Step
         /\ stored \in [StateName -> Statuses]
         /\ pc \in [Node -> PCs] /\ at \in [Node -> Nat \ {0}] /\ res \in [Node -> Result]
         /\ \A s \in Step : Tracked(s) => StateOf(s) \in StateName
BY LifecycleParts, StampParts, RootAssumption DEF RunInv, UpholdInv, Node

LEMMA StaysUntried ==
  ASSUME RunInv, [Next]_vars, pc'[Root] = "idle"
  PROVE  Untried'
<1>0. UNCHANGED flow
  BY DEF Next, vars
<1>1. CASE \E n \in Node : NodeStep(n)
  <2>1. PICK n \in Node : NodeStep(n)
    BY <1>1
  <2>2. pc[n] \notin {"idle", "returned"}
    BY <1>0, <2>1, RunParts, NodeTouches
  <2>3. pc[Root] # "idle"
    BY <2>2 DEF RunInv, Untried
  <2>4. n = Root
    <3>1. Root \notin Nested(n)
      BY RunParts, NestedIsBelow
    <3>2. QED
      BY <1>0, <2>1, <2>3, <3>1, RunParts, NodeTouches DEF Unmoved
  <2>5. EngineStep(Root)
    BY <2>1, <2>4, RunParts DEF NodeStep
  <2>6. QED
    BY <1>0, <2>5, RunParts, EngineCounters DEF InStep
<1>2. CASE Start
  BY <1>2, RunParts DEF Start, Goto
<1>3. CASE Respond
  <2>1. \A s \in Step : pc[s] = "idle"
    BY <1>3, RunParts, NothingLeftBehind DEF Respond, TypeInv
  <2>2. QED
    BY <1>3, <2>1, RunParts DEF Respond, Goto, Untried, Node
<1>4. CASE UNCHANGED <<pc, at, res>>
  BY <1>4 DEF RunInv, Untried
<1>5. CASE Crash
  BY <1>5 DEF Crash, Untried
<1>6. QED
  BY <1>1, <1>2, <1>3, <1>4, <1>5 DEF Next, Lapse, vars

(* A node gets its own result when it returns.                              *)
LEMMA AnswersAtTheEnd ==
  ASSUME RunInv, NEW n \in Node, NodeStep(n), pc'[n] # "returned"
  PROVE  res'[n] = res[n]
<1>1. at[n] \in Positions(n) => Current(n) # n
  BY RunParts, CurrentIsNested
<1>2. CASE EngineStep(n)
  <2>1. pc[n] \in InStep => at[n] \in Positions(n)
    BY RunParts DEF TypeInv
  <2>2. CASE Skip(n)
    <3>1. at[n] \in Positions(n)
      BY <1>2, <2>1, <2>2, RunParts
         DEF EngineStep, EngineDone, Consider, Predicates, Throttle, Launch, Resume, Failed,
             Callback, Confirm, Record, Complete, InStep, Return, Skip, Advance
    <3>2. QED
      BY <1>1, <2>2, <3>1, RunParts DEF Skip
  <2>3. CASE ~Skip(n)
    BY <1>2, <2>3, RunParts
       DEF EngineStep, EngineDone, Consider, Predicates, Throttle, Launch, Resume, Failed,
           Callback, Confirm, Record, Complete, Return, Panic, Call
  <2>4. QED  BY <2>2, <2>3
<1>3. CASE n \in Step /\ StepStep(n)
  BY <1>3, RunParts DEF StepStep, FunctionReturns, Fork, Goroutine, Join, Return
<1>4. QED
  BY <1>2, <1>3 DEF NodeStep

LEMMA StaysUnanswered ==
  ASSUME RunInv, [Next]_vars, NEW x \in Node
  PROVE  Unanswered(x)'
<1>0. UNCHANGED flow
  BY DEF Next, vars
<1>1. SUFFICES ASSUME pc'[x] \notin {"idle", "returned"} PROVE res'[x] = Plainly("unset")
  BY DEF Unanswered
<1>2. Unanswered(x)
  BY DEF RunInv
<1>3. CASE \E n \in Node : NodeStep(n)
  <2>1. PICK n \in Node : NodeStep(n)
    BY <1>3
  <2>2. CASE Unmoved(x)
    BY <1>1, <1>2, <2>2 DEF Unmoved, Unanswered
  <2>3. CASE x = n
    BY <1>0, <1>1, <1>2, <2>1, <2>3, RunParts, NodeTouches, AnswersAtTheEnd DEF Unanswered
  <2>4. CASE x \in Nested(n) /\ ~Unmoved(x)
    <3>1. UnreachedInside(n) /\ UnreachedAhead(n)
      BY DEF RunInv, UpholdInv
    <3>2. pc[n] = "forking" => Fresh(x)
      BY <2>4, <3>1 DEF UnreachedInside, FreshInside
    <3>3. ASSUME at[n] \in Positions(n), x = Current(n),
                 pc[n] \in {"next", "predicates", "throttle", "launch"}
          PROVE  Fresh(x)
      <4>1. Kind(n) # "parallel"
        BY <3>3, RunParts DEF ParallelInv, ParallelPCs
      <4>2. Ahead(n, at[n])
        BY <3>3 DEF Ahead
      <4>3. QED
        BY <3>1, <3>3, <4>1, <4>2 DEF UnreachedAhead, Current
    <3>4. Touches(n, x)
      BY <1>0, <2>1, <2>4, RunParts, NodeTouches
    <3>5. QED
      BY <1>1, <2>4, <3>2, <3>3, <3>4 DEF Touches, Skips, Calls, Resumes, Fresh
  <2>5. QED
    BY <1>0, <2>1, <2>2, <2>3, <2>4, RunParts, NodeTouches
<1>4. CASE Start
  BY <1>1, <1>2, <1>4, RunParts DEF Start, Goto, Unanswered, RunInv, Untried
<1>5. CASE Respond \/ Crash
  BY <1>5 DEF Respond, Crash
<1>6. CASE UNCHANGED <<pc, res>>
  BY <1>1, <1>2, <1>6 DEF Unanswered
<1>7. QED
  BY <1>3, <1>4, <1>5, <1>6 DEF Next, Lapse, vars

LEMMA RunNext ==
  ASSUME RunInv, OneStateEach, [Next]_vars
  PROVE  RunInv'
<1>1. OutcomeInv'
  BY OutcomeStep, AllSeparate DEF RunInv
<1>2. EngineInv'
  BY <1>1 DEF OutcomeInv
<1>3. UpholdInv'
  BY <1>2, UpholdNext DEF RunInv
<1>4. LifecycleInv'
  BY <1>2, LifecycleInvNext, KeeperAssumption DEF RunInv
<1>5. QED
  BY <1>1, <1>3, <1>4, StaysUntried, StaysUnanswered DEF RunInv

(* Reconcile starts the engine with nothing reached.                        *)
LEMMA ReconcileStarts ==
  ASSUME RunInv, Reconcile, UNCHANGED flow, cached \in [StateName -> Statuses]
  PROVE  RunInv'
<1>0. /\ UNCHANGED <<flow, at, res, window, generated, cleaned, panicked>>
      /\ Untried /\ stored' = cached
      /\ pc' = [pc EXCEPT ![Root] = "next"] /\ pc[Root] = "idle"
  BY DEF Reconcile, Goto, RunInv
<1>1. \A n \in Node : /\ at'[n] = 1 /\ res'[n] = Plainly("unset") /\ pc'[n] \in {"idle", "next"}
                      /\ n # Root => pc'[n] = "idle"
  BY <1>0, RunParts DEF Untried
<1>2. EngineInv'
  <2>1. TypeOK'
    BY <1>0, RunParts DEF TypeInv, TypeOK, PCs
  <2>2. \A e \in Node : pc'[e] \notin InStep
    BY <1>1 DEF InStep
  <2>3. \A p \in Node : Kind(p)' = "parallel" => at'[p] = 1 /\ pc'[p] \in ParallelPCs
    <3>1. Kind(Root) # "parallel"
      BY RunParts, FlowIsWellFormed DEF WellFormed, Kind
    <3>2. QED
      BY <1>0, <1>1, <3>1 DEF Kind, ParallelPCs
  <2>4. \A p \in Node : pc'[p] \notin {"forking", "collecting"} \cup InSuccess
    BY <1>1 DEF InSuccess
  <2>5. StructuredConcurrency'
    BY <1>1, RunParts DEF StructuredConcurrency
  <2>6. FailureStopsFlow'
    BY <1>1 DEF FailureStopsFlow, Positions
  <2>7. QED
    BY <2>1, <2>2, <2>3, <2>4, <2>5, <2>6 DEF EngineInv
<1>3. OutcomeInv'
  BY <1>0, <1>1, <1>2, FreshOutcome DEF OutcomeInv
<1>4. LifecycleInv'
  BY <1>1, <1>2 DEF LifecycleInv, StaysOpen, LifecyclePCs
<1>5. UpholdInv'
  <2>1. ASSUME NEW n \in Node
        PROVE  /\ Upheld(n)' /\ UnreachedInside(n)' /\ UnreachedAhead(n)' /\ Witnessed(n)'
    <3>1. \A c \in Nested(n) : c \in Step /\ c \in Node /\ pc'[c] = "idle" /\ res'[c] = Plainly("unset")
      BY <1>0, <1>1, RunParts, NestedIsBelow
    <3>2. Nested(n)' = Nested(n) /\ Positions(n)' = Positions(n)
      BY <1>0, FlowKeeps
    <3>3. \A c \in Nested(n) : Fresh(c)' /\ ~Fails(c)'
      BY <3>1, Verdicts DEF Fresh, Fails
    <3>4. Upheld(n)' /\ UnreachedInside(n)'
      BY <3>2, <3>3 DEF Upheld, UnreachedInside, FreshInside
    <3>5. UnreachedAhead(n)'
      <4>1. \A i \in Positions(n) : flow[n].steps[i] \in Nested(n)
        BY DEF Nested
      <4>2. QED
        BY <1>0, <3>2, <3>3, <4>1 DEF UnreachedAhead
    <3>6. Witnessed(n)'
      BY <1>1 DEF Witnessed
    <3>7. QED
      BY <3>4, <3>5, <3>6
  <2>2. QED
    BY <1>2, <2>1 DEF UpholdInv
<1>6. QED
  BY <1>0, <1>1, <1>3, <1>4, <1>5, RunParts DEF RunInv, Untried, Unanswered

LEMMA RunInit == K8sInit => RunInv
BY UpholdInit, OutcomeInit, InitImplements DEF K8sInit, Init, RunInv, Untried, Unanswered

--------------------------------------------------------------------------------
(* The copy of the run and the server.                                      *)

(* A copy of the latest version knows the successes that are final.         *)
Lasting(s) == Tracked(s) /\ ~Has(s, "skipCheck")

SuccessesKnown ==
  current /\ pc[Root] # "idle" =>
    \A s \in Step :
      Lasting(s) /\ server[StateOf(s)] = "succeeded" => stored[StateOf(s)] = "succeeded"

(* The server has what the copy says of s; and so it is when s has told its *)
(* engine something that the engine persists.                               *)
Settled(s) == server[StateOf(s)] = stored[StateOf(s)]

Told(s) == Tracked(s) /\ (Fails(s) \/ (res[s].base = "nil" /\ ~Has(s, "skipCheck")))

OnServer(e) ==
  /\ \A i \in Positions(e) : Left(e, i) /\ Told(flow[e].steps[i]) => Settled(flow[e].steps[i])
  /\ pc[e] \in {"callback", "completing"} /\ Told(Current(e)) => Settled(Current(e))

ServerInv ==
  /\ RunInv
  /\ K8sInv
  /\ \A x \in StateName : stored[x] # "running"
  /\ SuccessesKnown
  /\ \A e \in Node : OnServer(e)

LEMMA ServerTypes ==
  ASSUME ServerInv
  PROVE  /\ RunInv
         /\ server \in [StateName -> Statuses \ {"running"}]
         /\ cached \in [StateName -> Statuses \ {"running"}]
         /\ current \in BOOLEAN /\ fresh \in BOOLEAN
         /\ disturbances \in 0..MaxDisturbances
         /\ fresh => cached = server
         /\ stored \in [StateName -> Statuses \ {"running"}]
<1>1. {current, fresh} \subseteq BOOLEAN
  BY DEF ServerInv, K8sInv, K8sTypeOK
<1>2. stored \in [StateName -> Statuses \ {"running"}]
  BY RunParts DEF ServerInv
<1>3. QED
  BY <1>1, <1>2 DEF ServerInv, K8sInv, K8sTypeOK

LEMMA FlowKeepsTracked ==
  ASSUME UNCHANGED flow
  PROVE  /\ \A s : /\ Tracked(s)' <=> Tracked(s)
                   /\ StateOf(s)' = StateOf(s)
                   /\ Lasting(s)' <=> Lasting(s)
                   /\ Unshared(s)' <=> Unshared(s)
         /\ \A e : Positions(e)' = Positions(e)
         /\ OneStateEach' <=> OneStateEach
BY FlowKeeps DEF Lasting, Has, OneStateEach

(* What the engine has SetStepState do: the server takes the copy, or the   *)
(* engine gives up.                                                         *)
Accepted(n) == current /\ server' = stored' /\ fresh' = FALSE /\ current' \in BOOLEAN

Refused(n) ==
  /\ UNCHANGED <<server, current, fresh>>
  /\ pc'[n] = "returned" /\ res'[n].base = "update"

Writes(n) ==
  /\ EngineStep(n) /\ pc[n] \in {"failing", "recording"}
  /\ at[n] \in Positions(n) /\ Current(n) \in Step /\ Tracked(Current(n))
  /\ stored' = [stored EXCEPT ![StateOf(Current(n))] = Status(n)]
  /\ Accepted(n) \/ Refused(n)

LEMMA WhatIsWritten ==
  ASSUME RunInv, current \in BOOLEAN, NEW n \in Node, RunStep(n), UNCHANGED flow
  PROVE  UNCHANGED <<stored, server, current, fresh>> \/ Writes(n)
<1>0. NodeStep(n)
  BY DEF RunStep
<1>1. CASE Persists(n)
  <2>1. pc[n] \in {"failing", "recording"} /\ Tracked(Current(n)) /\ Update(n)
    BY <1>1 DEF RunStep, Persists
  <2>2. EngineStep(n)
    BY <1>0, <2>1, RunParts, BodyCounters DEF NodeStep
  <2>3. at[n] \in Positions(n) /\ Current(n) \in Step
    BY <2>1, RunParts, CurrentIsNested DEF TypeInv, InStep
  <2>4. pc'[n] = "returned" => res'[n].base = "update"
    <3>1. SUFFICES ASSUME pc'[n] = "returned" PROVE res'[n].base = "update"
      OBVIOUS
    <3>2. CASE Failed(n)
      <4>1. Return(n, Plainly("update"))
        BY <2>1, <3>1, <3>2, RunParts DEF Failed, Goto
      <4>2. QED
        BY <4>1, RunParts, Verdicts DEF Return
    <3>3. CASE Record(n)
      <4>1. Return(n, Wrap(Plainly("update")))
        BY <2>1, <3>1, <3>3, RunParts DEF Record, Goto
      <4>2. QED
        BY <4>1, RunParts, Verdicts DEF Return
    <3>4. QED
      BY <2>1, <2>2, <3>2, <3>3
         DEF EngineStep, EngineDone, Consider, Predicates, Throttle, Launch, Resume, Callback,
             Confirm, Complete
  <2>5. Accepted(n) \/ Refused(n)
    BY <2>1, <2>4 DEF Update, Accepted, Refused
  <2>6. QED
    BY <2>1, <2>2, <2>3, <2>5 DEF Writes, Update, Write
<1>2. CASE ~Persists(n)
  <2>1. UNCHANGED <<server, current, fresh>>
    BY <1>2 DEF RunStep
  <2>2. CASE EngineStep(n)
    <3>1. PICK s : s = Current(n)
      OBVIOUS
    <3>2. stored' = stored \/ pc[n] = "launch"
      BY <1>2, <2>2, <3>1, OwnWrites DEF RunInv, Persists
    <3>3. pc[n] = "launch" => Launch(n)
      BY <2>2 DEF EngineStep, EngineDone, Consider, Predicates, Throttle, Resume, Failed,
                  Callback, Confirm, Record, Complete
    <3>4. Launch(n) => stored' = stored
      BY RunParts, KeeperAssumption DEF Launch, Panic, Has
    <3>5. QED
      BY <2>1, <3>2, <3>3, <3>4
  <2>3. CASE n \in Step /\ StepStep(n)
    BY <2>1, <2>3 DEF StepStep, FunctionReturns, Fork, Goroutine, Join
  <2>4. QED
    BY <1>0, <2>2, <2>3 DEF NodeStep
<1>3. QED
  BY <1>1, <1>2

(* Whoever has answered is not made to answer again.                        *)
LEMMA AnswersStand ==
  ASSUME RunInv, NEW n \in Node, NodeStep(n), UNCHANGED flow,
         NEW x \in Node, res[x] # Plainly("unset")
  PROVE  res'[x] = res[x]
<1>1. x # n
  BY RunParts, NodeTouches DEF RunInv, Unanswered
<1>2. CASE x \in Nested(n) /\ ~Unmoved(x)
  <2>1. Touches(n, x)
    BY <1>2, RunParts, NodeTouches
  <2>2. ~(at[n] \in Positions(n) /\ x = Current(n) /\ Skips(n, x))
    <3>1. SUFFICES ASSUME at[n] \in Positions(n), x = Current(n), Skips(n, x) PROVE FALSE
      OBVIOUS
    <3>2. Kind(n) # "parallel"
      BY <3>1, RunParts DEF ParallelInv, ParallelPCs, Skips
    <3>3. Ahead(n, at[n])
      BY <3>1 DEF Ahead, Skips
    <3>4. QED
      BY <3>1, <3>2, <3>3 DEF RunInv, UpholdInv, UnreachedAhead, Fresh, Current
  <2>3. QED
    BY <2>1, <2>2 DEF Touches, Calls, Resumes, Unmoved
<1>3. QED
  BY <1>1, <1>2, RunParts, NodeTouches DEF Unmoved

LEMMA AtWork ==
  ASSUME RunInv, NEW n \in Node, NodeStep(n), UNCHANGED flow
  PROVE  pc[Root] # "idle"
BY RunParts, NodeTouches DEF RunInv, Untried

--------------------------------------------------------------------------------
(* When an engine leaves a step, and when it is about to.                   *)

(* An engine leaves a step that has told it something persistent from one   *)
(* of two places.                                                           *)
LEMMA LeavesTold ==
  ASSUME RunInv, UNCHANGED flow, NEW e \in Node, EngineStep(e), at[e] \in Positions(e),
         NEW s \in Step, s = Current(e), Leaves(e, s), Told(s)'
  PROVE  pc[e] \in {"callback", "completing"} /\ res'[s] = res[s]
<1>0. /\ s \in Node /\ s # e
      /\ pc \in [Node -> PCs] /\ at \in [Node -> Nat \ {0}] /\ res \in [Node -> Result]
  BY RunParts, CurrentIsNested
<1>1. res'[s].base \notin {"unset", "skipped", "expected"} \/ (res'[s].base = "expected" /\ ~IsExpected(res'[s]))
  BY DEF Told, Fails, IsError
<1>a. ~Skip(e)
  BY <1>0, <1>1, Verdicts DEF Skip
<1>b. ASSUME NEW b, b # "nil", Return(e, Plainly(b)) PROVE FALSE
  <2>1. res'[e] = Plainly(b) /\ res'[s] = res[s] /\ res[s] \in Result
    BY <1>0, <1>b DEF Return
  <2>2. QED
    BY <2>1, <1>0, <1>b, NotAnOutcome DEF Return, Leaves
<1>c. ASSUME at' = at, pc'[e] # "returned" PROVE FALSE
  BY <1>c DEF Leaves
<1>1c. CASE EngineDone(e) \/ Consider(e) \/ Predicates(e) \/ Throttle(e)
  BY <1>0, <1>a, <1>b, <1>c, <1>1c DEF EngineDone, Consider, Predicates, Throttle, Panic, Goto
<1>2. CASE Launch(e)
  <2>1. CASE Call(e, s)
    BY <2>1, <1>0, <1>c, EntryIsLabel DEF Call
  <2>2. CASE Panic
    BY <2>2, <1>2, <1>0, <1>c DEF Panic, Launch
  <2>3. CASE Return(e, Plainly("update"))
    BY <2>3, <1>b
  <2>4. QED
    BY <1>2, <2>1, <2>2, <2>3 DEF Launch
<1>3. CASE Resume(e)
  <2>1. CASE IsExpected(res[s])
    <3>1. res'[s] = res[s]
      BY <1>3 DEF Resume
    <3>2. QED
      BY <2>1, <3>1 DEF Told, Fails, IsExpected
  <2>2. CASE ~IsExpected(res[s])
    BY <2>2, <1>0, <1>3, <1>c DEF Resume
  <2>3. QED  BY <2>1, <2>2
<1>4. CASE Failed(e)
  <2>1. CASE Return(e, Plainly("update"))
    BY <2>1, <1>b
  <2>2. CASE ~Return(e, Plainly("update"))
    BY <2>2, <1>0, <1>4, <1>c DEF Failed, Goto
  <2>3. QED  BY <2>1, <2>2
<1>5. CASE Confirm(e)
  BY <1>0, <1>5, <1>c DEF Confirm, Goto
<1>6. CASE Record(e)
  <2>1. CASE Goto(e, "completing") /\ at' = at
    BY <2>1, <1>0, <1>c DEF Goto
  <2>2. CASE Return(e, Wrap(Plainly("update")))
    <3>1. ~IsError(res[s])
      BY <1>6, RunParts DEF Record, SuccessInv, InSuccess
    <3>2. /\ res'[e] = Wrap(Plainly("update")) /\ res'[s] = res[s]
          /\ at' = at /\ pc'[e] = "returned"
      BY <2>2, <1>0 DEF Return
    <3>3. ~Fails(s)' /\ Wrap(Plainly("update")) # Plainly("nil")
      BY <3>1, <3>2 DEF Fails, Wrap, Plainly
    <3>4. QED
      BY <3>2, <3>3 DEF Leaves
  <2>3. QED
    BY <1>6, <2>1, <2>2 DEF Record
<1>7. CASE Callback(e) \/ Complete(e)
  BY <1>0, <1>7 DEF Callback, Complete, Panic, Advance, Return
<1>8. QED
  BY <1>1c, <1>2, <1>3, <1>4, <1>5, <1>6, <1>7 DEF EngineStep

LEMMA NewlyLeft ==
  ASSUME RunInv, OneStateEach, UNCHANGED flow, NEW n \in Node, NodeStep(n),
         NEW e \in Node, NEW i \in Positions(e), NEW s \in Step, s = flow[e].steps[i],
         Left(e, i)', Told(s)'
  PROVE  /\ Told(s)
         /\ \/ Left(e, i) /\ pc[s] = "idle" /\ ~(n = e /\ i = at[e])
            \/ n = e /\ i = at[e] /\ pc[e] \in {"callback", "completing"}
<1>0. OutcomeInv /\ SeparateStates
  BY AllSeparate DEF RunInv
<1>k. ASSUME res'[s] = res[s] PROVE Told(s)
  BY <1>k, FlowKeepsTracked DEF Told, Fails, Has
<1>1. CASE ~(n = e /\ i = at[e])
  <2>1. Left(e, i) /\ pc[s] = "idle"
    BY <1>0, <1>1, StillLeft
  <2>2. res'[s] = res[s]
    BY <1>0, <1>1, <2>1, Untouched
  <2>3. QED
    BY <1>1, <1>k, <2>1, <2>2
<1>2. CASE n = e /\ i = at[e] /\ EngineStep(e)
  <2>1. s = Current(e)
    BY <1>2 DEF Current
  <2>2. Leaves(e, s)
    <3>1. CASE at'[e] # at[e]
      BY <3>1 DEF Leaves
    <3>2. CASE at'[e] = at[e]
      <4>1. ~(i < at'[e])
        BY <3>2, <1>2, RunParts
      <4>2. QED
        BY <4>1 DEF Left, Leaves
    <3>3. QED  BY <3>1, <3>2
  <2>3. QED
    BY <1>2, <1>k, <2>1, <2>2, LeavesTold
<1>3. CASE n = e /\ i = at[e] /\ n \in Step /\ StepStep(n)
  BY <1>0, <1>3, BodyLeavesNothing
<1>4. QED
  BY <1>1, <1>2, <1>3 DEF NodeStep

(* How an engine comes to where it leaves such a step: the server has just  *)
(* accepted what it persisted, or it is there already.                      *)
LEMMA AboutToLeave ==
  ASSUME RunInv, current \in BOOLEAN, UNCHANGED flow, NEW e \in Node, RunStep(e), EngineStep(e),
         at[e] \in Positions(e), NEW s \in Step, s = Current(e),
         pc'[e] \in {"callback", "completing"}, Told(s)'
  PROVE  /\ at'[e] = at[e]
         /\ \/ Writes(e) /\ Accepted(e)
            \/ Told(s) /\ pc'[e] = pc[e] /\ UNCHANGED <<stored, server>>
<1>0. /\ s \in Node /\ s # e /\ (Tracked(s)' <=> Tracked(s)) /\ (Has(s, "skipCheck")' <=> Has(s, "skipCheck"))
      /\ pc \in [Node -> PCs] /\ at \in [Node -> Nat \ {0}] /\ res \in [Node -> Result]
      /\ Tracked(s)
  BY RunParts, CurrentIsNested, FlowKeepsTracked DEF Has, Told
<1>1. CASE pc[e] \in {"failing", "recording"}
  <2>1. Persists(e)
    BY <1>0, <1>1 DEF Persists
  <2>2. pc'[e] # "returned"
    OBVIOUS
  <2>3. at'[e] = at[e]
    BY <1>0, <1>1 DEF EngineStep, EngineDone, Consider, Predicates, Throttle, Launch, Resume,
                      Failed, Callback, Confirm, Record, Complete, Return
  <2>4. Accepted(e)
    BY <2>1, <2>2 DEF RunStep, Update, Accepted
  <2>5. Writes(e)
    BY <1>0, <1>1, <2>1, <2>4 DEF Writes, RunStep, Update, Write
  <2>6. QED
    BY <2>3, <2>4, <2>5
<1>2. CASE Confirm(e)
  <2>1. PICK seen \in Reading(s) :
               Goto(e, IF seen \in {"succeeded", "untracked"} THEN "completing" ELSE "recording")
    BY <1>2 DEF Confirm
  <2>2. seen = stored[StateOf(s)] /\ seen # "untracked"
    BY <1>0, <2>1, RunParts, KeeperAssumption DEF Reading, Statuses
  <2>3. stored[StateOf(s)] = "succeeded"
    BY <1>0, <1>2, <2>1, <2>2 DEF Goto
  <2>4. Has(s, "skipCheck")
    BY <1>0, <1>2, <2>3 DEF RunInv, LifecycleInv, StaysOpen, LifecyclePCs, Confirm
  <2>5. Fails(s)'
    BY <1>0, <2>4 DEF Told
  <2>6. Fails(s)
    BY <1>2, <2>5 DEF Confirm, Fails
  <2>7. QED
    BY <1>2, <2>6, RunParts DEF Fails, Confirm, SuccessInv, InSuccess
<1>3. CASE Complete(e)
  <2>1. Panic /\ pc[e] = "completing"
    BY <1>0, <1>3 DEF Complete, Advance, Return
  <2>2. UNCHANGED <<stored, server>>
    BY <2>1 DEF Panic, RunStep, Persists
  <2>3. QED
    BY <1>0, <2>1, <2>2 DEF Panic, Told, Fails
<1>4. CASE pc[e] \notin {"failing", "recording"} /\ ~Confirm(e) /\ ~Complete(e)
  BY <1>0, <1>4 DEF EngineStep, EngineDone, Consider, Predicates, Throttle, Launch, Resume, Failed,
                    Callback, Record, Panic, Skip, Advance, Goto, Return, Call
<1>5. QED
  BY <1>1, <1>2, <1>3, <1>4

--------------------------------------------------------------------------------
(* The invariant is kept.                                                   *)

(* A step that has its own state keeps what is said of it when another is   *)
(* written.                                                                 *)
LEMMA OthersSettled ==
  ASSUME RunInv, OneStateEach, NEW n \in Node, Writes(n), UNCHANGED <<flow, server>>,
         NEW s \in Step, s # Current(n), Tracked(s), Settled(s)
  PROVE  Settled(s)'
<1>1. StateOf(s) # StateOf(Current(n)) /\ StateOf(s) \in StateName
  BY RunParts DEF Writes, OneStateEach
<1>2. stored'[StateOf(s)] = stored[StateOf(s)]
  BY <1>1, RunParts DEF Writes
<1>3. QED
  BY <1>2, FlowKeepsTracked DEF Settled

LEMMA RunStepOnServer ==
  ASSUME ServerInv, OneStateEach, UNCHANGED flow, NEW n \in Node, RunStep(n), NEW e \in Node
  PROVE  OnServer(e)'
<1>0. /\ RunInv /\ NodeStep(n) /\ current \in BOOLEAN
      /\ \A x : Positions(x)' = Positions(x)
      /\ \A s : (Tracked(s)' <=> Tracked(s)) /\ StateOf(s)' = StateOf(s)
  BY FlowKeepsTracked, ServerTypes DEF RunStep
<1>1. CASE server' = stored'
  BY <1>0, <1>1 DEF OnServer, Settled
<1>2. CASE server' # stored'
  <2>1. \/ UNCHANGED <<stored, server>>
        \/ Writes(n) /\ UNCHANGED server /\ pc'[n] = "returned"
    BY <1>0, <1>2, WhatIsWritten DEF Writes, Accepted, Refused
  <2>2. ASSUME NEW s \in Step, Told(s), Settled(s), Writes(n) => s # Current(n)
        PROVE  Settled(s)'
    BY <1>0, <2>1, <2>2, OthersSettled DEF Settled, Told
  <2>3. ASSUME NEW i \in Positions(e), NEW s \in Step, s = flow[e].steps[i], Left(e, i)', Told(s)'
        PROVE  Settled(s)'
    <3>1. /\ Told(s)
          /\ \/ Left(e, i) /\ pc[s] = "idle" /\ ~(n = e /\ i = at[e])
             \/ n = e /\ i = at[e] /\ pc[e] \in {"callback", "completing"}
      BY <1>0, <2>3, NewlyLeft
    <3>2. Settled(s)
      BY <2>3, <3>1 DEF ServerInv, OnServer, Current
    <3>3. Writes(n) => s # Current(n)
      <4>1. SUFFICES ASSUME Writes(n), s = Current(n) PROVE FALSE
        OBVIOUS
      <4>2. at[n] \in Positions(n) /\ flow[n].steps[at[n]] = flow[e].steps[i]
        BY <2>3, <4>1 DEF Writes, Current
      <4>3. n = e /\ at[n] = i
        BY <1>0, <4>2, RunParts, OnePosition
      <4>4. QED
        BY <3>1, <4>1, <4>3 DEF Writes
    <3>4. QED
      BY <2>2, <3>1, <3>2, <3>3
  <2>4. ASSUME pc'[e] \in {"callback", "completing"}, NEW s, s = Current(e)', Told(s)'
        PROVE  Settled(s)'
    <3>1. CASE e = n
      <4>1. EngineStep(e)
        BY <1>0, <2>4, <3>1, RunParts, BodyCounters, EntryIsLabel DEF NodeStep
      <4>2. at[e] \in Positions(e)
        <5>1. pc[e] # "next"
          BY <1>0, <2>4, <4>1, RunParts DEF EngineStep, EngineDone, Consider, Predicates, Throttle, Launch,
               Resume, Failed, Callback, Confirm, Record, Complete, Panic, Skip, Advance, Goto,
               Return
        <5>2. QED
          BY <1>0, <4>1, <5>1, RunParts, EngineCounters DEF TypeInv
      <4>3. PICK t \in Step : t = Current(e)
        BY <1>0, <4>2, RunParts, CurrentIsNested
      <4>4. at'[e] = at[e] /\ s = t
        <5>1. pc'[e] # "next" /\ pc'[e] # "returned"
          BY <2>4
        <5>2. at'[e] = at[e]
          BY <1>0, <4>1, <5>1, RunParts
             DEF EngineStep, EngineDone, Consider, Predicates, Throttle, Launch, Resume, Failed,
                 Callback, Confirm, Record, Complete, Panic, Skip, Advance, Goto, Return, Call
        <5>3. QED
          BY <2>4, <4>3, <5>2 DEF Current
      <4>5. \/ Writes(e) /\ Accepted(e)
            \/ Told(t) /\ pc'[e] = pc[e] /\ UNCHANGED <<stored, server>>
        BY <1>0, <2>4, <3>1, <4>1, <4>2, <4>3, <4>4, AboutToLeave
      <4>6. Told(t) /\ pc'[e] = pc[e] /\ UNCHANGED <<stored, server>>
        BY <1>2, <4>5 DEF Accepted
      <4>7. Settled(t)
        BY <2>4, <4>3, <4>6 DEF ServerInv, OnServer
      <4>8. QED
        BY <1>0, <4>4, <4>6, <4>7 DEF Settled
    <3>2. CASE e # n
      <4>1. at'[e] = at[e] /\ at[e] \in Positions(e) /\ pc'[e] = pc[e]
        <5>1. at'[e] = at[e] /\ at[e] \in Positions(e)
          BY <1>0, <2>4, <3>2, AllSeparate, StillDealt DEF RunInv
        <5>2. pc'[e] = pc[e]
          BY <1>0, <2>4, <3>2, RunParts, EngineCounters, BodyCounters, EntryIsLabel DEF NodeStep
        <5>3. QED  BY <5>1, <5>2
      <4>2. PICK t \in Step : t = Current(e) /\ t = flow[e].steps[at[e]]
        BY <4>1, RunParts, <1>0, CurrentIsNested DEF Current
      <4>3. s = t
        BY <2>4, <4>1, <4>2 DEF Current
      <4>4. pc[t] = "idle"
        BY <1>0, <2>4, <4>1, <4>2, RunParts, QuietIsIdle
      <4>5. res'[t] = res[t]
        BY <1>0, <3>2, <4>1, <4>2, <4>4, AllSeparate, Untouched DEF RunInv
      <4>6. Told(t)
        BY <1>0, <2>4, <4>3, <4>5 DEF Told, Fails, Has
      <4>7. Settled(t)
        BY <2>4, <4>1, <4>2, <4>6 DEF ServerInv, OnServer
      <4>8. Writes(n) => t # Current(n)
        BY <1>0, <3>2, <4>1, <4>2, RunParts, OnePosition DEF Writes, Current
      <4>9. QED
        BY <2>2, <4>3, <4>6, <4>7, <4>8
    <3>3. QED  BY <3>1, <3>2
  <2>5. ASSUME NEW i \in Positions(e), Left(e, i)', Told(flow[e].steps[i])'
        PROVE  Settled(flow[e].steps[i])'
    <3>1. PICK s \in Step : s = flow[e].steps[i]
      BY <1>0, RunParts, FlowIsWellFormed DEF Positions
    <3>2. Told(s)' /\ (flow[e].steps[i])' = s
      BY <2>5, <3>1
    <3>3. QED
      BY <2>3, <2>5, <3>1, <3>2
  <2>6. QED
    BY <1>0, <2>4, <2>5 DEF OnServer
<1>3. QED  BY <1>1, <1>2

LEMMA SuccessesKnownStep ==
  ASSUME ServerInv, OneStateEach, UNCHANGED flow, NEW n \in Node, RunStep(n)
  PROVE  /\ SuccessesKnown'
         /\ \A s \in Step : Lasting(s) /\ server[StateOf(s)] = "succeeded" =>
                              server'[StateOf(s)] = "succeeded"
<1>0. /\ RunInv /\ NodeStep(n) /\ pc[Root] # "idle" /\ current \in BOOLEAN
      /\ \A s : (Lasting(s)' <=> Lasting(s)) /\ StateOf(s)' = StateOf(s)
  BY FlowKeepsTracked, ServerTypes, AtWork DEF RunStep
<1>1. ASSUME Writes(n), current, NEW s \in Step, Lasting(s), server[StateOf(s)] = "succeeded"
      PROVE  stored'[StateOf(s)] = "succeeded"
  <2>1. stored[StateOf(s)] = "succeeded" /\ StateOf(s) \in StateName /\ Tracked(s)
    BY <1>0, <1>1, RunParts DEF ServerInv, SuccessesKnown, Lasting
  <2>2. CASE StateOf(s) # StateOf(Current(n))
    BY <1>0, <1>1, <2>1, <2>2, RunParts DEF Writes
  <2>3. CASE s = Current(n)
    <3>1. pc[n] \in LifecyclePCs
      BY <1>1 DEF Writes, LifecyclePCs
    <3>2. QED
      BY <1>0, <1>1, <2>1, <2>3, <3>1 DEF RunInv, LifecycleInv, StaysOpen, Lasting
  <2>4. QED
    BY <1>1, <2>1, <2>2, <2>3 DEF Writes, OneStateEach
<1>2. CASE UNCHANGED <<stored, server, current, fresh>>
  BY <1>0, <1>2 DEF ServerInv, SuccessesKnown
<1>3. CASE Writes(n) /\ Accepted(n)
  <2>1. SuccessesKnown'
    BY <1>3 DEF SuccessesKnown, Accepted
  <2>2. QED
    BY <1>1, <1>3, <2>1 DEF Accepted
<1>4. CASE Writes(n) /\ Refused(n)
  BY <1>0, <1>1, <1>4 DEF SuccessesKnown, Refused
<1>5. QED
  BY <1>0, <1>2, <1>3, <1>4, WhatIsWritten DEF Writes

LEMMA RunStepKeepsServer ==
  ASSUME ServerInv, OneStateEach, UNCHANGED flow, NEW n \in Node, RunStep(n), RunInv'
  PROVE  ServerInv'
<1>0. /\ RunInv /\ NodeStep(n) /\ pc[Root] # "idle" /\ current \in BOOLEAN /\ UNCHANGED cached
      /\ UNCHANGED <<stored, server, current, fresh>> \/ Writes(n)
  BY FlowKeepsTracked, ServerTypes, AtWork, WhatIsWritten DEF RunStep
<1>1. stored' \in [StateName -> Statuses \ {"running"}]
  <2>1. CASE stored' = stored
    BY <2>1, ServerTypes
  <2>2. CASE Writes(n)
    BY <1>0, <2>2, RunParts, ServerTypes DEF Writes, Status, Statuses
  <2>3. QED
    BY <1>0, <2>1, <2>2
<1>2. disturbances' \in 0..MaxDisturbances
  BY ServerTypes, DisturbanceAssumption DEF RunStep, Update, Disturb
<1>3. K8sTypeOK'
  <2>1. TypeOK'
    BY DEF RunInv, OutcomeInv, EngineInv
  <2>2. /\ server' \in [StateName -> Statuses \ {"running"}]
        /\ current' \in BOOLEAN /\ fresh' \in BOOLEAN
    BY <1>0, <1>1, ServerTypes DEF Writes, Accepted, Refused
  <2>3. cached' \in [StateName -> Statuses \ {"running"}]
    BY <1>0, ServerTypes
  <2>4. QED
    BY <1>2, <2>1, <2>2, <2>3 DEF K8sTypeOK
<1>4. fresh' => cached' = server'
  BY <1>0, ServerTypes DEF Writes, Accepted, Refused
<1>5. ASSUME current', stored' # server' PROVE \E e \in Node : res'[e].base = "update"
  <2>1. CASE Writes(n)
    BY <1>5, <2>1 DEF Writes, Accepted, Refused
  <2>2. CASE UNCHANGED <<stored, server, current, fresh>>
    <3>1. PICK e \in Node : res[e].base = "update"
      BY <1>0, <1>5, <2>2 DEF ServerInv, K8sInv
    <3>2. res'[e] = res[e]
      BY <1>0, <3>1, AnswersStand, Verdicts
    <3>3. QED
      BY <3>1, <3>2
  <2>3. QED
    BY <1>0, <2>1, <2>2
<1>6. \A x \in StateName : stored'[x] # "running"
  BY <1>1
<1>7. QED
  BY <1>3, <1>4, <1>5, <1>6, SuccessesKnownStep, RunStepOnServer DEF ServerInv, K8sInv

(* Where no engine has begun, no step has been left.                        *)
Beginning == \A n \in Node : at[n] = 1 /\ pc[n] \in {"idle", "next"}

LEMMA NothingLeft == Beginning => \A e \in Node : OnServer(e)
BY DEF Beginning, OnServer, Left, Positions

(* The steps of the others.                                                 *)
LEMMA OtherStepKeepsServer ==
  ASSUME ServerInv, OneStateEach, UNCHANGED flow, RunInv',
         \/ Reconcile
         \/ Respond /\ UNCHANGED k8sVars
         \/ \E k \in Key : TimePasses(k)
         \/ Sync
         \/ ForeignUpdate
         \/ Crash /\ Disturb /\ UNCHANGED <<server, current, cached, fresh>>
         \/ UNCHANGED allVars
  PROVE  ServerInv'
<1>0. /\ RunInv /\ TypeOK'
      /\ Beginning' => \A e \in Node : OnServer(e)'
  <2>1. TypeOK' /\ RunInv
    BY DEF RunInv, OutcomeInv, EngineInv, ServerInv
  <2>2. (Beginning => \A e \in Node : OnServer(e))'
    BY NothingLeft, PTL
  <2>3. QED
    BY <2>1, <2>2
<1>1. /\ server' \in [StateName -> Statuses \ {"running"}]
      /\ cached' \in [StateName -> Statuses \ {"running"}]
      /\ current' \in BOOLEAN /\ fresh' \in BOOLEAN
      /\ stored' \in [StateName -> Statuses \ {"running"}]
      /\ disturbances' \in 0..MaxDisturbances
      /\ fresh' => cached' = server'
      /\ server' = server
  <2>0. /\ server \in [StateName -> Statuses \ {"running"}]
        /\ cached \in [StateName -> Statuses \ {"running"}]
        /\ stored \in [StateName -> Statuses \ {"running"}]
        /\ current \in BOOLEAN /\ fresh \in BOOLEAN
        /\ disturbances \in 0..MaxDisturbances
        /\ fresh => cached = server
    BY ServerTypes
  <2>1. CASE Reconcile
    BY <2>0, <2>1 DEF Reconcile
  <2>2. CASE UNCHANGED stored /\ UNCHANGED k8sVars
    BY <2>0, <2>2 DEF k8sVars
  <2>3. CASE Sync
    BY <2>0, <2>3 DEF Sync
  <2>4. CASE ForeignUpdate
    <3>1. disturbances' \in 0..MaxDisturbances
      BY <2>0, <2>4, DisturbanceAssumption DEF ForeignUpdate, Disturb
    <3>2. UNCHANGED <<stored, server, cached>> /\ current' = FALSE /\ fresh' = FALSE
      BY <2>4 DEF ForeignUpdate
    <3>3. QED
      BY <2>0, <3>1, <3>2
  <2>5. CASE Crash /\ Disturb /\ UNCHANGED <<server, current, cached, fresh>>
    <3>1. stored' = stored
      BY <2>5 DEF Crash
    <3>2. QED
      BY <2>0, <2>5, <3>1, DisturbanceAssumption DEF Disturb
  <2>6. Respond \/ (\E k \in Key : TimePasses(k)) \/ UNCHANGED allVars => UNCHANGED stored
    BY DEF Respond, TimePasses, Lapse, allVars, vars
  <2>7. (\E k \in Key : TimePasses(k)) \/ UNCHANGED allVars => UNCHANGED k8sVars
    BY DEF TimePasses, allVars
  <2>8. QED
    BY <2>1, <2>2, <2>3, <2>4, <2>5, <2>6, <2>7
<1>2. K8sTypeOK' /\ \A x \in StateName : stored'[x] # "running"
  BY <1>0, <1>1 DEF K8sTypeOK
<1>3. CASE Reconcile
  <2>1. current' => stored' = server'
    BY <1>3, ServerTypes DEF Reconcile
  <2>2. \A n \in Node : at'[n] = 1 /\ pc'[n] \in {"idle", "next"}
    BY <1>0, <1>3, RunParts DEF Reconcile, Goto, RunInv, Untried
  <2>3. QED
    BY <1>0, <1>1, <1>2, <2>1, <2>2 DEF Beginning, ServerInv, K8sInv, SuccessesKnown
<1>4. CASE Respond \/ Crash
  <2>1. pc'[Root] = "idle" /\ \A n \in Node : at'[n] = 1 /\ pc'[n] \in {"idle", "next"}
    <3>1. pc'[Root] = "idle"
      BY <1>0, <1>4, RunParts DEF Respond, Goto, Crash
    <3>2. QED
      BY <3>1 DEF RunInv, Untried
  <2>2. QED
    BY <1>0, <1>1, <1>2, <2>1 DEF Beginning, ServerInv, K8sInv, SuccessesKnown
<1>5. CASE /\ UNCHANGED <<pc, at, res, stored, server>>
           /\ current' \in {current, FALSE}
  <2>1. \A s : /\ Tracked(s)' <=> Tracked(s)
               /\ StateOf(s)' = StateOf(s)
               /\ Lasting(s)' <=> Lasting(s)
    BY FlowKeepsTracked
  <2>2. SuccessesKnown'
    BY <1>5, <2>1 DEF ServerInv, SuccessesKnown
  <2>3. ASSUME NEW e \in Node PROVE OnServer(e)'
    <3>1. OnServer(e)
      BY DEF ServerInv
    <3>2. UNCHANGED <<flow, pc, at, res, stored, server>>
      BY <1>5
    <3>3. QED
      BY <3>1, <3>2, FlowKeepsTracked
         DEF OnServer, Left, Told, Settled, Fails, Current, Kind, Has
  <2>4. current' /\ pc'[Root] # "idle" /\ stored' # server' => \E e \in Node : res'[e].base = "update"
    BY <1>5, ServerTypes DEF ServerInv, K8sInv
  <2>5. QED
    BY <1>1, <1>2, <2>2, <2>3, <2>4 DEF ServerInv, K8sInv
<1>6. QED
  BY <1>3, <1>4, <1>5
     DEF TimePasses, Lapse, Sync, ForeignUpdate, k8sVars, allVars, vars

LEMMA RunInvNext ==
  ASSUME ServerInv, OneStateEach, [K8sNext]_allVars
  PROVE  RunInv' /\ UNCHANGED flow
<1>0. UNCHANGED flow /\ RunInv
  BY DEF K8sNext, allVars, vars, ServerInv
<1>1. CASE Reconcile
  BY <1>0, <1>1, ServerTypes, ReconcileStarts
<1>2. CASE ~Reconcile
  <2>1. [Next]_vars
    BY <1>2 DEF K8sNext, RunStep, TimePasses, Sync, ForeignUpdate, Next, allVars, vars
  <2>2. QED
    BY <1>0, <2>1, RunNext
<1>3. QED  BY <1>1, <1>2

LEMMA ServerNext ==
  ASSUME ServerInv, OneStateEach, [K8sNext]_allVars
  PROVE  ServerInv'
<1>0. RunInv' /\ UNCHANGED flow
  BY RunInvNext
<1>1. CASE \E n \in Node : RunStep(n)
  BY <1>0, <1>1, RunStepKeepsServer
<1>2. CASE ~ \E n \in Node : RunStep(n)
  BY <1>0, <1>2, OtherStepKeepsServer DEF K8sNext
<1>3. QED  BY <1>1, <1>2

LEMMA ServerInit == K8sInit => ServerInv
<1> SUFFICES ASSUME K8sInit PROVE ServerInv
  OBVIOUS
<1>1. RunInv
  BY RunInit
<1>2. stored \in [StateName -> Statuses \ {"running"}] /\ \A x \in StateName : stored[x] = "pending"
  BY DEF K8sInit, Init, Statuses
<1>3. TypeOK
  BY <1>1 DEF RunInv, OutcomeInv, EngineInv
<1>4. K8sInv
  <2>1. 0 \in 0..MaxDisturbances
    BY DisturbanceAssumption
  <2>2. /\ server = stored /\ cached = stored
        /\ current = FALSE /\ fresh = TRUE /\ disturbances = 0
    BY DEF K8sInit
  <2>3. K8sTypeOK
    BY <1>2, <1>3, <2>1, <2>2 DEF K8sTypeOK
  <2>4. QED
    BY <2>2, <2>3 DEF K8sInv
<1>5. \A e \in Node : OnServer(e)
  BY NothingLeft DEF Beginning, K8sInit, Init
<1>6. QED
  BY <1>1, <1>2, <1>4, <1>5 DEF ServerInv, SuccessesKnown, K8sInit

--------------------------------------------------------------------------------
(* What the closures return.  holds is a solution of its equation, which    *)
(* has one because a closure is built of closures that were there before.   *)

(* f answers for the closures of D, among which are all that they call.     *)
Solves(D, f, true) ==
  /\ D \subseteq PredicateFunc
  /\ \A p \in D : Parts(p) \subseteq D
  /\ f = [p \in D |-> Returns(p, f, true)]

(* A closure returns what those it calls make it return.                    *)
LEMMA PartsDecide ==
  ASSUME NEW p \in PredicateFunc, NEW f, NEW g, NEW true, \A q \in Parts(p) : f[q] = g[q]
  PROVE  Returns(p, f, true) = Returns(p, g, true)
<1>1. CASE Built[p].by \in {"Or", "And"}
  <2>1. \A i \in DOMAIN Built[p].of : f[Built[p].of[i]] = g[Built[p].of[i]]
    BY <1>1 DEF Parts
  <2>2. QED
    BY <1>1, <2>1 DEF Returns
<1>2. CASE Built[p].by = "IsNotFunc"
  <2>1. f[Built[p].of[1]] = g[Built[p].of[1]]
    BY <1>2, BuiltAssumption DEF Parts
  <2>2. QED
    BY <1>2, <2>1 DEF Returns
<1>3. CASE Built[p].by \notin {"Or", "And", "IsNotFunc"}
  BY <1>3 DEF Returns
<1>4. QED  BY <1>1, <1>2, <1>3

(* Whatever does so on two sets of closures is the same where they meet:    *)
(* else there were a first closure for which it is not.                     *)
LEMMA SolutionsAgree ==
  ASSUME NEW true, NEW D, NEW E, NEW f, NEW g, Solves(D, f, true), Solves(E, g, true)
  PROVE  \A p \in D \cap E : f[p] = g[p]
<1> DEFINE Differ == {p \in D \cap E : f[p] # g[p]}
<1>1. SUFFICES ASSUME Differ # {} PROVE FALSE
  OBVIOUS
<1>2. PICK p \in Differ : Parts(p) \cap Differ = {}
  BY <1>1, BuiltAssumption DEF Solves
<1>3. p \in PredicateFunc /\ p \in D /\ p \in E /\ f[p] # g[p]
  BY <1>2 DEF Solves
<1>4. \A q \in Parts(p) : f[q] = g[q]
  BY <1>2, <1>3 DEF Solves
<1>5. f[p] = Returns(p, f, true) /\ g[p] = Returns(p, g, true)
  <2>1. f = [q \in D |-> Returns(q, f, true)] /\ g = [q \in E |-> Returns(q, g, true)]
    BY DEF Solves
  <2>2. QED
    BY <1>3, <2>1
<1>6. QED
  BY <1>3, <1>4, <1>5, PartsDecide

(* So there is one for all the closures, as that for any lesser set that    *)
(* holds the parts of its members goes on to one more.                      *)
LEMMA HoldsUnfold ==
  ASSUME NEW true
  PROVE  \A p \in PredicateFunc : HoldsGiven(true)[p] = Returns(p, HoldsGiven(true), true)
<1> DEFINE Solved == {p \in PredicateFunc : \E D, f : Solves(D, f, true) /\ p \in D}
           g == [p \in Solved |-> CHOOSE b : \E D, f : Solves(D, f, true) /\ p \in D /\ b = f[p]]
<1>1. ASSUME NEW D, NEW f, Solves(D, f, true), NEW p \in D
      PROVE  p \in Solved /\ g[p] = f[p] /\ Parts(p) \subseteq Solved
  <2>1. D \subseteq Solved
    BY <1>1 DEF Solves
  <2>2. \E b : \E E, h : Solves(E, h, true) /\ p \in E /\ b = h[p]
    BY <1>1
  <2>3. PICK E, h : Solves(E, h, true) /\ p \in E /\ g[p] = h[p]
    BY <1>1, <2>1, <2>2
  <2>4. f[p] = h[p]
    BY <1>1, <2>3, SolutionsAgree
  <2>5. QED
    BY <1>1, <2>1, <2>3, <2>4 DEF Solves
<1>2. /\ \A p \in Solved : p \in PredicateFunc /\ \E D, f : Solves(D, f, true) /\ p \in D
      /\ g = [p \in Solved |-> g[p]]
  OBVIOUS
<1> HIDE DEF Solved, g
<1>3. Solves(Solved, g, true)
  <2>1. ASSUME NEW p \in Solved PROVE g[p] = Returns(p, g, true) /\ Parts(p) \subseteq Solved
    <3>1. PICK D, f : Solves(D, f, true) /\ p \in D
      BY <1>2
    <3>2. \A q \in D : g[q] = f[q]
      BY <1>1, <3>1
    <3>3. f = [q \in D |-> Returns(q, f, true)] /\ Parts(p) \subseteq D /\ p \in PredicateFunc
      BY <3>1 DEF Solves
    <3>4. Returns(p, f, true) = Returns(p, g, true)
      BY <3>2, <3>3, PartsDecide
    <3>5. f[p] = Returns(p, f, true)
      BY <3>1, <3>3
    <3>6. QED
      BY <1>1, <3>1, <3>2, <3>4, <3>5
  <2>2. g = [p \in Solved |-> Returns(p, g, true)]
    BY <2>1, <1>2
  <2>3. QED
    BY <1>2, <2>1, <2>2 DEF Solves
<1>4. Solved = PredicateFunc
  <2>1. SUFFICES ASSUME PredicateFunc \ Solved # {} PROVE FALSE
    BY <1>2
  <2>2. PICK p \in PredicateFunc \ Solved : Parts(p) \cap (PredicateFunc \ Solved) = {}
    BY <2>1, BuiltAssumption
  <2>3. Parts(p) \subseteq Solved
    BY <2>2, BuiltAssumption
  <2> DEFINE D == Solved \cup {p}
             f == [q \in D |-> Returns(q, g, true)]
  <2>4. \A q \in Solved : f[q] = g[q]
    <3>1. g = [q \in Solved |-> Returns(q, g, true)]
      BY <1>3 DEF Solves
    <3>2. QED
      BY <3>1
  <2>5. ASSUME NEW q \in D PROVE Parts(q) \subseteq Solved
    BY <1>3, <2>3 DEF Solves
  <2>0. \A q \in D : q \in PredicateFunc
    BY <1>2, <2>2
  <2> HIDE DEF f
  <2>6. ASSUME NEW q \in D PROVE Returns(q, g, true) = Returns(q, f, true)
    <3>1. \A r \in Parts(q) : g[r] = f[r]
      BY <2>4, <2>5
    <3>2. QED
      BY <3>1, <2>0, PartsDecide
  <2>7. f = [q \in D |-> Returns(q, f, true)]
    BY <2>6 DEF f
  <2>8. Solves(D, f, true)
    BY <2>0, <2>5, <2>7 DEF Solves
  <2>9. p \in Solved
    BY <1>1, <2>8
  <2>10. QED
    BY <2>2, <2>9
<1>5. \E holds : holds = [p \in PredicateFunc |-> Returns(p, holds, true)]
  BY <1>3, <1>4 DEF Solves
<1>6. HoldsGiven(true) = [p \in PredicateFunc |-> Returns(p, HoldsGiven(true), true)]
  BY <1>5 DEF HoldsGiven
<1>7. QED
  BY <1>6

(* The one fact about a call that the engine's guards need.                 *)
LEMMA TrueConditionHolds ==
  ASSUME NEW true, NEW p \in PredicateFunc, Built[p].by = "IsTrueCondition", HoldsGiven(true)[p]
  PROVE  Built[p].condition \in true
BY HoldsUnfold DEF Returns

--------------------------------------------------------------------------------
(* The guards.                                                              *)

(* The engine asks whether x is true before it runs s.                      *)
Asks(s, x) ==
  /\ s \in Step /\ Tracked(s) /\ Has(s, "predicate")
  /\ \E i \in DOMAIN Guards[s] : LET guard == Built[Guards[s][i]]
                                 IN guard.by = "IsTrueCondition" /\ guard.condition = x

(* What the guards ask for is a state that no step which runs again and     *)
(* again has: the success of such a step may be followed by its failure.    *)
LastingGuards ==
  \A s \in Step : \A i \in DOMAIN Guards[s] :
    LET guard == Built[Guards[s][i]]
    IN guard.by = "IsTrueCondition" =>
         /\ guard.condition \in StateName
         /\ \A t \in Step : Tracked(t) /\ StateOf(t) = guard.condition => ~Has(t, "skipCheck")

Guarded(f) ==
  \A s \in Step, x \in StateName : Asks(s, x) /\ f[StateOf(s)] = "succeeded" => f[x] = "succeeded"

GuardedPCs == LifecyclePCs \ {"predicates"}

(* An engine is past the predicates of a step.                              *)
GuardSeen(e) ==
  \A x \in StateName :
    pc[e] \in GuardedPCs /\ Asks(Current(e), x) => stored[x] = "succeeded"

GuardInv ==
  /\ Guarded(stored) /\ Guarded(cached) /\ Guarded(server)
  /\ \A e \in Node : GuardSeen(e)

LEMMA AskedLasts ==
  ASSUME LastingGuards, NEW s, NEW x, Asks(s, x)
  PROVE  /\ x \in StateName
         /\ \A t \in Step : Tracked(t) /\ StateOf(t) = x => Lasting(t)
BY DEF LastingGuards, Asks, Lasting

LEMMA FlowKeepsAsks ==
  ASSUME UNCHANGED flow
  PROVE  /\ \A s, x : Asks(s, x)' <=> Asks(s, x)
         /\ LastingGuards' <=> LastingGuards
BY FlowKeepsTracked DEF Asks, LastingGuards, Has

(* A condition that has been true in this run stays so.                     *)
LEMMA ConditionsLast ==
  ASSUME RunInv, LastingGuards, NEW n \in Node,
         UNCHANGED stored \/ Writes(n),
         NEW s, NEW x, Asks(s, x), stored[x] = "succeeded"
  PROVE  stored'[x] = "succeeded"
<1>1. ASSUME Writes(n), StateOf(Current(n)) = x PROVE FALSE
  <2>1. Lasting(Current(n))
    BY <1>1, AskedLasts DEF Writes
  <2>2. pc[n] \in LifecyclePCs
    BY <1>1 DEF Writes, LifecyclePCs
  <2>3. QED
    BY <1>1, <2>1, <2>2 DEF RunInv, LifecycleInv, StaysOpen, Lasting
<1>2. CASE Writes(n)
  BY <1>1, <1>2, AskedLasts, RunParts DEF Writes
<1>3. QED  BY <1>2

(* Past the predicates the engine gets by calling them.                     *)
LEMMA PastPredicates ==
  ASSUME RunInv, NEW e \in Node, EngineStep(e), pc'[e] \in GuardedPCs
  PROVE  \/ pc[e] \in GuardedPCs
         \/ pc[e] = "predicates" /\ pc'[e] = "throttle" /\ UNCHANGED <<at, stored>>
<1>0. pc \in [Node -> PCs]
  BY RunParts
<1>1. CASE Predicates(e)
  BY <1>0, <1>1 DEF Predicates, Goto, Return, Skip, Advance, GuardedPCs, LifecyclePCs
<1>2. CASE EngineDone(e) \/ Consider(e) \/ Callback(e) \/ Complete(e)
  BY <1>0, <1>2 DEF EngineDone, Consider, Callback, Complete, Panic, Goto, Return, Skip, Advance,
                    GuardedPCs, LifecyclePCs
<1>3. QED
  BY <1>1, <1>2 DEF EngineStep, Throttle, Launch, Resume, Failed, Confirm, Record,
                    GuardedPCs, LifecyclePCs

(* The predicates have read the copy.                                       *)
LEMMA PredicatesSee ==
  ASSUME NEW e \in Node, Evaluates(e), pc[e] = "predicates", pc'[e] = "throttle",
         NEW x \in StateName, Asks(Current(e), x)
  PROVE  stored[x] = "succeeded"
<1>1. PICK s \in Step : s = Current(e)
  BY DEF Asks
<1>2. Holds(s)
  BY <1>1 DEF Evaluates, Asks
<1>3. PICK i \in DOMAIN Guards[s] : /\ Built[Guards[s][i]].by = "IsTrueCondition"
                                    /\ Built[Guards[s][i]].condition = x
  BY <1>1 DEF Asks
<1>4. Guards[s][i] \in PredicateFunc
  <2>1. Guards[s] \in Seq(PredicateFunc)
    BY GuardAssumption
  <2>2. QED
    BY <2>1
<1>5. HoldsGiven(TrueConditions)[Guards[s][i]]
  BY <1>2 DEF Holds
<1>6. x \in TrueConditions
  BY <1>3, <1>4, <1>5, TrueConditionHolds
<1>7. QED
  BY <1>6 DEF TrueConditions

LEMMA RunStepKeepsSeen ==
  ASSUME RunInv, GuardInv, OneStateEach, LastingGuards, current \in BOOLEAN, UNCHANGED flow,
         NEW n \in Node, RunStep(n), NEW e \in Node
  PROVE  GuardSeen(e)'
<1>0. /\ NodeStep(n) /\ Evaluates(n)
      /\ UNCHANGED stored \/ Writes(n)
  BY WhatIsWritten DEF RunStep
<1>1. SUFFICES ASSUME NEW x \in StateName, pc'[e] \in GuardedPCs, Asks(Current(e), x)'
               PROVE  stored'[x] = "succeeded"
  BY DEF GuardSeen
<1>2. ASSUME at'[e] = at[e], pc[e] \in GuardedPCs
      PROVE  stored'[x] = "succeeded"
  <2>1. Current(e)' = Current(e)
    BY <1>2 DEF Current
  <2>2. Asks(Current(e), x)
    BY <1>1, <2>1, FlowKeepsAsks
  <2>3. stored[x] = "succeeded"
    BY <1>2, <2>2 DEF GuardInv, GuardSeen
  <2>4. QED
    BY <1>0, <2>2, <2>3, ConditionsLast
<1>3. CASE e # n
  <2>1. pc'[e] \in LifecyclePCs
    BY <1>1 DEF GuardedPCs
  <2>2. at'[e] = at[e] /\ pc'[e] = pc[e]
    BY <1>0, <1>3, <2>1, RunParts, OtherEngines
  <2>3. QED
    BY <1>1, <1>2, <2>2
<1>4. CASE e = n
  <2>1. EngineStep(e)
    BY <1>0, <1>1, <1>4, RunParts, BodyCounters, EntryIsLabel
       DEF NodeStep, GuardedPCs, LifecyclePCs
  <2>2. at'[e] = at[e]
    <3>1. pc'[e] \in LifecyclePCs
      BY <1>1 DEF GuardedPCs
    <3>2. PICK s : s = Current(e)
      OBVIOUS
    <3>3. QED
      BY <2>1, <3>1, <3>2, KeeperAssumption, OwnStaysOpen DEF RunInv
  <2>3. CASE pc[e] \in GuardedPCs
    BY <1>2, <2>2, <2>3
  <2>4. CASE pc[e] = "predicates" /\ pc'[e] = "throttle" /\ UNCHANGED <<at, stored>>
    <3>1. Current(e)' = Current(e)
      BY <2>4 DEF Current
    <3>2. Asks(Current(e), x)
      BY <1>1, <3>1, FlowKeepsAsks
    <3>3. stored[x] = "succeeded"
      BY <1>0, <1>4, <2>4, <3>2, PredicatesSee
    <3>4. QED
      BY <2>4, <3>3
  <2>5. QED
    BY <1>1, <2>1, <2>3, <2>4, PastPredicates
<1>5. QED  BY <1>3, <1>4

LEMMA RunStepKeepsGuards ==
  ASSUME RunInv, GuardInv, OneStateEach, LastingGuards, current \in BOOLEAN, UNCHANGED flow,
         NEW n \in Node, RunStep(n)
  PROVE  GuardInv'
<1>0. /\ NodeStep(n) /\ UNCHANGED cached
      /\ UNCHANGED <<stored, server>> \/ (Writes(n) /\ (server' = stored' \/ UNCHANGED server))
  BY WhatIsWritten DEF RunStep, Writes, Accepted, Refused
<1>1. \A s, x : (Asks(s, x)' <=> Asks(s, x)) /\ StateOf(s)' = StateOf(s)
  BY FlowKeepsAsks, FlowKeepsTracked
<1>2. ASSUME NEW s \in Step, NEW x \in StateName, Asks(s, x), stored'[StateOf(s)] = "succeeded"
      PROVE  stored'[x] = "succeeded"
  <2>1. stored[x] = "succeeded"
    <3>1. CASE stored[StateOf(s)] = "succeeded"
      BY <1>2, <3>1 DEF GuardInv, Guarded
    <3>2. CASE stored[StateOf(s)] # "succeeded"
      <4>1. Writes(n)
        BY <1>0, <1>2, <3>2
      <4>2. StateOf(s) = StateOf(Current(n))
        BY <1>2, <3>2, <4>1, RunParts DEF Writes
      <4>3. s = Current(n)
        BY <1>2, <4>1, <4>2 DEF Writes, Asks, OneStateEach
      <4>4. pc[n] \in GuardedPCs
        BY <4>1 DEF Writes, GuardedPCs, LifecyclePCs
      <4>5. QED
        BY <1>2, <4>3, <4>4 DEF GuardInv, GuardSeen
    <3>3. QED  BY <3>1, <3>2
  <2>2. QED
    BY <1>0, <1>2, <2>1, ConditionsLast
<1>3. QED
  BY <1>0, <1>1, <1>2, RunStepKeepsSeen DEF GuardInv, Guarded

LEMMA GuardNext ==
  ASSUME ServerInv, ServerInv', GuardInv, OneStateEach, LastingGuards, [K8sNext]_allVars
  PROVE  GuardInv'
<1>0. /\ UNCHANGED flow /\ RunInv /\ current \in BOOLEAN /\ RunInv'
  BY ServerTypes DEF K8sNext, allVars, vars, ServerInv
<1>1. CASE \E n \in Node : RunStep(n)
  BY <1>0, <1>1, RunStepKeepsGuards
<1>2. CASE ~ \E n \in Node : RunStep(n)
  <2>1. \A s, x : (Asks(s, x)' <=> Asks(s, x)) /\ StateOf(s)' = StateOf(s)
    BY <1>0, FlowKeepsAsks, FlowKeepsTracked
  <2>2. /\ stored' \in {stored, cached}
        /\ cached' \in {cached, server}
        /\ server' = server
    <3>1. Respond \/ Crash => stored' = stored
      BY DEF Respond, Crash
    <3>2. CASE Reconcile \/ Sync \/ ForeignUpdate
      BY <3>2 DEF Reconcile, Sync, ForeignUpdate
    <3>3. CASE (Respond /\ UNCHANGED k8sVars) \/ (Crash /\ UNCHANGED <<server, cached>>)
      BY <3>1, <3>3 DEF k8sVars
    <3>4. CASE (\E k \in Key : TimePasses(k)) \/ UNCHANGED allVars
      BY <3>4 DEF TimePasses, Lapse, k8sVars, allVars, vars
    <3>5. QED
      BY <1>2, <3>2, <3>3, <3>4 DEF K8sNext
  <2>3. (Guarded(stored) /\ Guarded(cached) /\ Guarded(server))'
    BY <2>1, <2>2 DEF GuardInv, Guarded
  <2>4. ASSUME NEW e \in Node PROVE GuardSeen(e)'
    <3>1. CASE pc'[e] \notin GuardedPCs
      BY <3>1 DEF GuardSeen
    <3>2. CASE pc'[e] \in GuardedPCs
      <4>1. pc'[e] = pc[e] /\ UNCHANGED <<at, stored>>
        BY <1>0, <1>2, <3>2, RunParts
           DEF K8sNext, Reconcile, Respond, TimePasses, Lapse, Sync, ForeignUpdate, Crash, Goto,
               k8sVars, allVars, vars, GuardedPCs, LifecyclePCs, RunInv, Untried
      <4>2. Current(e)' = Current(e)
        BY <1>0, <4>1 DEF Current
      <4>3. QED
        BY <2>1, <4>1, <4>2 DEF GuardInv, GuardSeen
    <3>3. QED  BY <3>1, <3>2
  <2>5. QED
    BY <2>3, <2>4 DEF GuardInv
<1>3. QED  BY <1>1, <1>2

LEMMA GuardInit == K8sInit => GuardInv
<1> SUFFICES ASSUME K8sInit PROVE GuardInv
  OBVIOUS
<1>1. /\ \A x \in StateName : stored[x] = "pending"
      /\ server = stored /\ cached = stored
      /\ \A n \in Node : pc[n] \in {"idle", "next"}
  BY DEF K8sInit, Init
<1>2. \A s, x : Asks(s, x) => StateOf(s) \in StateName
  BY RunInit, RunParts DEF Asks
<1>3. Guarded(stored)
  BY <1>1, <1>2 DEF Guarded
<1>4. QED
  BY <1>1, <1>3 DEF GuardInv, GuardSeen, Guarded, GuardedPCs, LifecyclePCs

--------------------------------------------------------------------------------
(* The theorems.                                                            *)

(* How the copy, the server and the cache relate, in every flow in which    *)
(* each state belongs to one step (k8s.go:84-93).                           *)
THEOREM ServerInvariant == K8sSpec /\ OneStateEach => [](ServerInv /\ OneStateEach)
<1>1. K8sInit => ServerInv
  BY ServerInit
<1>2. ServerInv /\ OneStateEach /\ [K8sNext]_allVars => (ServerInv /\ OneStateEach)'
  <2>1. [K8sNext]_allVars => UNCHANGED flow
    BY DEF K8sNext, allVars, vars
  <2>2. QED
    BY <2>1, ServerNext, FlowKeepsTracked
<1>3. QED
  BY <1>1, <1>2, PTL DEF K8sSpec

(* A copy of the latest version differs from the server only in what an     *)
(* update of this run has failed to persist (k8s.go:84-93).                 *)
THEOREM CopyIsKnown == K8sSpec /\ OneStateEach => []K8sInv
<1>1. ServerInv => K8sInv
  BY DEF ServerInv
<1>2. QED
  BY <1>1, ServerInvariant, PTL

(* However an engine leaves a step, the API server has what the step        *)
(* returned, but for a step that runs again over a success that its copy    *)
(* knows of (step_engine.go:299-360).                                       *)
THEOREM OutcomesReachServer == K8sSpec /\ OneStateEach => []OutcomeIsOnServer
<1>1. ServerInv => OutcomeIsOnServer
  <2>1. SUFFICES ASSUME ServerInv, NEW e \in Node, NEW i \in Positions(e), Left(e, i),
                        NEW s, s = flow[e].steps[i], Tracked(s), Unshared(s)
                 PROVE  /\ res[s].base = "nil" /\ ~Has(s, "skipCheck") => server[StateOf(s)] = "succeeded"
                        /\ Fails(s) => server[StateOf(s)] = "failed"
    BY DEF OutcomeIsOnServer
  <2>2. Recorded(s)
    BY <2>1 DEF ServerInv, RunInv, OutcomeInv, OutcomeIsPersisted
  <2>3. Told(s) => Settled(s)
    BY <2>1 DEF ServerInv, OnServer
  <2>4. QED
    BY <2>1, <2>2, <2>3 DEF Recorded, Told, Settled
<1>2. QED
  BY <1>1, ServerInvariant, PTL

(* What has succeeded on the API server is never taken back, by a run with  *)
(* a stale copy or after a lost reply (step.go:120-131, k8s.go:89).         *)
THEOREM SuccessesLast == K8sSpec /\ OneStateEach => SuccessIsFinal
<1>1. ServerInv /\ OneStateEach /\ [K8sNext]_allVars =>
        [\A s \in Step :
           /\ Tracked(s) /\ ~Has(s, "skipCheck")
           /\ server[StateOf(s)] = "succeeded"
           => server'[StateOf(s)] = "succeeded"]_allVars
  <2>1. SUFFICES ASSUME ServerInv, OneStateEach, [K8sNext]_allVars,
                        NEW s \in Step, Lasting(s), server[StateOf(s)] = "succeeded"
                 PROVE  server'[StateOf(s)] = "succeeded"
    BY DEF Lasting
  <2>2. CASE \E n \in Node : RunStep(n)
    <3>1. UNCHANGED flow
      BY <2>1 DEF K8sNext, allVars, vars
    <3>2. QED
      BY <2>1, <2>2, <3>1, SuccessesKnownStep
  <2>3. CASE server' = server
    BY <2>1, <2>3
  <2>4. QED
    BY <2>1, <2>2, <2>3
       DEF K8sNext, Reconcile, TimePasses, Sync, ForeignUpdate, k8sVars, allVars
<1>2. QED
  BY <1>1, ServerInvariant, PTL DEF K8sSpec, SuccessIsFinal

(* A step guarded by IsTrueCondition succeeds on the server only where the  *)
(* condition is true on the server too (predicate_func.go:17-21,            *)
(* k8s.go:88).                                                              *)
THEOREM GuardsHold == K8sSpec /\ OneStateEach /\ LastingGuards => []GuardHoldsOnServer
<1>1. K8sInit => GuardInv
  BY GuardInit
<1>2. /\ ServerInv /\ OneStateEach /\ (ServerInv /\ OneStateEach)' /\ GuardInv /\ LastingGuards
      /\ [K8sNext]_allVars
      => (GuardInv /\ LastingGuards)'
  <2>1. [K8sNext]_allVars => UNCHANGED flow
    BY DEF K8sNext, allVars, vars
  <2>2. QED
    BY <2>1, GuardNext, FlowKeepsAsks
<1>3. GuardInv /\ LastingGuards => GuardHoldsOnServer
  <2>1. SUFFICES ASSUME GuardInv, LastingGuards, NEW s \in Step, NEW i \in DOMAIN Guards[s],
                        Tracked(s), Has(s, "predicate"),
                        Built[Guards[s][i]].by = "IsTrueCondition",
                        server[StateOf(s)] = "succeeded"
                 PROVE  server[Built[Guards[s][i]].condition] = "succeeded"
    BY DEF GuardHoldsOnServer
  <2>2. PICK x : x = Built[Guards[s][i]].condition
    OBVIOUS
  <2>3. Asks(s, x)
    BY <2>1, <2>2 DEF Asks
  <2>4. QED
    BY <2>1, <2>2, <2>3, AskedLasts DEF GuardInv, Guarded
<1>4. QED
  BY <1>1, <1>2, <1>3, ServerInvariant, PTL DEF K8sSpec

================================================================================
