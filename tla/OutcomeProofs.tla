----------------------------- MODULE OutcomeProofs -----------------------------
(***************************************************************************)
(* Whichever way an engine leaves a step, the StateKeeper holds what the   *)
(* step returned: OutcomeInv is an invariant of StepsEngine for the flows  *)
(* in which no two steps share a state.                                    *)
(***************************************************************************)
EXTENDS StepsEngineProofs

--------------------------------------------------------------------------------
(* What the configuration says stays as it is.                              *)

LEMMA FlowKeeps ==
  ASSUME UNCHANGED flow
  PROVE  /\ \A s : (Tracked(s)' <=> Tracked(s)) /\ StateOf(s)' = StateOf(s)
         /\ \A s : (Unshared(s)' <=> Unshared(s)) /\ Kind(s)' = Kind(s)
         /\ \A e : Positions(e)' = Positions(e) /\ Nested(e)' = Nested(e)
         /\ SeparateStates' <=> SeparateStates
BY DEF Tracked, StateOf, Unshared, Kind, Positions, Nested, SeparateStates, HasState,
       InOperation, Has, Subtree

(* A tracked step has a name in the keeper.                                 *)
LEMMA TrackedHasState ==
  ASSUME flow \in Flows, NEW s \in Step, Tracked(s)
  PROVE  StateOf(s) \in StateName
<1> DEFINE Hands(d) == Kind(d) = "dynamic" /\ s \in Nested(d)
           dyn == CHOOSE d \in Step : Hands(d)
<1>1. \A n \in Node : flow[n].state \in StateName \cup {NoState}
  BY FlowIsWellFormed DEF NodeConfig
<1>2. StateOf(s) # NoState
  BY DEF Tracked, HasState
<1>3. CASE \E d \in Step : Hands(d) /\ flow[d].state # NoState
  <2>1. dyn \in Step
    BY <1>3
  <2>2. StateOf(s) = flow[dyn].state
    BY <1>3 DEF StateOf
  <2>3. QED
    BY <2>1, <2>2, <1>1, <1>2 DEF Node
<1>4. CASE ~ \E d \in Step : Hands(d) /\ flow[d].state # NoState
  BY <1>1, <1>2, <1>4 DEF StateOf, Node
<1>5. QED
  BY <1>3, <1>4

(* A step its engine has left, or is not waiting for, is idle.              *)
LEMMA QuietIsIdle ==
  ASSUME TypeInv, StructuredConcurrency, ParallelInv,
         NEW e \in Node, NEW i \in Positions(e),
         i < at[e] \/ (i = at[e] /\ pc[e] \notin {"wait", "collecting"})
  PROVE  pc[flow[e].steps[i]] = "idle"
<1> DEFINE s == flow[e].steps[i]
<1>1. s \in Nested(e)
  BY DEF Nested
<1>2. SUFFICES ASSUME WaitsFor(e, s) PROVE FALSE
  BY <1>1, ChildIdle DEF TypeInv
<1>3. CASE pc[e] = "wait" /\ at[e] \in Positions(e) /\ Current(e) = s
  BY <1>3, OnePosition DEF Current, Positions, TypeInv, TypeOK
<1>4. CASE pc[e] = "collecting"
  BY <1>4 DEF ParallelInv, Positions, TypeInv, TypeOK
<1>5. QED
  BY <1>2, <1>3, <1>4 DEF WaitsFor

--------------------------------------------------------------------------------
(* What the step of a node leaves alone.                                    *)

(* An engine writes the state of its current step, which is tracked.        *)
LEMMA EngineWrites ==
  ASSUME TypeInv, NEW e \in Node, EngineStep(e), DealtWith(e, Current(e))
  PROVE  \/ stored' = stored
         \/ /\ pc[e] \in InStep
            /\ Tracked(Current(e))
            /\ \E status \in Statuses : Write(Current(e), status)
<1>1. CASE Launch(e)
  BY <1>1 DEF Launch, Panic, WriteFails, InStep, Statuses
<1>2. CASE Failed(e)
  BY <1>2 DEF Failed, WriteFails, InStep, Statuses
<1>3. CASE Record(e)
  BY <1>3 DEF Record, WriteFails, InStep, Statuses, DealtWith
<1>4. QED
  BY <1>1, <1>2, <1>3 DEF EngineStep, EngineDone, Consider, Predicates, Throttle, Resume,
                          Callback, Confirm, Complete, Panic

LEMMA CleanedGrows ==
  ASSUME NEW n \in Node, NodeStep(n)
  PROVE  cleaned \subseteq cleaned'
BY DEF NodeStep, EngineStep, EngineDone, Consider, Predicates, Throttle, Launch, Resume, Failed,
       Callback, Confirm, Record, Complete, Panic,
       StepStep, FunctionReturns, Fork, Goroutine, Join

(* Another node, or an engine that is at another step, does not touch what  *)
(* an idle step returned nor what was persisted about it.                   *)
LEMMA Untouched ==
  ASSUME OutcomeInv, SeparateStates, UNCHANGED flow,
         NEW n \in Node, NodeStep(n),
         NEW e \in Node, NEW i \in Positions(e), NEW s \in Step, s = flow[e].steps[i],
         pc[s] = "idle", ~(n = e /\ i = at[e])
  PROVE  /\ res'[s] = res[s]
         /\ Tracked(s) /\ Unshared(s) => stored'[StateOf(s)] = stored[StateOf(s)]
<1>0. /\ TypeInv /\ SuccessInv /\ StructuredConcurrency /\ ParallelInv
      /\ flow \in Flows /\ s \in Node /\ s # Root
  BY EngineInvParts, RootAssumption DEF OutcomeInv, TypeInv, TypeOK, Node
<1>1. at[n] \in Positions(n) => Current(n) # s
  BY <1>0, OnePosition DEF Current
<1>2. n # s \/ ~Stays(n)
  BY <1>0 DEF Stays
<1>3. Passes(n) \/ Stays(n)
  BY <1>0, EnginePassesOrStays, BodyStays DEF NodeStep
<1>4. res'[s] = res[s]
  BY <1>0, <1>1, <1>2, <1>3 DEF Passes, Stays
<1>5. ASSUME Tracked(s), Unshared(s) PROVE stored'[StateOf(s)] = stored[StateOf(s)]
  <2>1. CASE stored' = stored
    BY <2>1
  <2>2. CASE /\ EngineStep(n) /\ pc[n] \in InStep /\ Tracked(Current(n))
             /\ \E status \in Statuses : Write(Current(n), status)
    <3>1. PICK t \in Step : t = Current(n) /\ t \in Nested(n) /\ t # s /\ Tracked(t)
      BY <2>2, <1>0, <1>1, CurrentIsNested DEF TypeInv
    <3>2. StateOf(t) # StateOf(s)
      <4>1. SUFFICES ASSUME StateOf(t) = StateOf(s) PROVE FALSE
        OBVIOUS
      <4>2. t \in Nested(s)
        BY <3>1, <4>1, <1>5 DEF SeparateStates
      <4>3. n = s
        BY <4>2, <3>1, <1>0, OneParent
      <4>4. QED
        BY <4>3, <2>2 DEF InStep
    <3>3. stored \in [StateName -> Statuses] /\ StateOf(s) \in StateName
      BY <1>0, <1>5, TrackedHasState DEF TypeInv, TypeOK
    <3>4. QED
      BY <2>2, <3>1, <3>2, <3>3 DEF Write
  <2>3. CASE n \in Step /\ StepStep(n)
    BY <2>3 DEF StepStep, FunctionReturns, Fork, Goroutine, Join
  <2>4. QED
    BY <2>1, <2>2, <2>3, <1>0, EngineWrites DEF NodeStep, OutcomeInv
<1>6. QED
  BY <1>4, <1>5

--------------------------------------------------------------------------------
(* What an engine does about its current step.                              *)

(* e leaves s, which is its current step: it goes on, or returns what the   *)
(* step returned.                                                           *)
Leaves(e, s) ==
  \/ at'[e] # at[e]
  \/ /\ pc'[e] = "returned"
     /\ \/ Fails(s)' /\ res'[e] = Wrap(res'[s])
        \/ ~Fails(s)' /\ res'[e] = Plainly("nil")

LEMMA NotAnOutcome ==
  ASSUME NEW r, NEW b, r = Plainly(b), b # "nil", NEW q \in Result
  PROVE  r # Wrap(q) /\ r # Plainly("nil")
BY DEF Plainly, Wrap, Result

(* A step that is skipped has no outcome to record.                         *)
LEMMA SkipRecords ==
  ASSUME TypeInv, NEW e \in Node, NEW s \in Step, s = Current(e), Skip(e)
  PROVE  Recorded(s)' /\ pc'[e] = "next"
<1>1. res'[s] = Plainly("skipped")
  BY DEF Skip, TypeInv, TypeOK, Node
<1>2. QED
  BY <1>1 DEF Recorded, Fails, IsError, Plainly, Skip, Advance, TypeInv, TypeOK

LEMMA OwnStep ==
  ASSUME OutcomeInv, UNCHANGED flow, NEW e \in Node, EngineStep(e),
         at[e] \in Positions(e), NEW s \in Step, s = Current(e)
  PROVE  /\ Leaves(e, s) /\ Tracked(s) /\ Unshared(s) => Recorded(s)'
         /\ pc'[e] \in {"failing", "callback", "completing", "recording"} =>
              at'[e] = at[e] /\ DealtWith(e, s)'
<1>0. /\ TypeInv /\ SuccessInv /\ DealtWith(e, s)
      /\ pc \in [Node -> PCs] /\ at \in [Node -> Nat \ {0}] /\ res \in [Node -> Result]
      /\ stored \in [StateName -> Statuses]
      /\ s \in Node /\ s # e
      /\ Tracked(s) => StateOf(s) \in StateName
  BY EngineInvParts, TrackedHasState, CurrentIsNested DEF OutcomeInv, TypeInv, TypeOK, Node
<1>k. /\ Tracked(s)' <=> Tracked(s)
      /\ Unshared(s)' <=> Unshared(s)
      /\ StateOf(s)' = StateOf(s)
  BY FlowKeeps
<1> DEFINE Busy == {"failing", "callback", "completing", "recording"}
(* Steps that leave s, or say nothing about it. *)
<1>a. ASSUME Skip(e)
      PROVE  Recorded(s)' /\ pc'[e] \notin Busy
  BY <1>a, <1>0, SkipRecords
<1>b. ASSUME NEW b, b # "nil", Return(e, Plainly(b))
      PROVE  ~Leaves(e, s) /\ pc'[e] \notin Busy
  <2>1. res'[e] = Plainly(b) /\ res'[s] = res[s] /\ res[s] \in Result
    BY <1>0, <1>b DEF Return
  <2>2. QED
    BY <2>1, <1>0, <1>b, NotAnOutcome DEF Return, Leaves
<1>c. ASSUME UNCHANGED at, pc'[e] \notin Busy \cup {"returned"}
      PROVE  ~Leaves(e, s) /\ pc'[e] \notin Busy
  BY <1>c DEF Leaves
<1>1. CASE EngineDone(e)
  BY <1>1 DEF EngineDone
<1>2. CASE Consider(e)
  BY <1>2, <1>a, <1>c, <1>0 DEF Consider, Panic, Goto
<1>3. CASE Predicates(e)
  BY <1>3, <1>a, <1>b, <1>c, <1>0 DEF Predicates, Goto
<1>4. CASE Throttle(e)
  BY <1>4, <1>a, <1>c, <1>0 DEF Throttle, Panic, Goto
<1>5. CASE Launch(e)
  <2>1. CASE Call(e, s)
    BY <2>1, <1>0, <1>c DEF Call
  <2>2. CASE Panic
    BY <2>2, <1>5, <1>0, <1>c DEF Panic, Launch
  <2>3. CASE Return(e, Plainly("update"))
    BY <2>3, <1>b
  <2>4. QED
    BY <1>5, <2>1, <2>2, <2>3 DEF Launch
<1>6. CASE Resume(e)
  <2>1. CASE IsExpected(res[s])
    BY <2>1, <1>6, <1>0 DEF Resume, Recorded, Fails, IsExpected
  <2>2. CASE ~IsExpected(res[s])
    <3>1. at' = at /\ pc'[e] = (IF IsError(res[s]) THEN "failing" ELSE "confirming") /\ res' = res
      BY <2>2, <1>6, <1>0 DEF Resume
    <3>2. QED
      BY <2>2, <3>1 DEF Leaves, DealtWith, Fails
  <2>3. QED  BY <2>1, <2>2
<1>7. CASE Failed(e)
  <2>1. CASE Goto(e, "callback") /\ UNCHANGED <<at, res>>
    <3>1. Fails(s)'
      BY <2>1, <1>7, <1>0 DEF Failed, DealtWith, Fails
    <3>2. Tracked(s) => stored'[StateOf(s)] = "failed"
      BY <2>1, <1>7, <1>0 DEF Failed, Write, Return, Goto
    <3>3. pc'[e] = "callback" /\ at' = at
      BY <2>1, <1>0 DEF Goto
    <3>4. QED
      BY <3>1, <3>2, <3>3, <1>k DEF Leaves, DealtWith
  <2>2. CASE Return(e, Plainly("update"))
    BY <2>2, <1>b
  <2>3. QED
    BY <1>7, <2>1, <2>2 DEF Failed
<1>8. CASE Callback(e)
  <2>1. Fails(s) /\ (Tracked(s) /\ Unshared(s) => stored[StateOf(s)] = "failed")
    BY <1>8, <1>0 DEF Callback, DealtWith
  <2>2. res'[s] = res[s] /\ stored' = stored /\ s \in cleaned' /\ pc'[e] \notin Busy
    BY <1>8, <1>0 DEF Callback, Advance, Return
  <2>3. res[s].base # "nil"
    BY <2>1 DEF Fails, IsError
  <2>4. Tracked(s) /\ Unshared(s) => Recorded(s)'
    BY <2>1, <2>2, <2>3, <1>k DEF Recorded
  <2>5. QED
    BY <2>2, <2>4
<1>9. CASE Confirm(e)
  <2>1. at' = at /\ stored' = stored /\ pc'[e] \in {"completing", "recording"}
    BY <1>9, <1>0 DEF Confirm, Goto
  <2>2. ~Leaves(e, s)
    BY <2>1 DEF Leaves
  <2>3. pc'[e] = "completing" /\ Tracked(s) => stored[StateOf(s)] = "succeeded"
    BY <1>9, <1>0 DEF Confirm, Goto, Reading, Statuses
  <2>4. pc'[e] = "recording" => Tracked(s)
    BY <1>9, <1>0 DEF Confirm, Goto, Reading
  <2>5. QED
    BY <2>1, <2>2, <2>3, <2>4, <1>k DEF DealtWith
<1>10. CASE Record(e)
  <2>1. CASE Write(s, "succeeded") /\ Goto(e, "completing") /\ UNCHANGED <<at, res>>
    <3>1. Tracked(s) => stored'[StateOf(s)] = "succeeded"
      BY <2>1, <1>0 DEF Write
    <3>2. pc'[e] = "completing" /\ at' = at
      BY <2>1, <1>0 DEF Goto
    <3>3. QED
      BY <3>1, <3>2, <1>k DEF Leaves, DealtWith
  <2>2. CASE Return(e, Wrap(Plainly("update")))
    <3>1. ~IsError(res[s])
      BY <1>10, <1>0 DEF Record, SuccessInv, InSuccess
    <3>2. /\ res'[e] = Wrap(Plainly("update")) /\ res'[s] = res[s]
          /\ at' = at /\ pc'[e] = "returned"
      BY <2>2, <1>0 DEF Return
    <3>3. ~Fails(s)' /\ Wrap(Plainly("update")) # Plainly("nil")
      BY <3>1, <3>2 DEF Fails, Wrap, Plainly
    <3>4. QED
      BY <3>2, <3>3 DEF Leaves
  <2>3. QED
    BY <1>10, <2>1, <2>2 DEF Record
<1>11. CASE Complete(e)
  <2>1. CASE Panic
    <3>1. at' = at /\ stored' = stored /\ pc'[e] = "completing"
      BY <2>1, <1>11 DEF Panic, Complete
    <3>2. QED
      BY <3>1, <1>11, <1>0, <1>k DEF Complete, Leaves, DealtWith
  <2>2. CASE ~Panic
    <3>1. /\ ~IsError(res[s])
          /\ Tracked(s) /\ Unshared(s) => stored[StateOf(s)] = "succeeded"
      BY <1>11, <1>0 DEF Complete, DealtWith, SuccessInv, InSuccess
    <3>2. res'[s] = res[s] /\ stored' = stored /\ pc'[e] \notin Busy
      BY <1>11, <2>2, <1>0 DEF Complete, Advance, Return
    <3>3. QED
      BY <3>1, <3>2, <1>k DEF Recorded, Fails
  <2>3. QED  BY <2>1, <2>2
<1>12. QED
  BY <1>1, <1>2, <1>3, <1>4, <1>5, <1>6, <1>7, <1>8, <1>9, <1>10, <1>11 DEF EngineStep

--------------------------------------------------------------------------------
(* What an engine has left stays recorded.                                  *)

(* Nobody but itself changes the result of a node that has returned.        *)
LEMMA ReturnedKept ==
  ASSUME OutcomeInv, UNCHANGED flow, NEW n \in Node, NodeStep(n),
         NEW x \in Node, x # n, pc[x] = "returned"
  PROVE  res'[x] = res[x]
<1>0. TypeInv /\ SuccessInv /\ StructuredConcurrency
  BY EngineInvParts DEF OutcomeInv
<1>1. Passes(n) \/ Stays(n)
  BY <1>0, EnginePassesOrStays, BodyStays DEF NodeStep
<1>2. CASE Stays(n)
  BY <1>2 DEF Stays
<1>3. CASE Passes(n) /\ x = Current(n)
  <2>1. pc[n] \in {"wait", "collecting"}
    <3>1. x \in Nested(n)
      BY <1>0, <1>3, CurrentIsNested DEF Passes, TypeInv, TypeOK
    <3>2. QED
      BY <1>0, <3>1, ChildIdle DEF WaitsFor, TypeInv
  <2>2. at' # at
    BY <1>3, <1>0 DEF Passes, TypeInv, TypeOK, Positions
  <2>3. EngineStep(n)
    BY <1>0, <2>2, BodyCounters DEF NodeStep
  <2>4. Resume(n)
    BY <2>1, <2>3 DEF EngineStep, EngineDone, Consider, Predicates, Throttle, Launch, Failed,
                      Callback, Confirm, Record, Complete
  <2>5. QED
    BY <2>4 DEF Resume
<1>4. CASE Passes(n) /\ x # Current(n)
  BY <1>4 DEF Passes
<1>5. QED
  BY <1>1, <1>2, <1>3, <1>4

(* An engine returns where it is.                                           *)
LEMMA ReturnsInPlace ==
  ASSUME TypeInv, NEW e \in Node, EngineStep(e), pc'[e] = "returned"
  PROVE  at'[e] = at[e]
BY DEF TypeInv, TypeOK, EngineStep, EngineDone, Consider, Predicates, Throttle, Launch, Resume, Failed,
       Callback, Confirm, Record, Complete, Panic, Skip, Advance, Goto, Return, Call

LEMMA AdvancesByOne ==
  ASSUME TypeInv, SuccessInv, UNCHANGED flow, NEW e \in Node, EngineStep(e)
  PROVE  at'[e] \in {at[e], at[e] + 1}
BY EnginePassesOrStays DEF Passes, Stays, TypeInv, TypeOK

(* A step of n does not make e leave another step than its current one,     *)
(* nor any step if e is not n.                                              *)
LEMMA StillLeft ==
  ASSUME OutcomeInv, SeparateStates, UNCHANGED flow, NEW n \in Node, NodeStep(n),
         NEW e \in Node, NEW i \in Positions(e), NEW s \in Step, s = flow[e].steps[i],
         ~(n = e /\ i = at[e]), Left(e, i)'
  PROVE  Left(e, i) /\ pc[s] = "idle"
<1>0. /\ TypeInv /\ SuccessInv /\ StructuredConcurrency /\ ParallelInv
      /\ at \in [Node -> Nat \ {0}] /\ i \in Nat /\ Kind(e)' = Kind(e)
  BY EngineInvParts, FlowKeeps DEF OutcomeInv, TypeInv, TypeOK, Positions
<1>1. CASE i < at[e]
  BY <1>0, <1>1, QuietIsIdle DEF Left
<1>2. CASE ~(i < at[e])
  <2>1. n # e
    <3>1. SUFFICES ASSUME n = e PROVE FALSE
      OBVIOUS
    <3>2. at[e] < i
      BY <1>0, <1>2, <3>1
    <3>3. EngineStep(e)
      BY <1>0, <3>1, <3>2, BodyCounters DEF NodeStep, Left
    <3>4. QED
      BY <1>0, <3>2, <3>3, ReturnsInPlace, AdvancesByOne DEF Left
  <2>2. at'[e] = at[e] /\ (pc'[e] = "returned" => pc[e] = "returned")
    BY <1>0, <2>1, EngineCounters, BodyCounters, EntryIsLabel DEF NodeStep
  <2>3. i = at[e] /\ pc[e] = "returned"
    BY <1>2, <2>2 DEF Left
  <2>4. pc[s] = "idle"
    BY <1>0, <2>3, QuietIsIdle
  <2>5. res'[e] = res[e] /\ res'[s] = res[s]
    BY <2>1, <2>3, <2>4, ReturnedKept, Untouched
  <2>6. Fails(s)' <=> Fails(s)
    BY <2>5 DEF Fails
  <2>7. (flow[e].steps[i])' = s /\ (at[e])' = at[e] /\ (res[e])' = res[e] /\ (res[s])' = res[s]
    BY <2>2, <2>5
  <2>8. Left(e, i)
    <3>1. CASE Fails(s)
      BY <1>0, <2>3, <2>5, <2>6, <2>7, <3>1 DEF Left
    <3>2. CASE ~Fails(s)
      BY <1>0, <2>3, <2>5, <2>6, <2>7, <3>2 DEF Left
    <3>3. QED  BY <3>1, <3>2
  <2>9. QED
    BY <2>4, <2>8
<1>3. QED
  BY <1>1, <1>2

LEMMA StillRecorded ==
  ASSUME OutcomeInv, SeparateStates, UNCHANGED flow, NEW n \in Node, NodeStep(n),
         NEW e \in Node, NEW i \in Positions(e), NEW s \in Step, s = flow[e].steps[i],
         ~(n = e /\ i = at[e]), Left(e, i)', Tracked(s), Unshared(s)
  PROVE  Recorded(s)'
<1>1. Left(e, i) /\ pc[s] = "idle"
  BY StillLeft
<1>2. Recorded(s)
  BY <1>1 DEF OutcomeInv, OutcomeIsPersisted
<1>3. res'[s] = res[s] /\ stored'[StateOf(s)] = stored[StateOf(s)]
  BY <1>1, Untouched
<1>4. cleaned \subseteq cleaned' /\ StateOf(s)' = StateOf(s)
  BY CleanedGrows, FlowKeeps
<1>5. QED
  BY <1>2, <1>3, <1>4 DEF Recorded, Fails

(* The body of a step that is returning leaves none of its own steps, for a *)
(* function has none and a goroutine that skips its step runs none.         *)
LEMMA BodyLeavesNothing ==
  ASSUME OutcomeInv, UNCHANGED flow, NEW e \in Step, StepStep(e),
         NEW i \in Positions(e), i = at[e]
  PROVE  ~Left(e, i)'
<1>0. TypeInv /\ ParallelInv /\ flow \in Flows /\ e \in Node
  BY EngineInvParts DEF OutcomeInv, TypeInv, TypeOK, Node
<1>1. at'[e] = at[e]
  BY <1>0, BodyCounters
<1>2. SUFFICES ASSUME pc'[e] = "returned", Kind(e) # "parallel",
                      \/ res'[e] = Plainly("nil")
                      \/ \E q : res'[e] = Wrap(q) /\ q = res'[flow[e].steps[at[e]]]
               PROVE  FALSE
  BY <1>1, <1>0, FlowKeeps DEF Left, TypeInv, TypeOK
<1>3. pc[e] # "executing"
  BY <1>0, <1>2, FlowIsWellFormed DEF OutcomeInv, Kind, WellFormed, Positions
<1>4. Goroutine(e)
  BY <1>0, <1>2, <1>3 DEF StepStep, FunctionReturns, Fork, Join, ParallelInv
<1>5. res'[e] = Plainly("skipped")
  BY <1>0, <1>2, <1>4, EntryIsLabel DEF Goroutine, Goto, Return, TypeInv, TypeOK
<1>6. \A x \in Node : res'[x] \in Result
  <2>1. Plainly("skipped") \in Result
    BY PlainResults DEF Bases
  <2>2. QED
    BY <1>0, <1>4, <2>1 DEF Goroutine, Return, TypeInv, TypeOK
<1>7. flow[e].steps[at[e]] \in Node
  BY <1>0, FlowIsWellFormed DEF Positions, Node
<1>8. QED
  BY <1>2, <1>5, <1>6, <1>7, NotAnOutcome

(* What other engines know about their current steps stays true.            *)
LEMMA StillDealt ==
  ASSUME OutcomeInv, SeparateStates, UNCHANGED flow, NEW n \in Node, NodeStep(n),
         NEW e \in Node, e # n, pc'[e] \in {"failing", "callback", "completing", "recording"}
  PROVE  at'[e] = at[e] /\ at[e] \in Positions(e) /\ DealtWith(e, Current(e))'
<1>0. /\ TypeInv /\ StructuredConcurrency /\ ParallelInv /\ flow \in Flows
  BY EngineInvParts DEF OutcomeInv, TypeInv, TypeOK
<1>1. pc'[e] = pc[e] /\ at'[e] = at[e]
  BY <1>0, EngineCounters, BodyCounters, EntryIsLabel DEF NodeStep
<1>2. at[e] \in Positions(e)
  BY <1>0, <1>1 DEF TypeInv, InStep
<1>3. PICK s \in Step : s = Current(e) /\ s = flow[e].steps[at[e]]
  BY <1>0, <1>2, CurrentIsNested DEF Current
<1>4. pc[s] = "idle"
  BY <1>0, <1>1, <1>2, <1>3, QuietIsIdle
<1>5. /\ res'[s] = res[s]
      /\ Tracked(s) /\ Unshared(s) => stored'[StateOf(s)] = stored[StateOf(s)]
  BY <1>2, <1>3, <1>4, Untouched
<1>6. DealtWith(e, s)
  BY <1>3 DEF OutcomeInv
<1>7. DealtWith(e, s)'
  BY <1>1, <1>5, <1>6, FlowKeeps DEF DealtWith, Fails
<1>8. Current(e)' = s
  BY <1>1, <1>3 DEF Current
<1>9. QED
  BY <1>1, <1>2, <1>7, <1>8

(* One step of one node.                                                    *)
LEMMA OutcomeNodeStep ==
  ASSUME OutcomeInv, SeparateStates, UNCHANGED flow, NEW n \in Node, NodeStep(n)
  PROVE  /\ OutcomeIsPersisted'
         /\ \A e \in Node : DealtWith(e, Current(e))'
         /\ \A x \in Node : pc'[x] = "executing" => Kind(x)' = "simple"
<1>0. /\ TypeInv /\ flow \in Flows /\ \A e : Positions(e)' = Positions(e)
      /\ \A s : (Tracked(s)' <=> Tracked(s)) /\ (Unshared(s)' <=> Unshared(s))
      /\ \A x : Kind(x)' = Kind(x)
  BY EngineInvParts, FlowKeeps DEF OutcomeInv, TypeInv, TypeOK
<1>1. ASSUME NEW e \in Node, NEW i \in Positions(e), Left(e, i)',
             NEW s \in Step, s = flow[e].steps[i], Tracked(s), Unshared(s)
      PROVE  Recorded(s)'
  <2>1. CASE ~(n = e /\ i = at[e])
    BY <1>1, <2>1, StillRecorded
  <2>2. CASE n = e /\ i = at[e] /\ EngineStep(e)
    <3>1. s = Current(e)
      BY <1>1, <2>2 DEF Current
    <3>2. Leaves(e, s)
      <4>1. CASE at'[e] # at[e]
        BY <4>1 DEF Leaves
      <4>2. CASE at'[e] = at[e]
        <5>1. ~(i < at'[e])
          BY <4>2, <2>2, <1>0 DEF TypeInv, TypeOK
        <5>2. QED
          BY <1>1, <5>1 DEF Left, Leaves
      <4>3. QED  BY <4>1, <4>2
    <3>3. QED
      BY <1>1, <2>2, <3>1, <3>2, OwnStep
  <2>3. CASE n = e /\ i = at[e] /\ n \in Step /\ StepStep(n)
    BY <1>1, <2>3, BodyLeavesNothing
  <2>4. QED
    BY <2>1, <2>2, <2>3 DEF NodeStep
<1>2. OutcomeIsPersisted'
  <2>1. SUFFICES ASSUME NEW e \in Node, NEW i \in Positions(e), Left(e, i)',
                        Tracked(flow[e].steps[i]), Unshared(flow[e].steps[i])
                 PROVE  Recorded(flow[e].steps[i])'
    BY <1>0 DEF OutcomeIsPersisted
  <2>2. PICK s \in Step : s = flow[e].steps[i]
    BY <1>0, FlowIsWellFormed DEF Positions
  <2>3. Recorded(s)'
    BY <1>1, <2>1, <2>2
  <2>4. QED
    BY <2>2, <2>3
<1>3. ASSUME NEW e \in Node PROVE DealtWith(e, Current(e))'
  <2>1. SUFFICES ASSUME pc'[e] \in {"failing", "callback", "completing", "recording"}
                 PROVE  DealtWith(e, Current(e))'
    BY DEF DealtWith
  <2>2. CASE e # n
    BY <2>1, <2>2, StillDealt
  <2>3. CASE e = n
    <3>1. EngineStep(e)
      BY <1>0, <2>1, <2>3, BodyCounters, EntryIsLabel DEF NodeStep
    <3>2. at[e] \in Positions(e)
      <4>1. pc[e] # "next"
        BY <1>0, <2>1, <3>1 DEF EngineStep, EngineDone, Consider, Predicates, Throttle, Launch,
             Resume, Failed, Callback, Confirm, Record, Complete, Panic, Skip, Advance, Goto,
             Return, TypeInv, TypeOK
      <4>2. QED
        BY <1>0, <3>1, <4>1, EngineCounters DEF TypeInv
    <3>3. PICK s \in Step : s = Current(e)
      BY <1>0, <3>2, CurrentIsNested
    <3>4. at'[e] = at[e] /\ DealtWith(e, s)'
      BY <2>1, <3>1, <3>2, <3>3, OwnStep
    <3>5. Current(e)' = s
      BY <3>3, <3>4 DEF Current
    <3>6. QED
      BY <3>4, <3>5
  <2>4. QED
    BY <2>2, <2>3
<1>4. ASSUME NEW x \in Node, pc'[x] = "executing" PROVE Kind(x)' = "simple"
  <2>1. pc[x] = "executing" \/ Entry(x) = "executing"
    BY <1>0, <1>4, EngineCounters, BodyCounters DEF NodeStep, InStep
  <2>2. Entry(x) = "executing" => Kind(x) = "simple"
    BY DEF Entry
  <2>3. QED
    BY <1>0, <2>1, <2>2 DEF OutcomeInv
<1>5. QED
  BY <1>2, <1>3, <1>4

--------------------------------------------------------------------------------
(* The theorem.                                                             *)

LEMMA OutcomeInit == Init => OutcomeInv
<1> SUFFICES ASSUME Init PROVE OutcomeInv
  OBVIOUS
<1>1. OutcomeIsPersisted
  BY DEF Init, OutcomeIsPersisted, Left, Positions
<1>2. \A e \in Node : DealtWith(e, Current(e)) /\ pc[e] # "executing"
  BY DEF Init, DealtWith
<1>3. QED
  BY <1>1, <1>2, EngineInvInit DEF OutcomeInv

(* Where every engine is at its first step, and idle or about to start, no  *)
(* step has been left.                                                      *)
LEMMA FreshOutcome ==
  ASSUME UNCHANGED flow, \A n \in Node : at'[n] = 1 /\ pc'[n] \in {"idle", "next"}
  PROVE  /\ OutcomeIsPersisted'
         /\ \A e \in Node : DealtWith(e, Current(e))'
         /\ \A x \in Node : pc'[x] = "executing" => Kind(x)' = "simple"
<1>1. ASSUME NEW e \in Node, NEW i \in Positions(e) PROVE ~Left(e, i)'
  BY <1>1 DEF Left, Positions
<1>2. OutcomeIsPersisted'
  BY <1>1, FlowKeeps DEF OutcomeIsPersisted
<1>3. QED
  BY <1>2 DEF DealtWith

LEMMA SameOutcome ==
  ASSUME OutcomeInv, UNCHANGED <<flow, at, res, stored, cleaned>>,
         \A e \in Node : pc'[e] = pc[e] \/ pc'[e] = "next"
  PROVE  /\ OutcomeIsPersisted'
         /\ \A e \in Node : DealtWith(e, Current(e))'
         /\ \A x \in Node : pc'[x] = "executing" => Kind(x)' = "simple"
<1>0. /\ \A e : Positions(e)' = Positions(e) /\ Current(e)' = Current(e)
      /\ \A s : /\ Tracked(s)' <=> Tracked(s)
                /\ Unshared(s)' <=> Unshared(s)
                /\ StateOf(s)' = StateOf(s) /\ Kind(s)' = Kind(s) /\ (Fails(s)' <=> Fails(s))
  BY FlowKeeps DEF Current, Fails
<1>1. ASSUME NEW e \in Node, NEW i \in Positions(e), Left(e, i)'
      PROVE  Left(e, i)
  <2> DEFINE s == flow[e].steps[i]
  <2>1. CASE i < at[e]
    BY <2>1 DEF Left
  <2>2. CASE ~(i < at[e])
    BY <1>0, <1>1, <2>2 DEF Left, Fails
  <2>3. QED  BY <2>1, <2>2
<1>2. ASSUME NEW s, Recorded(s) PROVE Recorded(s)'
  BY <1>0, <1>2 DEF Recorded
<1>3. OutcomeIsPersisted'
  <2>1. SUFFICES ASSUME NEW e \in Node, NEW i \in Positions(e), Left(e, i)',
                        Tracked(flow[e].steps[i]), Unshared(flow[e].steps[i])
                 PROVE  Recorded(flow[e].steps[i])'
    BY <1>0 DEF OutcomeIsPersisted
  <2>2. Recorded(flow[e].steps[i])
    BY <1>1, <2>1 DEF OutcomeInv, OutcomeIsPersisted
  <2>3. QED
    BY <1>2, <2>2
<1>4. ASSUME NEW e \in Node PROVE DealtWith(e, Current(e))'
  <2>1. PICK s : s = Current(e)
    OBVIOUS
  <2>2. DealtWith(e, s)
    BY <2>1 DEF OutcomeInv
  <2>3. DealtWith(e, s)'
    BY <1>0, <2>2 DEF DealtWith
  <2>4. QED
    BY <1>0, <2>1, <2>3
<1>5. QED
  BY <1>0, <1>3, <1>4 DEF OutcomeInv

LEMMA OutcomeStep == OutcomeInv /\ SeparateStates /\ [Next]_vars => OutcomeInv'
<1> SUFFICES ASSUME OutcomeInv, SeparateStates, [Next]_vars PROVE OutcomeInv'
  OBVIOUS
<1>0. TypeInv /\ StructuredConcurrency /\ UNCHANGED flow
  BY EngineInvParts DEF OutcomeInv, Next, vars
<1>1. EngineInv'
  BY EngineInvParts, TypeStep, StructureStep, ParallelStep, SuccessStep, PastStep
     DEF OutcomeInv, EngineInv, TypeInv, ParallelInv, SuccessInv
<1>2. SUFFICES /\ OutcomeIsPersisted'
               /\ \A e \in Node : DealtWith(e, Current(e))'
               /\ \A x \in Node : pc'[x] = "executing" => Kind(x)' = "simple"
  BY <1>1 DEF OutcomeInv
<1>3. CASE \E n \in Node : NodeStep(n)
  BY <1>0, <1>3, OutcomeNodeStep
<1>4. CASE UNCHANGED <<pc, at, res, stored, cleaned>>
  BY <1>0, <1>4, SameOutcome
<1>5. CASE Start
  <2>1. /\ UNCHANGED <<at, res, stored, cleaned>>
        /\ \A e \in Node : pc'[e] = pc[e] \/ pc'[e] = "next"
    BY <1>0, <1>5 DEF Start, Goto, TypeInv, TypeOK
  <2>2. QED
    BY <1>0, <2>1, SameOutcome
<1>6. CASE Respond
  <2>1. \A s \in Step : pc[s] = "idle"
    BY <1>0, <1>6, NothingLeftBehind DEF Respond, TypeInv
  <2>2. \A n \in Node : at'[n] = 1 /\ pc'[n] \in {"idle", "next"}
    BY <1>0, <1>6, <2>1 DEF Respond, Goto, TypeInv, TypeOK, Node
  <2>3. QED
    BY <1>0, <2>2, FreshOutcome
<1>7. CASE Crash
  BY <1>0, <1>7, FreshOutcome DEF Crash
<1>8. QED
  BY <1>3, <1>4, <1>5, <1>6, <1>7 DEF Next, Lapse, vars

LEMMA OutcomeInvariant == Spec /\ SeparateStates => [](OutcomeInv /\ SeparateStates)
<1>1. Init => OutcomeInv
  BY OutcomeInit
<1>2. OutcomeInv /\ SeparateStates /\ [Next]_vars => (OutcomeInv /\ SeparateStates)'
  <2>1. [Next]_vars => UNCHANGED flow
    BY DEF Next, vars
  <2>2. QED
    BY <2>1, OutcomeStep, FlowKeeps
<1>3. QED
  BY <1>1, <1>2, PTL DEF Spec

(* In every flow whose steps do not share their states, whichever way an    *)
(* engine leaves a step, going on, finishing or stopping, at any depth and  *)
(* while other branches run, the keeper holds what the step returned and    *)
(* OnFail has been called if it failed, with any faults of the keeper and   *)
(* any crashes (step_engine.go:288-366).                                    *)
THEOREM OutcomesPersist == Spec /\ SeparateStates => []OutcomeIsPersisted
<1>1. OutcomeInv => OutcomeIsPersisted
  BY DEF OutcomeInv
<1>2. QED
  BY <1>1, OutcomeInvariant, PTL

--------------------------------------------------------------------------------
(* What an engine has got past is persisted as successful, or has failed.   *)

(* The engine has no reason to pass over s.                                 *)
Due(s) == Tracked(s) /\ Unshared(s) /\ ~Has(s, "predicate") /\ ~Has(s, "throttled")

Over(s) == stored[StateOf(s)] = "succeeded" \/ IsError(res[s])

LEMMA DueKept == ASSUME UNCHANGED flow, NEW s PROVE Due(s)' <=> Due(s)
BY FlowKeeps DEF Due, Has

(* The engine goes on to the next step.                                     *)
LEMMA PassesOver ==
  ASSUME OutcomeInv, UNCHANGED flow, NEW e \in Node, EngineStep(e),
         at[e] \in Positions(e), NEW s \in Step, s = Current(e), at'[e] # at[e], Due(s)
  PROVE  Over(s)'
<1>0. /\ TypeInv /\ DealtWith(e, s) /\ at \in [Node -> Nat \ {0}]
      /\ StateOf(s)' = StateOf(s)
  BY EngineInvParts, FlowKeeps DEF OutcomeInv, TypeInv, TypeOK
<1>1. CASE Consider(e)
  <2>1. Skip(e) /\ UNCHANGED stored /\ \E seen \in Reading(s) : ShouldSkip(s, seen)
    BY <1>1 DEF Consider, Panic, Goto
  <2>2. stored[StateOf(s)] = "succeeded"
    BY <2>1 DEF Reading, ShouldSkip, Due
  <2>3. QED
    BY <1>0, <2>1, <2>2 DEF Over
<1>2. CASE Predicates(e) \/ Throttle(e)
  BY <1>2 DEF Predicates, Throttle, Panic, Goto, Return, Due
<1>3. CASE Resume(e) \/ Callback(e)
  <2>1. IsError(res[s]) /\ res'[s] = res[s]
    BY <1>0, <1>3 DEF Resume, Callback, Return, IsExpected, IsError, DealtWith, Fails
  <2>2. QED
    BY <2>1 DEF Over
<1>4. CASE Complete(e)
  <2>1. stored[StateOf(s)] = "succeeded" /\ UNCHANGED stored
    BY <1>0, <1>4 DEF Complete, Panic, DealtWith, Due
  <2>2. QED
    BY <1>0, <2>1 DEF Over
<1>5. QED
  BY <1>1, <1>2, <1>3, <1>4
     DEF EngineStep, EngineDone, Launch, Failed, Confirm, Record, Panic, Call, Return, Goto

LEMMA OverNodeStep ==
  ASSUME OutcomeInv, SeparateStates, NothingIsPassedOver, UNCHANGED flow,
         NEW n \in Node, NodeStep(n)
  PROVE  NothingIsPassedOver'
<1>0. /\ TypeInv /\ SuccessInv /\ StructuredConcurrency /\ ParallelInv
      /\ at \in [Node -> Nat \ {0}] /\ \A e : Positions(e)' = Positions(e)
  BY EngineInvParts, FlowKeeps DEF OutcomeInv, TypeInv, TypeOK
<1>1. SUFFICES ASSUME NEW e \in Node, NEW i \in Positions(e), i < at'[e],
                      NEW s, s = flow[e].steps[i], Due(s)
               PROVE  Over(s)'
  BY <1>0, DueKept DEF NothingIsPassedOver, Due, Over
<1>2. s \in Step /\ i \in Nat
  BY <1>0, <1>1, FlowIsWellFormed DEF Positions, TypeInv, TypeOK
<1>3. CASE i < at[e]
  <2>1. Over(s) /\ pc[s] = "idle"
    BY <1>0, <1>1, <1>3, QuietIsIdle DEF NothingIsPassedOver, Due, Over
  <2>2. res'[s] = res[s] /\ stored'[StateOf(s)] = stored[StateOf(s)]
    BY <1>0, <1>1, <1>2, <1>3, <2>1, Untouched DEF Due
  <2>3. QED
    BY <2>1, <2>2, FlowKeeps DEF Over
<1>4. CASE ~(i < at[e])
  <2>1. n = e /\ EngineStep(e)
    BY <1>0, <1>1, <1>4, EngineCounters, BodyCounters DEF NodeStep
  <2>2. i = at[e]
    BY <1>0, <1>1, <1>2, <1>4, <2>1, AdvancesByOne
  <2>3. QED
    BY <1>1, <1>2, <1>4, <2>1, <2>2, PassesOver DEF Current
<1>5. QED
  BY <1>3, <1>4

LEMMA OverStep ==
  OutcomeInv /\ SeparateStates /\ NothingIsPassedOver /\ [Next]_vars => NothingIsPassedOver'
<1> SUFFICES ASSUME OutcomeInv, SeparateStates, NothingIsPassedOver, [Next]_vars
             PROVE  NothingIsPassedOver'
  OBVIOUS
<1>1. UNCHANGED flow /\ \A e : Positions(e)' = Positions(e)
  BY FlowKeeps DEF Next, vars
<1>2. CASE \E n \in Node : NodeStep(n)
  BY <1>1, <1>2, OverNodeStep
<1>3. CASE UNCHANGED <<at, res, stored>>
  <2>1. SUFFICES ASSUME NEW e \in Node, NEW i \in Positions(e), i < at[e],
                        NEW s, s = flow[e].steps[i], Due(s)
                 PROVE  Over(s)'
    BY <1>1, <1>3, DueKept DEF NothingIsPassedOver, Due, Over
  <2>2. Over(s)
    BY <2>1 DEF NothingIsPassedOver, Due, Over
  <2>3. QED
    BY <1>1, <1>3, <2>2, FlowKeeps DEF Over
<1>4. CASE \A n \in Node : at'[n] = 1
  BY <1>1, <1>4 DEF NothingIsPassedOver, Positions
<1>5. QED
  BY <1>2, <1>3, <1>4 DEF Next, Start, Respond, Lapse, Crash, vars

(* In every flow whose steps do not share their states, at any depth and    *)
(* whatever the keeper's faults and the crashes, no engine gets past a step *)
(* that neither its predicates nor its throttling held back, unless the     *)
(* step's success is persisted or the step has just failed                  *)
(* (step_engine.go:226-366).                                                *)
THEOREM NothingPassedOver == Spec /\ SeparateStates => []NothingIsPassedOver
<1>1. Init => NothingIsPassedOver
  BY DEF Init, NothingIsPassedOver, Positions
<1>2. QED
  BY <1>1, OutcomeInvariant, OverStep, PTL DEF Spec

================================================================================
