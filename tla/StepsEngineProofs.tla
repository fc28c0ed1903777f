--------------------------- MODULE StepsEngineProofs ---------------------------
(***************************************************************************)
(* EngineInv is an invariant of StepsEngine, for every set of steps, every *)
(* set of well-formed flows and every combination of faults.               *)
(***************************************************************************)
EXTENDS EngineProperties, TLAPS

--------------------------------------------------------------------------------
(* Facts about flows.                                                       *)

(* The flow a behaviour runs is well formed.                                *)
LEMMA FlowIsWellFormed ==
  ASSUME flow \in Flows
  PROVE  /\ WellFormed(flow)
         /\ \A n \in Node : flow[n] \in NodeConfig
         /\ \A n \in Node : flow[n].steps \in Seq(Step)
<1>1. WellFormed(flow)
  BY FlowAssumption
<1>2. \A n \in Node : flow[n] \in NodeConfig
  BY <1>1 DEF WellFormed
<1>3. QED
  BY <1>1, <1>2 DEF NodeConfig

(* What is nested in a node is a step, and not the node itself.             *)
LEMMA NestedIsBelow ==
  ASSUME flow \in Flows, NEW n \in Node, NEW s \in Nested(n)
  PROVE  s \in Step /\ s # n
<1>1. PICK i \in Positions(n) : s = flow[n].steps[i]
  BY DEF Nested
<1>2. s \in Step
  BY <1>1, FlowIsWellFormed DEF Positions
<1>3. s # n
  <2>1. ASSUME s = n PROVE FALSE
    <3>1. {s} \in SUBSET Step /\ {s} # {}
      BY <1>2
    <3>2. \E t \in {s} : \A p \in {s} : \A j \in 1..Len(flow[p].steps) : flow[p].steps[j] # t
      BY <3>1, FlowIsWellFormed DEF WellFormed
    <3>3. QED  BY <3>2, <2>1, <1>1 DEF Positions
  <2>2. QED  BY <2>1
<1>4. QED  BY <1>2, <1>3

(* A step is nested in one node.                                            *)
LEMMA OneParent ==
  ASSUME flow \in Flows, NEW m \in Node, NEW n \in Node, NEW s,
         s \in Nested(m), s \in Nested(n)
  PROVE  m = n
BY FlowIsWellFormed DEF WellFormed, Nested, Positions

(* Every set of steps has one that no step of the set contains.             *)
LEMMA Topmost ==
  ASSUME flow \in Flows, NEW S \in SUBSET Step, S # {}
  PROVE  \E s \in S : \A p \in S : s \notin Nested(p)
<1>1. PICK s \in S : \A p \in S : \A i \in 1..Len(flow[p].steps) : flow[p].steps[i] # s
  BY FlowIsWellFormed DEF WellFormed
<1>2. QED  BY <1>1 DEF Nested, Positions

(* The current step of an engine that has one.                              *)
LEMMA CurrentIsNested ==
  ASSUME flow \in Flows, NEW e \in Node, at[e] \in Positions(e)
  PROVE  Current(e) \in Nested(e) /\ Current(e) \in Step /\ Current(e) # e
<1>1. Current(e) \in Nested(e)
  BY DEF Current, Nested
<1>2. QED  BY <1>1, NestedIsBelow

--------------------------------------------------------------------------------
(* Type correctness, with what it needs of the program counters.            *)

TypeInv == TypeOK /\ \A e \in Node : pc[e] \in InStep => at[e] \in Positions(e)

LEMMA PlainResults ==
  \A b \in Bases : Plainly(b) \in Result /\ Wrap(Plainly(b)) \in Result
BY DEF Plainly, Wrap, Result

LEMMA EntryIsLabel == \A s : Entry(s) \in {"executing", "forking", "next"}
BY DEF Entry

LEMMA EntryNotInStep ==
  \A s : Entry(s) \in PCs \ InStep
BY EntryIsLabel DEF PCs, InStep

LEMMA TypeInit == Init => TypeInv
<1> SUFFICES ASSUME Init PROVE TypeInv
  OBVIOUS
<1>1. Plainly("unset") \in Result
  BY PlainResults DEF Bases
<1>2. res \in [Node -> Result]
  BY <1>1 DEF Init
<1>3. pc \in [Node -> PCs] /\ \A e \in Node : pc[e] \notin InStep
  BY DEF Init, PCs, InStep
<1>4. at \in [Node -> Nat \ {0}]
  BY DEF Init
<1>5. stored \in [StateName -> Statuses] /\ window \in [Key -> Windows]
  BY DEF Init, Statuses, Windows
<1>6. QED
  BY <1>2, <1>3, <1>4, <1>5 DEF Init, TypeInv, TypeOK

(* How the moves of an engine keep the part of TypeInv about pc, at and res. *)
Placed ==
  /\ pc \in [Node -> PCs]
  /\ at \in [Node -> Nat \ {0}]
  /\ \A e \in Node : pc[e] \in InStep => at[e] \in Positions(e)

LEMMA AdvanceType ==
  ASSUME TypeInv, NEW e \in Node, Advance(e), UNCHANGED flow
  PROVE  Placed'
BY DEF TypeInv, TypeOK, Advance, Placed, PCs, InStep, Positions

LEMMA SkipType ==
  ASSUME TypeInv, NEW e \in Node, Skip(e), UNCHANGED flow
  PROVE  Placed' /\ res' \in [Node -> Result]
<1>1. Plainly("skipped") \in Result
  BY PlainResults DEF Bases
<1>2. QED
  BY <1>1, AdvanceType DEF Skip, TypeInv, TypeOK

LEMMA ReturnType ==
  ASSUME TypeInv, NEW n \in Node, NEW r \in Result, Return(n, r), UNCHANGED flow
  PROVE  Placed' /\ res' \in [Node -> Result]
BY DEF TypeInv, TypeOK, Return, Placed, PCs, InStep, Positions

LEMMA GotoType ==
  ASSUME TypeInv, NEW n \in Node, NEW label \in PCs, Goto(n, label), UNCHANGED <<flow, at>>,
         label \in InStep => at[n] \in Positions(n)
  PROVE  Placed'
BY DEF TypeInv, TypeOK, Goto, Placed, PCs, InStep, Positions

LEMMA TypeStep == TypeInv /\ [Next]_vars => TypeInv'
<1> SUFFICES ASSUME TypeInv, [Next]_vars PROVE TypeInv'
  OBVIOUS
<1> USE DEF TypeInv
<1>a. ASSUME UNCHANGED vars PROVE TypeInv'
  BY <1>a DEF vars, TypeOK, Positions
<1>b. ASSUME NEW e \in Node, EngineStep(e), UNCHANGED flow PROVE TypeInv'
  <2>0. pc[e] \in InStep => Current(e) \in Step
    BY CurrentIsNested DEF TypeOK
  <2>1. CASE EngineDone(e)
    BY <2>1, <1>b, PlainResults DEF EngineDone, Return, TypeOK, PCs, Bases, InStep, Positions
  <2>2. CASE Consider(e)
    <3>1. generated' \subseteq Step
      BY <2>2 DEF Consider, GeneratedWith, TypeOK
    <3>2. CASE Panic
      BY <3>1, <3>2, <1>b DEF Panic, TypeOK, Positions
    <3>3. CASE Skip(e) /\ UNCHANGED <<stored, window, cleaned, panicked>>
      BY <3>1, <3>3, <1>b, SkipType DEF Placed, TypeOK
    <3>4. CASE Goto(e, "predicates") /\ UNCHANGED <<at, res, stored, window, cleaned, panicked>>
      BY <3>1, <3>4, <2>2, <1>b, GotoType DEF Consider, Placed, TypeOK, PCs
    <3>5. QED
      BY <2>2, <3>2, <3>3, <3>4 DEF Consider
  <2>3. CASE Predicates(e)
    <3>1. CASE Goto(e, "throttle") /\ UNCHANGED <<at, res>>
      BY <3>1, <2>3, <1>b, GotoType DEF Predicates, Placed, TypeOK, PCs, InStep
    <3>2. CASE Return(e, Plainly("aborted"))
      BY <3>2, <2>3, <1>b, ReturnType, PlainResults DEF Predicates, Placed, TypeOK, Bases
    <3>3. CASE Skip(e)
      BY <3>3, <2>3, <1>b, SkipType DEF Predicates, Placed, TypeOK
    <3>4. QED
      BY <2>3, <3>1, <3>2, <3>3 DEF Predicates
  <2>4. CASE Throttle(e)
    <3>1. window' \in [Key -> Windows]
      BY <2>4 DEF Throttle, Panic, ShouldRun, TypeOK, Windows
    <3>2. CASE Goto(e, "launch") /\ UNCHANGED <<at, res>>
      BY <3>1, <3>2, <2>4, <1>b, GotoType DEF Throttle, Panic, Placed, TypeOK, PCs, InStep
    <3>3. CASE Skip(e)
      BY <3>1, <3>3, <2>4, <1>b, SkipType DEF Throttle, Panic, Placed, TypeOK
    <3>4. CASE Panic
      BY <3>4, <2>4, <1>b DEF Panic, Throttle, TypeOK, Positions
    <3>5. QED
      BY <2>4, <3>2, <3>3, <3>4 DEF Throttle
  <2>5. CASE Launch(e)
    BY <2>5, <1>b, PlainResults, EntryNotInStep
       DEF Launch, Panic, Call, Write, WriteFails, Return, TypeOK, PCs, Bases, Statuses, InStep, Positions
  <2>6. CASE Resume(e)
    <3>1. at[e] \in Positions(e) /\ Current(e) \in Node
      BY <2>6, <2>0 DEF Resume, InStep, Node
    <3>2. pc' \in [Node -> PCs] /\ at' \in [Node -> Nat \ {0}]
      BY <2>6, <3>1 DEF Resume, TypeOK, PCs
    <3>3. ASSUME NEW x \in Node, pc'[x] \in InStep PROVE at'[x] \in Positions(x)'
      <4>1. CASE x = e
        BY <4>1, <3>1, <3>3, <2>6, <1>b DEF Resume, TypeOK, Positions, InStep
      <4>2. CASE x # e
        BY <4>2, <3>3, <2>6, <1>b DEF Resume, TypeOK, Positions, InStep
      <4>3. QED  BY <4>1, <4>2
    <3>4. QED
      BY <2>6, <3>2, <3>3, <1>b DEF Resume, TypeOK
  <2>7. CASE Failed(e)
    BY <2>7, <1>b, PlainResults
       DEF Failed, Write, WriteFails, Return, Goto, TypeOK, PCs, Bases, Statuses, InStep, Positions
  <2>8. CASE Callback(e)
    <3>1. Current(e) \in Step
      BY <2>8, <2>0 DEF Callback, InStep
    <3>2. Wrap(res[Current(e)]) \in Result
      BY <3>1 DEF TypeOK, Wrap, Result, Node
    <3>3. CASE Advance(e) /\ UNCHANGED res
      BY <3>3, <3>1, <2>8, <1>b, AdvanceType DEF Callback, Placed, TypeOK
    <3>4. CASE Return(e, Wrap(res[Current(e)]))
      BY <3>4, <3>1, <3>2, <2>8, <1>b, ReturnType DEF Callback, Placed, TypeOK
    <3>5. QED
      BY <2>8, <3>3, <3>4 DEF Callback
  <2>9. CASE Confirm(e)
    BY <2>9, <1>b DEF Confirm, Goto, TypeOK, PCs, InStep, Positions
  <2>10. CASE Record(e)
    BY <2>10, <1>b, PlainResults
       DEF Record, Write, WriteFails, Return, Goto, TypeOK, PCs, Bases, Statuses, InStep, Positions
  <2>11. CASE Complete(e)
    <3>1. CASE Return(e, Plainly("nil")) /\ UNCHANGED <<stored, window, cleaned, panicked>>
      BY <3>1, <2>11, <1>b, ReturnType, PlainResults DEF Complete, Placed, TypeOK, Bases
    <3>2. CASE Panic
      BY <3>2, <2>11, <1>b DEF Complete, Panic, TypeOK, Positions
    <3>3. CASE Advance(e) /\ UNCHANGED <<res, stored, cleaned, panicked>>
      <4>1. window' \in [Key -> Windows]
        BY <2>11, <3>3 DEF Complete, Panic, TypeOK, Windows
      <4>2. QED
        BY <4>1, <3>3, <2>11, <1>b, AdvanceType DEF Complete, Placed, TypeOK
    <3>4. QED
      BY <2>11, <3>1, <3>2, <3>3 DEF Complete
  <2>12. QED
    BY <1>b, <2>1, <2>2, <2>3, <2>4, <2>5, <2>6, <2>7, <2>8, <2>9, <2>10, <2>11 DEF EngineStep
<1>c. ASSUME NEW s \in Step, StepStep(s), UNCHANGED flow PROVE TypeInv'
  <2>0. s \in Node
    BY DEF Node
  <2>1. CASE FunctionReturns(s)
    <3>1. PICK o \in Outcomes : Return(s, Plainly(o))
      BY <2>1 DEF FunctionReturns
    <3>2. Plainly(o) \in Result
      BY PlainResults, OutcomeAssumption DEF Bases
    <3>3. QED
      BY <2>0, <2>1, <3>1, <3>2, <1>c, ReturnType DEF FunctionReturns, Placed, TypeOK
  <2>2. CASE Fork(s)
    BY <2>2, <2>0, <1>c, PlainResults DEF Fork, Return, TypeOK, PCs, Bases, InStep, Positions
  <2>3. CASE Goroutine(s)
    BY <2>3, <2>0, <1>c, PlainResults, EntryNotInStep
       DEF Goroutine, Goto, Return, TypeOK, PCs, Bases, InStep, Positions
  <2>4. CASE Join(s)
    BY <2>4, <2>0, <1>c, PlainResults DEF Join, TypeOK, PCs, Bases, InStep, Positions
  <2>5. QED
    BY <1>c, <2>1, <2>2, <2>3, <2>4 DEF StepStep
<1>d. ASSUME Start \/ Respond, UNCHANGED flow PROVE TypeInv'
  BY <1>d, PlainResults DEF Start, Respond, Goto, TypeOK, PCs, Bases, InStep, Positions
<1>e. ASSUME NEW k \in Key, Lapse(k), UNCHANGED flow PROVE TypeInv'
  BY <1>e DEF Lapse, TypeOK, Windows, Positions
<1>f. ASSUME Crash, UNCHANGED flow PROVE TypeInv'
  <2>1. res' \in [Node -> Result]
    BY <1>f, PlainResults DEF Crash, Bases
  <2>2. pc' \in [Node -> PCs] /\ \A e \in Node : pc'[e] \notin InStep
    BY <1>f DEF Crash, PCs, InStep
  <2>3. at' \in [Node -> Nat \ {0}] /\ window' \in [Key -> Windows]
    BY <1>f DEF Crash, Windows
  <2>4. QED
    BY <2>1, <2>2, <2>3, <1>f DEF Crash, TypeOK
<1>g. QED
  BY <1>a, <1>b, <1>c, <1>d, <1>e, <1>f DEF Next, NodeStep

--------------------------------------------------------------------------------
(* Structure: what an active step says about the nodes around it.           *)

(* One position of one node holds a step.                                   *)
LEMMA OnePosition ==
  ASSUME flow \in Flows, NEW m \in Node, NEW n \in Node,
         NEW i \in Positions(m), NEW j \in Positions(n),
         flow[m].steps[i] = flow[n].steps[j]
  PROVE  m = n /\ i = j
BY FlowIsWellFormed DEF WellFormed, Positions

(* The steps of a node that waits for none of them are idle.                *)
LEMMA ChildIdle ==
  ASSUME TypeOK, StructuredConcurrency, NEW e \in Node, NEW s \in Nested(e), ~WaitsFor(e, s)
  PROVE  pc[s] = "idle"
<1>1. flow \in Flows
  BY DEF TypeOK
<1>2. SUFFICES ASSUME pc[s] # "idle" PROVE FALSE
  OBVIOUS
<1>3. s \in Step
  BY <1>1, NestedIsBelow
<1>4. PICK p \in Node : WaitsFor(p, s)
  BY <1>2, <1>3 DEF StructuredConcurrency
<1>5. p = e
  BY <1>1, <1>4, OneParent DEF WaitsFor
<1>6. QED
  BY <1>4, <1>5

(* n, which waits for nobody, moves by itself.                              *)
Moves(n) ==
  /\ pc[n] \notin {"wait", "collecting"}
  /\ n # Root => pc[n] # "idle"
  /\ \A x \in Node : x # n => pc'[x] = pc[x] /\ at'[x] = at[x]
  /\ UNCHANGED flow

LEMMA MovesKeepStructure ==
  ASSUME StructuredConcurrency, NEW n \in Node, Moves(n)
  PROVE  StructuredConcurrency'
<1> SUFFICES ASSUME NEW s \in Step, pc'[s] # "idle"
             PROVE  \E p \in Node : WaitsFor(p, s)'
  BY DEF StructuredConcurrency
<1>1. pc[s] # "idle"
  BY RootAssumption DEF Moves, Node
<1>2. PICK p \in Node : WaitsFor(p, s)
  BY <1>1 DEF StructuredConcurrency
<1>3. p # n
  BY <1>2 DEF WaitsFor, Moves
<1>4. WaitsFor(p, s)'
  BY <1>2, <1>3 DEF WaitsFor, Moves, Nested, Positions, Current
<1>5. QED
  BY <1>4

(* The steps by which a node moves by itself.                               *)
LEMMA EngineMoves ==
  ASSUME TypeInv, NEW e \in Node, UNCHANGED flow,
         EngineStep(e), ~Resume(e), Launch(e) => UNCHANGED pc \/ pc' = [pc EXCEPT ![e] = "returned"]
  PROVE  Moves(e)
<1> USE DEF TypeInv, TypeOK, Moves
<1>1. CASE EngineDone(e)
  BY <1>1 DEF EngineDone, Return
<1>2. CASE Consider(e)
  BY <1>2 DEF Consider, Panic, Skip, Advance, Goto
<1>3. CASE Predicates(e)
  BY <1>3 DEF Predicates, Skip, Advance, Goto, Return
<1>4. CASE Throttle(e)
  BY <1>4 DEF Throttle, Panic, Skip, Advance, Goto
<1>5. CASE Launch(e)
  <2>1. at' = at
    BY <1>5 DEF Launch, Panic, Call, Return
  <2>2. QED
    BY <1>5, <2>1 DEF Launch
<1>6. CASE Failed(e)
  BY <1>6 DEF Failed, Goto, Return
<1>7. CASE Callback(e)
  BY <1>7 DEF Callback, Advance, Return
<1>8. CASE Confirm(e)
  BY <1>8 DEF Confirm, Goto
<1>9. CASE Record(e)
  BY <1>9 DEF Record, Goto, Return
<1>10. CASE Complete(e)
  BY <1>10 DEF Complete, Advance, Return, Panic
<1>11. QED
  BY <1>1, <1>2, <1>3, <1>4, <1>5, <1>6, <1>7, <1>8, <1>9, <1>10 DEF EngineStep

LEMMA BodyMoves ==
  ASSUME TypeInv, NEW s \in Step, UNCHANGED flow,
         \/ FunctionReturns(s)
         \/ Goroutine(s)
         \/ Fork(s) /\ Invalid(s)
  PROVE  Moves(s)
BY DEF TypeInv, TypeOK, Moves, FunctionReturns, Goroutine, Fork, Goto, Return, Node

(* When the run has returned, so has everything it started.                 *)
LEMMA NothingLeftBehind ==
  ASSUME TypeOK, StructuredConcurrency, pc[Root] \notin {"wait", "collecting"}
  PROVE  \A s \in Step : pc[s] = "idle"
<1> DEFINE Active == {s \in Step : pc[s] # "idle"}
<1>1. SUFFICES ASSUME Active # {} PROVE FALSE
  OBVIOUS
<1>2. PICK s \in Active : \A p \in Active : s \notin Nested(p)
  BY <1>1, Topmost DEF TypeOK
<1>3. PICK p \in Node : WaitsFor(p, s)
  BY <1>2 DEF StructuredConcurrency
<1>4. p = Root
  BY <1>2, <1>3 DEF WaitsFor, Node
<1>5. QED
  BY <1>3, <1>4 DEF WaitsFor

LEMMA StructureStep ==
  TypeInv /\ StructuredConcurrency /\ [Next]_vars => StructuredConcurrency'
<1> SUFFICES ASSUME TypeInv, StructuredConcurrency, [Next]_vars
             PROVE  StructuredConcurrency'
  OBVIOUS
<1> USE DEF TypeInv
<1>0. flow \in Flows /\ pc \in [Node -> PCs] /\ Step \subseteq Node /\ Root \notin Step
  BY RootAssumption DEF TypeOK, Node
<1>u. ASSUME UNCHANGED <<flow, pc, at>> PROVE StructuredConcurrency'
  BY <1>u DEF StructuredConcurrency, WaitsFor, Nested, Positions, Current
<1>i. ASSUME UNCHANGED flow, pc' = [n \in Node |-> "idle"] PROVE StructuredConcurrency'
  BY <1>i, <1>0 DEF StructuredConcurrency
<1>b. ASSUME NEW e \in Node, EngineStep(e), UNCHANGED flow PROVE StructuredConcurrency'
  <2>1. CASE ~Resume(e) /\ (Launch(e) => UNCHANGED pc \/ pc' = [pc EXCEPT ![e] = "returned"])
    BY <2>1, <1>b, EngineMoves, MovesKeepStructure
  <2>2. CASE Launch(e) /\ Call(e, Current(e))
    <3> DEFINE s == Current(e)
    <3>1. pc[e] = "launch" /\ pc' = [pc EXCEPT ![e] = "wait", ![s] = Entry(s)] /\ at' = at
      BY <2>2 DEF Launch, Call
    <3>2. at[e] \in Positions(e)
      BY <3>1 DEF InStep
    <3>3. s \in Nested(e) /\ s \in Step /\ s # e
      BY <3>2, <1>0, CurrentIsNested
    <3>4. pc[s] = "idle"
      BY <3>1, <3>3, ChildIdle DEF WaitsFor
    <3>5. SUFFICES ASSUME NEW x \in Step, pc'[x] # "idle"
                   PROVE  \E p \in Node : WaitsFor(p, x)'
      BY DEF StructuredConcurrency
    <3>6. CASE x = s
      BY <3>6, <3>1, <3>2, <3>3, <1>0, <1>b DEF WaitsFor, Nested, Positions, Current
    <3>7. CASE x # s
      <4>1. pc[x] # "idle"
        BY <3>7, <3>5, <3>1, <1>0
      <4>2. PICK p \in Node : WaitsFor(p, x)
        BY <4>1 DEF StructuredConcurrency
      <4>3. p # e /\ p # s
        BY <4>2, <3>1, <3>4 DEF WaitsFor
      <4>4. pc'[p] = pc[p]
        BY <4>3, <3>1, <1>0
      <4>5. QED
        BY <4>2, <4>4, <3>1, <1>b DEF WaitsFor, Nested, Positions, Current
    <3>8. QED  BY <3>6, <3>7
  <2>3. CASE Resume(e)
    <3> DEFINE s == Current(e)
    <3>1. pc[e] = "wait" /\ pc[s] = "returned" /\ pc'[s] = "idle"
          /\ \A x \in Node : x # e => at'[x] = at[x] /\ (x # s => pc'[x] = pc[x])
      BY <2>3, <1>0, CurrentIsNested DEF Resume, InStep, TypeOK
    <3>2. SUFFICES ASSUME NEW x \in Step, pc'[x] # "idle"
                   PROVE  \E p \in Node : WaitsFor(p, x)'
      BY DEF StructuredConcurrency
    <3>3. x # s
      BY <3>1, <3>2
    <3>4. pc[x] # "idle"
      BY <3>1, <3>2, <3>3, <1>0
    <3>5. PICK p \in Node : WaitsFor(p, x)
      BY <3>4 DEF StructuredConcurrency
    <3>6. p # e /\ p # s
      BY <3>5, <3>3, <3>1 DEF WaitsFor
    <3>7. QED
      BY <3>5, <3>6, <3>1, <1>b DEF WaitsFor, Nested, Positions, Current
  <2>4. QED
    BY <1>b, <2>1, <2>2, <2>3 DEF Launch, Panic, Return
<1>c. ASSUME NEW p \in Step, StepStep(p), UNCHANGED flow PROVE StructuredConcurrency'
  <2>1. CASE FunctionReturns(p) \/ Goroutine(p) \/ (Fork(p) /\ Invalid(p))
    BY <2>1, <1>c, BodyMoves, MovesKeepStructure, <1>0
  <2>2. CASE Fork(p) /\ ~Invalid(p)
    <3>1. /\ pc[p] = "forking" /\ at' = at
          /\ pc'[p] = "collecting"
          /\ \A x \in Node : x # p => pc'[x] = IF x \in Nested(p) THEN "spawned" ELSE pc[x]
      BY <2>2, <1>0, NestedIsBelow DEF Fork
    <3>2. SUFFICES ASSUME NEW x \in Step, pc'[x] # "idle"
                   PROVE  \E q \in Node : WaitsFor(q, x)'
      BY DEF StructuredConcurrency
    <3>3. CASE x \in Nested(p)
      BY <3>1, <3>3, <1>0, <1>c DEF WaitsFor, Nested, Positions
    <3>4. CASE x \notin Nested(p)
      <4>1. pc[x] # "idle"
        BY <3>1, <3>2, <3>4, <1>0
      <4>2. PICK q \in Node : WaitsFor(q, x)
        BY <4>1 DEF StructuredConcurrency
      <4>3. q # p
        BY <4>2, <3>1 DEF WaitsFor
      <4>4. q \notin Nested(p)
        <5>1. ASSUME q \in Nested(p) PROVE pc[q] = "idle"
          BY <5>1, <3>1, <1>0, ChildIdle DEF WaitsFor
        <5>2. QED  BY <5>1, <4>2 DEF WaitsFor
      <4>5. QED
        BY <4>2, <4>3, <4>4, <3>1, <1>c DEF WaitsFor, Nested, Positions, Current
    <3>5. QED  BY <3>3, <3>4
  <2>3. CASE Join(p)
    <3>1. /\ pc[p] = "collecting" /\ at' = at
          /\ \A c \in Nested(p) : pc[c] = "returned" /\ pc'[c] = "idle"
          /\ \A x \in Node : x # p => x \in Nested(p) \/ pc'[x] = pc[x]
      BY <2>3, <1>0, NestedIsBelow DEF Join
    <3>2. SUFFICES ASSUME NEW x \in Step, pc'[x] # "idle"
                   PROVE  \E q \in Node : WaitsFor(q, x)'
      BY DEF StructuredConcurrency
    <3>3. x \notin Nested(p)
      BY <3>1, <3>2
    <3>4. pc[x] # "idle"
      BY <3>1, <3>2, <3>3, <1>0
    <3>5. PICK q \in Node : WaitsFor(q, x)
      BY <3>4 DEF StructuredConcurrency
    <3>6. q # p /\ q \notin Nested(p)
      BY <3>5, <3>3, <3>1 DEF WaitsFor
    <3>7. QED
      BY <3>5, <3>6, <3>1, <1>c DEF WaitsFor, Nested, Positions, Current
  <2>4. QED
    BY <1>c, <2>1, <2>2, <2>3 DEF StepStep
<1>d. ASSUME Start, UNCHANGED flow PROVE StructuredConcurrency'
  <2>1. Moves(Root)
    BY <1>d, <1>0 DEF Start, Goto, Moves
  <2>2. QED
    BY <2>1, <1>0, MovesKeepStructure DEF Node
<1>e. ASSUME Respond, UNCHANGED flow PROVE StructuredConcurrency'
  <2>1. \A s \in Step : pc[s] = "idle"
    BY <1>e, NothingLeftBehind DEF Respond
  <2>2. \A s \in Step : pc'[s] = "idle"
    BY <1>e, <2>1, <1>0 DEF Respond, Goto
  <2>3. QED
    BY <2>2 DEF StructuredConcurrency
<1>f. QED
  BY <1>u, <1>i, <1>b, <1>c, <1>d, <1>e DEF Next, NodeStep, Lapse, Crash, vars

--------------------------------------------------------------------------------
(* Parallel steps fork and collect, and nothing else does.                  *)

ParallelInv ==
  /\ \A p \in Node : Kind(p) = "parallel" => at[p] = 1 /\ pc[p] \in ParallelPCs
  /\ \A p \in Node : pc[p] \in {"forking", "collecting"} => Kind(p) = "parallel"

LEMMA EntryOfParallel ==
  \A s : /\ Kind(s) = "parallel" => Entry(s) = "forking"
         /\ Kind(s) # "parallel" => Entry(s) \in {"executing", "next"}
BY DEF Entry

(* What the step of an engine does to the program counters.                 *)
LEMMA EngineCounters ==
  ASSUME TypeInv, NEW e \in Node, EngineStep(e), UNCHANGED flow
  PROVE  /\ pc[e] \in InStep \cup {"next"}
         /\ pc'[e] \in InStep \cup {"next", "returned"}
         /\ \A x \in Node : x # e =>
              /\ at'[x] = at[x]
              /\ pc'[x] \in {pc[x], Entry(x), "idle"}
<1> USE DEF TypeInv, TypeOK, InStep
<1>1. CASE EngineDone(e)
  BY <1>1 DEF EngineDone, Return
<1>2. CASE Consider(e)
  BY <1>2 DEF Consider, Panic, Skip, Advance, Goto
<1>3. CASE Predicates(e)
  BY <1>3 DEF Predicates, Skip, Advance, Goto, Return
<1>4. CASE Throttle(e)
  BY <1>4 DEF Throttle, Panic, Skip, Advance, Goto
<1>5. CASE Launch(e)
  <2>1. Current(e) \in Node /\ Current(e) # e
    BY <1>5, CurrentIsNested DEF Launch, Node
  <2>2. QED
    BY <1>5, <2>1 DEF Launch, Panic, Call, Return
<1>6. CASE Resume(e)
  <2>1. Current(e) \in Node /\ Current(e) # e
    BY <1>6, CurrentIsNested DEF Resume, Node
  <2>2. QED
    BY <1>6, <2>1 DEF Resume
<1>7. CASE Failed(e)
  BY <1>7 DEF Failed, Goto, Return
<1>8. CASE Callback(e)
  BY <1>8 DEF Callback, Advance, Return
<1>9. CASE Confirm(e)
  BY <1>9 DEF Confirm, Goto
<1>10. CASE Record(e)
  BY <1>10 DEF Record, Goto, Return
<1>11. CASE Complete(e)
  BY <1>11 DEF Complete, Advance, Return, Panic
<1>12. QED
  BY <1>1, <1>2, <1>3, <1>4, <1>5, <1>6, <1>7, <1>8, <1>9, <1>10, <1>11 DEF EngineStep

(* What the body of a step does to the program counters.                    *)
LEMMA BodyCounters ==
  ASSUME TypeInv, NEW s \in Step, StepStep(s), UNCHANGED flow
  PROVE  /\ at' = at
         /\ pc[s] \in {"executing", "forking", "spawned", "collecting"}
         /\ pc'[s] = "collecting" => pc[s] = "forking"
         /\ pc'[s] \in {"returned", "collecting", Entry(s)}
         /\ \A x \in Node : x # s => pc'[x] \in {pc[x], "spawned", "idle"}
<1> USE DEF TypeInv, TypeOK, Node
<1>1. CASE FunctionReturns(s)
  BY <1>1 DEF FunctionReturns, Return
<1>2. CASE Fork(s)
  BY <1>2, NestedIsBelow DEF Fork, Return
<1>3. CASE Goroutine(s)
  BY <1>3, EntryIsLabel DEF Goroutine, Goto, Return
<1>4. CASE Join(s)
  BY <1>4, NestedIsBelow DEF Join
<1>5. QED
  BY <1>1, <1>2, <1>3, <1>4 DEF StepStep

LEMMA ParallelStep ==
  TypeInv /\ ParallelInv /\ [Next]_vars => ParallelInv'
<1> SUFFICES ASSUME TypeInv, ParallelInv, [Next]_vars PROVE ParallelInv'
  OBVIOUS
<1>0. /\ pc \in [Node -> PCs] /\ at \in [Node -> Nat \ {0}]
      /\ Step \subseteq Node /\ Root \in Node
  BY DEF TypeInv, TypeOK, Node
<1>u. ASSUME UNCHANGED <<flow, pc, at>> PROVE ParallelInv'
  BY <1>u DEF ParallelInv, Kind
<1>b. ASSUME NEW e \in Node, EngineStep(e), UNCHANGED flow PROVE ParallelInv'
  <2>1. Kind(e) # "parallel"
    BY <1>b, EngineCounters DEF ParallelInv, ParallelPCs, InStep
  <2>2. QED
    BY <2>1, <1>b, EngineCounters, EntryOfParallel DEF ParallelInv, ParallelPCs, InStep, Kind
<1>c. ASSUME NEW s \in Step, StepStep(s), UNCHANGED flow PROVE ParallelInv'
  BY <1>0, <1>c, BodyCounters, EntryOfParallel DEF ParallelInv, ParallelPCs, Kind
<1>d. ASSUME Start \/ Respond, UNCHANGED flow PROVE ParallelInv'
  <2>1. Kind(Root) # "parallel"
    BY <1>0, FlowIsWellFormed DEF TypeInv, TypeOK, WellFormed, Kind
  <2>2. QED
    BY <2>1, <1>d, <1>0 DEF Start, Respond, Goto, ParallelInv, ParallelPCs, Kind
<1>e. ASSUME Crash, UNCHANGED flow PROVE ParallelInv'
  BY <1>e DEF Crash, ParallelInv, ParallelPCs, Kind
<1>f. QED
  BY <1>u, <1>b, <1>c, <1>d, <1>e DEF Next, NodeStep, Lapse, vars

--------------------------------------------------------------------------------
(* Results.  A step of n passes the current step of n, or changes at most   *)
(* the result of n itself.                                                  *)

SuccessInv == \A e \in Node : pc[e] \in InSuccess => ~IsError(res[Current(e)])

Passes(n) ==
  /\ at[n] \in Positions(n)
  /\ at' = [at EXCEPT ![n] = @ + 1]
  /\ \A m \in Node : m # Current(n) => res'[m] = res[m]
  /\ IsError(res'[Current(n)]) /\ ~IsExpected(res'[Current(n)]) => Has(Current(n), "continue")

Stays(n) ==
  /\ at' = at
  /\ n # Root => pc[n] # "idle"
  /\ \A m \in Node : m # n => res'[m] = res[m]

LEMMA SkipPasses ==
  ASSUME TypeInv, NEW e \in Node, Skip(e), at[e] \in Positions(e)
  PROVE  Passes(e)
<1>1. Current(e) \in Node
  BY CurrentIsNested DEF TypeInv, TypeOK, Node
<1>2. ~IsError(Plainly("skipped"))
  BY DEF IsError, Plainly
<1>3. QED
  BY <1>1, <1>2 DEF Skip, Advance, Passes, TypeInv, TypeOK

LEMMA EnginePassesOrStays ==
  ASSUME TypeInv, SuccessInv, NEW e \in Node, EngineStep(e), UNCHANGED flow
  PROVE  Passes(e) \/ Stays(e)
<1> USE DEF TypeInv, TypeOK, InStep
<1>1. CASE EngineDone(e)
  BY <1>1 DEF EngineDone, Return, Stays
<1>2. CASE Consider(e)
  <2>1. CASE Skip(e)
    BY <2>1, <1>2, SkipPasses DEF Consider
  <2>2. CASE UNCHANGED <<at, res>>
    BY <2>2, <1>2 DEF Consider, Stays
  <2>3. QED
    BY <1>2, <2>1, <2>2 DEF Consider, Panic
<1>3. CASE Predicates(e)
  <2>1. CASE Skip(e)
    BY <2>1, <1>3, SkipPasses DEF Predicates
  <2>2. CASE ~Skip(e)
    BY <2>2, <1>3 DEF Predicates, Return, Stays
  <2>3. QED
    BY <2>1, <2>2
<1>4. CASE Throttle(e)
  <2>1. CASE Skip(e)
    BY <2>1, <1>4, SkipPasses DEF Throttle
  <2>2. CASE UNCHANGED <<at, res>>
    BY <2>2, <1>4 DEF Throttle, Stays
  <2>3. QED
    BY <1>4, <2>1, <2>2 DEF Throttle, Panic
<1>5. CASE Launch(e)
  BY <1>5 DEF Launch, Panic, Call, Return, Stays
<1>6. CASE Resume(e)
  <2>1. CASE IsExpected(res[Current(e)])
    BY <2>1, <1>6 DEF Resume, Passes
  <2>2. CASE ~IsExpected(res[Current(e)])
    BY <2>2, <1>6 DEF Resume, Stays
  <2>3. QED
    BY <2>1, <2>2
<1>7. CASE Failed(e)
  BY <1>7 DEF Failed, Return, Stays
<1>8. CASE Callback(e)
  BY <1>8 DEF Callback, Advance, Return, Passes, Stays
<1>9. CASE Confirm(e)
  BY <1>9 DEF Confirm, Stays
<1>10. CASE Record(e)
  BY <1>10 DEF Record, Return, Stays
<1>11. CASE Complete(e)
  <2>1. CASE Advance(e) /\ UNCHANGED res
    BY <2>1, <1>11 DEF Complete, Advance, Passes, SuccessInv, InSuccess
  <2>2. CASE Panic
    BY <2>2, <1>11 DEF Complete, Panic, Stays
  <2>3. CASE Return(e, Plainly("nil"))
    BY <2>3, <1>11 DEF Complete, Return, Stays
  <2>4. QED
    BY <1>11, <2>1, <2>2, <2>3 DEF Complete
<1>12. QED
  BY <1>1, <1>2, <1>3, <1>4, <1>5, <1>6, <1>7, <1>8, <1>9, <1>10, <1>11 DEF EngineStep

LEMMA BodyStays ==
  ASSUME TypeInv, NEW s \in Step, StepStep(s)
  PROVE  Stays(s)
BY DEF TypeInv, TypeOK, Node, StepStep, FunctionReturns, Fork, Goroutine, Goto, Join, Return, Stays

(* The step an engine finds successful is idle, and nobody else moves it.   *)
LEMMA SuccessKept ==
  ASSUME TypeInv, StructuredConcurrency, SuccessInv, UNCHANGED flow,
         NEW n \in Node, Passes(n) \/ Stays(n),
         NEW x \in Node, x # n, pc[x] \in InSuccess
  PROVE  at'[x] = at[x] /\ Current(x)' = Current(x) /\ ~IsError(res'[Current(x)])
<1> USE DEF TypeInv, TypeOK
<1>1. at'[x] = at[x] /\ Current(x)' = Current(x)
  BY DEF Passes, Stays, Current
<1>2. at[x] \in Positions(x)
  BY DEF InSuccess, InStep
<1>3. Current(x) \in Nested(x) /\ Current(x) \in Step
  BY <1>2, CurrentIsNested
<1>4. CASE Stays(n)
  <2>1. pc[Current(x)] = "idle"
    BY <1>3, ChildIdle DEF InSuccess, WaitsFor
  <2>2. Current(x) # n
    BY <2>1, <1>3, <1>4, RootAssumption DEF Stays
  <2>3. QED
    BY <1>1, <1>3, <1>4, <2>2 DEF Stays, SuccessInv, Node
<1>5. CASE Passes(n)
  <2>1. Current(n) \in Nested(n)
    BY <1>5, CurrentIsNested DEF Passes
  <2>2. Current(x) # Current(n)
    BY <2>1, <1>3, OneParent
  <2>3. QED
    BY <1>1, <1>3, <1>5, <2>2 DEF Passes, SuccessInv, Node
<1>6. QED
  BY <1>4, <1>5

LEMMA SuccessStep ==
  TypeInv /\ StructuredConcurrency /\ SuccessInv /\ [Next]_vars => SuccessInv'
<1> SUFFICES ASSUME TypeInv, StructuredConcurrency, SuccessInv, [Next]_vars,
                    NEW x \in Node, pc'[x] \in InSuccess
             PROVE  ~IsError(res'[Current(x)'])
  BY DEF SuccessInv
<1>0. pc \in [Node -> PCs] /\ Step \subseteq Node /\ Root \in Node
  BY DEF TypeInv, TypeOK, Node
<1>u. ASSUME UNCHANGED <<flow, pc, at, res>> PROVE ~IsError(res'[Current(x)'])
  BY <1>u DEF SuccessInv, Current
<1>b. ASSUME NEW e \in Node, EngineStep(e), UNCHANGED flow PROVE ~IsError(res'[Current(x)'])
  <2>1. CASE x = e
    <3> USE DEF InSuccess
    <3>1. pc'[e] \in InSuccess
      BY <2>1
    <3>2. CASE Resume(e)
      BY <3>1, <3>2, <2>1, <1>0, <1>b, CurrentIsNested DEF TypeInv, TypeOK, InStep, Resume, Current
    <3>3. CASE Confirm(e)
      BY <3>3, <2>1, <1>b DEF Confirm, SuccessInv, Current
    <3>4. CASE Record(e)
      BY <3>1, <3>4, <2>1, <1>0, <1>b DEF Record, Return, SuccessInv, Current
    <3>5. CASE Complete(e)
      BY <3>1, <3>5, <2>1, <1>0, <1>b DEF Complete, Panic, Advance, Return, SuccessInv, Current
    <3>6. CASE Consider(e)
      BY <3>1, <3>6, <1>0 DEF Consider, Panic, Skip, Advance, Goto
    <3>7. CASE Launch(e)
      BY <3>1, <3>7, <1>0, <1>b, EntryIsLabel DEF Launch, Panic, Call, Return
    <3>8. CASE EngineDone(e) \/ Predicates(e) \/ Throttle(e) \/ Failed(e) \/ Callback(e)
      BY <3>1, <3>8, <1>0 DEF EngineDone, Predicates, Throttle, Panic, Failed, Callback,
                              Skip, Advance, Goto, Return
    <3>9. QED
      BY <1>b, <3>2, <3>3, <3>4, <3>5, <3>6, <3>7, <3>8 DEF EngineStep
  <2>2. CASE x # e
    <3>1. pc[x] \in InSuccess
      BY <2>2, <1>b, EngineCounters, EntryIsLabel DEF InSuccess
    <3>2. QED
      BY <3>1, <2>2, <1>b, EnginePassesOrStays, SuccessKept
  <2>3. QED
    BY <2>1, <2>2
<1>c. ASSUME NEW s \in Step, StepStep(s), UNCHANGED flow PROVE ~IsError(res'[Current(x)'])
  <2>1. x # s
    BY <1>c, BodyCounters, EntryIsLabel DEF InSuccess
  <2>2. pc[x] \in InSuccess
    BY <2>1, <1>c, BodyCounters DEF InSuccess
  <2>3. QED
    BY <2>1, <2>2, <1>c, <1>0, BodyStays, SuccessKept
<1>d. ASSUME Start, UNCHANGED flow PROVE ~IsError(res'[Current(x)'])
  <2>1. x # Root
    BY <1>d, <1>0 DEF Start, Goto, InSuccess
  <2>2. QED
    BY <1>d, <2>1, <1>0 DEF Start, Goto, SuccessInv, Current
<1>e. ASSUME Respond, UNCHANGED flow PROVE ~IsError(res'[Current(x)'])
  <2>1. \A y \in Step : pc[y] = "idle"
    BY <1>e, NothingLeftBehind DEF Respond, TypeInv
  <2>2. QED
    BY <2>1, <1>e, <1>0 DEF Respond, Goto, InSuccess, Node
<1>f. ASSUME Crash PROVE ~IsError(res'[Current(x)'])
  BY <1>f DEF Crash, InSuccess
<1>g. QED
  BY <1>u, <1>b, <1>c, <1>d, <1>e, <1>f DEF Next, NodeStep, Lapse, vars

--------------------------------------------------------------------------------
(* A failure stays behind an engine only where the step may continue.       *)

LEMMA StaysKeepsPast ==
  ASSUME TypeInv, StructuredConcurrency, ParallelInv, FailureStopsFlow, UNCHANGED flow,
         NEW n \in Node, Stays(n)
  PROVE  FailureStopsFlow'
<1> USE DEF TypeInv, TypeOK
<1> SUFFICES ASSUME NEW e \in Node, NEW i \in Positions(e), i < at[e]
             PROVE  LET s == flow[e].steps[i]
                    IN IsError(res'[s]) /\ ~IsExpected(res'[s]) => Has(s, "continue")
  BY DEF FailureStopsFlow, Fails, Has, Positions, Stays
<1> DEFINE s == flow[e].steps[i]
<1>1. s \in Nested(e) /\ s \in Step
  BY NestedIsBelow DEF Nested
<1>2. s # n
  <2>1. SUFFICES ASSUME s = n PROVE FALSE
    OBVIOUS
  <2>2. pc[s] # "idle"
    BY <2>1, <1>1, RootAssumption DEF Stays
  <2>3. WaitsFor(e, s)
    BY <2>2, <1>1, ChildIdle
  <2>4. CASE at[e] \in Positions(e) /\ Current(e) = s
    BY <2>4, OnePosition DEF Current, Positions
  <2>5. CASE pc[e] = "collecting"
    BY <2>5 DEF ParallelInv, Positions
  <2>6. QED
    BY <2>3, <2>4, <2>5 DEF WaitsFor
<1>3. res'[s] = res[s]
  BY <1>1, <1>2 DEF Stays, Node
<1>4. QED
  BY <1>3 DEF FailureStopsFlow, Fails

LEMMA PassesKeepsPast ==
  ASSUME TypeInv, FailureStopsFlow, UNCHANGED flow, NEW n \in Node, Passes(n)
  PROVE  FailureStopsFlow'
<1> USE DEF TypeInv, TypeOK
<1> SUFFICES ASSUME NEW e \in Node, NEW i \in Positions(e), i < at'[e]
             PROVE  LET s == flow[e].steps[i]
                    IN IsError(res'[s]) /\ ~IsExpected(res'[s]) => Has(s, "continue")
  BY DEF FailureStopsFlow, Fails, Has, Positions
<1> DEFINE s == flow[e].steps[i]
<1>1. s \in Step
  BY NestedIsBelow DEF Nested
<1>2. CASE s = Current(n)
  BY <1>2 DEF Passes
<1>3. CASE s # Current(n)
  <2>1. res'[s] = res[s]
    BY <1>1, <1>3 DEF Passes, Node
  <2>2. e = n => i # at[n]
    BY <1>3 DEF Current
  <2>3. i < at[e]
    <3>1. CASE e = n
      BY <3>1, <2>2 DEF Passes, Positions
    <3>2. CASE e # n
      BY <3>2 DEF Passes
    <3>3. QED  BY <3>1, <3>2
  <2>4. QED
    BY <2>1, <2>3 DEF FailureStopsFlow, Fails
<1>4. QED
  BY <1>2, <1>3

LEMMA PastStep ==
  /\ TypeInv /\ StructuredConcurrency /\ ParallelInv /\ SuccessInv /\ FailureStopsFlow
  /\ [Next]_vars
  => FailureStopsFlow'
<1> SUFFICES ASSUME TypeInv, StructuredConcurrency, ParallelInv, SuccessInv,
                    FailureStopsFlow, [Next]_vars
             PROVE  FailureStopsFlow'
  OBVIOUS
<1>u. ASSUME UNCHANGED <<flow, at, res>> PROVE FailureStopsFlow'
  BY <1>u DEF FailureStopsFlow, Positions, Fails, Has
<1>i. ASSUME UNCHANGED flow, at' = [n \in Node |-> 1] PROVE FailureStopsFlow'
  BY <1>i DEF FailureStopsFlow, Positions
<1>b. ASSUME NEW e \in Node, EngineStep(e), UNCHANGED flow PROVE FailureStopsFlow'
  BY <1>b, EnginePassesOrStays, PassesKeepsPast, StaysKeepsPast
<1>c. ASSUME NEW s \in Step, StepStep(s), UNCHANGED flow PROVE FailureStopsFlow'
  BY <1>c, BodyStays, StaysKeepsPast DEF Node
<1>d. QED
  BY <1>u, <1>i, <1>b, <1>c DEF Next, NodeStep, Start, Respond, Lapse, Crash, vars

--------------------------------------------------------------------------------
(* The theorems.                                                            *)

LEMMA EngineInvParts ==
  EngineInv <=> /\ TypeInv /\ ParallelInv /\ SuccessInv
                /\ StructuredConcurrency /\ FailureStopsFlow
BY DEF EngineInv, TypeInv, ParallelInv, SuccessInv

LEMMA EngineInvInit == Init => EngineInv
<1> SUFFICES ASSUME Init PROVE EngineInv
  OBVIOUS
<1>1. TypeInv
  BY TypeInit
<1>2. StructuredConcurrency
  BY DEF Init, StructuredConcurrency, Node
<1>3. ParallelInv
  BY DEF Init, ParallelInv, ParallelPCs
<1>4. SuccessInv
  BY DEF Init, SuccessInv, InSuccess
<1>5. FailureStopsFlow
  BY DEF Init, FailureStopsFlow, Positions
<1>6. QED
  BY <1>1, <1>2, <1>3, <1>4, <1>5, EngineInvParts

(* The inductive invariant of the engine holds in every run of every        *)
(* well-formed flow, with any faults of the StateKeeper and any crashes     *)
(* (StepsEngine.Run and ParallelSteps.RunStep).                             *)
THEOREM EngineInvariant == Spec => []EngineInv
<1>1. Init => EngineInv
  BY EngineInvInit
<1>2. EngineInv /\ [Next]_vars => EngineInv'
  <2> SUFFICES ASSUME EngineInv, [Next]_vars PROVE EngineInv'
    OBVIOUS
  <2>1. /\ TypeInv' /\ ParallelInv' /\ SuccessInv'
        /\ StructuredConcurrency' /\ FailureStopsFlow'
    BY EngineInvParts, TypeStep, StructureStep, ParallelStep, SuccessStep, PastStep
  <2>2. QED
    BY <2>1 DEF EngineInv, TypeInv, ParallelInv, SuccessInv
<1>3. QED
  BY <1>1, <1>2, PTL DEF Spec

(* Type correctness of the model of the engine.                             *)
THEOREM TypeCorrect == Spec => []TypeOK
<1>1. EngineInv => TypeOK
  BY DEF EngineInv
<1>2. QED
  BY <1>1, EngineInvariant, PTL

(* No goroutine of a parallel step, and no nested engine, outlives the call *)
(* that started it, and none runs in a step its engine has already left     *)
(* (parallel_steps.go:135-166, step_engine.go:288).                         *)
THEOREM NoGoroutineLeaks == Spec => []StructuredConcurrency
<1>1. EngineInv => StructuredConcurrency
  BY DEF EngineInv
<1>2. QED
  BY <1>1, EngineInvariant, PTL

(* At any depth and on any goroutine, no engine goes on after a failed step *)
(* that may not continue on error (step_engine.go:288-334).                 *)
THEOREM FailuresStop == Spec => []FailureStopsFlow
<1>1. EngineInv => FailureStopsFlow
  BY DEF EngineInv
<1>2. QED
  BY <1>1, EngineInvariant, PTL

================================================================================
