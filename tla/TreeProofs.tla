------------------------------- MODULE TreeProofs -------------------------------
(***************************************************************************)
(* What holds along the tree of a flow.  No run of StepsEngine reports     *)
(* success over a failure that may not be continued on: UpholdInv is an    *)
(* invariant, and what it says of every node and the steps right below it  *)
(* adds up to NoSilentFailure.  And no dynamic step is generated before    *)
(* the engine that hands down the keeper has reached what is around it.    *)
(***************************************************************************)
EXTENDS StepsEngineProofs

--------------------------------------------------------------------------------
(* What is below a node.                                                    *)

Closed(S) == \A m \in S \cap Node : Nested(m) \subseteq S

(* The nodes that every closed set with n in it holds.                      *)
Reachable(n) == {m \in Node : \A S \in SUBSET Node : n \in S /\ Closed(S) => m \in S}

LEMMA ReachableUnfolds ==
  ASSUME flow \in Flows, NEW n \in Node
  PROVE  Reachable(n) = {n} \cup UNION {Reachable(c) : c \in Nested(n)}
<1>0. \A m \in Node : Nested(m) \subseteq Node
  BY NestedIsBelow DEF Node
<1> DEFINE S == {n} \cup UNION {Reachable(c) : c \in Nested(n)}
<1>1. S \subseteq Reachable(n)
  BY <1>0 DEF Reachable, Closed
<1>2. S \in SUBSET Node /\ n \in S
  BY DEF Reachable
<1>3. Closed(S)
  <2>1. SUFFICES ASSUME NEW m \in S, NEW d \in Nested(m) PROVE d \in S
    BY DEF Closed
  <2>2. CASE m = n
    BY <2>2, <1>0 DEF Reachable
  <2>3. CASE m # n
    <3>1. PICK c \in Nested(n) : m \in Reachable(c)
      BY <2>3
    <3>2. m \in Node /\ d \in Node
      BY <3>1, <1>0 DEF Reachable
    <3>3. d \in Reachable(c)
      BY <3>1, <3>2 DEF Reachable, Closed
    <3>4. QED  BY <3>1, <3>3
  <2>4. QED  BY <2>2, <2>3
<1>4. Reachable(n) \subseteq S
  BY <1>2, <1>3 DEF Reachable
<1>5. QED
  BY <1>1, <1>4

(* The recursive definition of Subtree has a solution, so it is one.        *)
LEMMA SubtreeUnfolds ==
  ASSUME flow \in Flows, NEW n \in Node
  PROVE  Subtree[n] = {n} \cup UNION {Subtree[c] : c \in Nested(n)}
<1> DEFINE f == [m \in Node |-> Reachable(m)]
           Solves(g) == g = [m \in Node |-> {m} \cup UNION {g[c] : c \in Nested(m)}]
<1>0. \A m \in Node : Nested(m) \subseteq Node
  BY NestedIsBelow DEF Node
<1>1. ASSUME NEW m \in Node PROVE f[m] = {m} \cup UNION {f[c] : c \in Nested(m)}
  <2>1. f[m] = Reachable(m) /\ \A c \in Nested(m) : f[c] = Reachable(c)
    BY <1>0
  <2>2. {f[c] : c \in Nested(m)} = {Reachable(c) : c \in Nested(m)}
    BY <2>1
  <2>3. QED
    BY <2>1, <2>2, ReachableUnfolds
<1>2. Solves(f)
  BY <1>1
<1>3. Subtree = CHOOSE g : Solves(g)
  BY DEF Subtree
<1>4. Solves(Subtree)
  <2> HIDE DEF Solves, f
  <2>1. QED  BY <1>2, <1>3
<1>5. QED
  BY <1>4

(* Every set of steps has one that contains none of them.                   *)
LEMMA Lowest ==
  ASSUME flow \in Flows, NEW S \in SUBSET Step, S # {}
  PROVE  \E s \in S : \A c \in Nested(s) : c \notin S
<1>1. PICK s \in S : \A i \in 1..Len(flow[s].steps) : flow[s].steps[i] \notin S
  BY FlowIsWellFormed DEF WellFormed
<1>2. QED
  BY <1>1 DEF Nested, Positions

(* As the tree is finite, that solution is the only one.                    *)
LEMMA SubtreeIsReachable ==
  ASSUME flow \in Flows, NEW n \in Node
  PROVE  Subtree[n] = Reachable(n)
<1> DEFINE Odd == {s \in Step : Subtree[s] # Reachable(s)}
<1>0. ASSUME NEW m \in Node, \A c \in Nested(m) : c \notin Odd
      PROVE  Subtree[m] = Reachable(m)
  <2>1. \A c \in Nested(m) : Subtree[c] = Reachable(c)
    BY <1>0, NestedIsBelow
  <2>2. {Subtree[c] : c \in Nested(m)} = {Reachable(c) : c \in Nested(m)}
    BY <2>1
  <2>3. QED
    BY <2>2, SubtreeUnfolds, ReachableUnfolds
<1>1. Odd = {}
  <2>1. SUFFICES ASSUME Odd # {} PROVE FALSE
    OBVIOUS
  <2>2. PICK s \in Odd : \A c \in Nested(s) : c \notin Odd
    BY <2>1, Lowest
  <2>3. QED
    BY <1>0, <2>2 DEF Node
<1>2. QED
  BY <1>0, <1>1

(* What is below a node, what is below that, and nothing else.              *)
LEMMA SubtreeCloses ==
  ASSUME flow \in Flows, NEW n \in Node
  PROVE  /\ n \in Subtree[n] /\ Subtree[n] \subseteq Node
         /\ \A m \in Subtree[n] : Nested(m) \subseteq Subtree[n] /\ Subtree[m] \subseteq Subtree[n]
<1>0. \A m \in Node : Nested(m) \subseteq Node
  BY NestedIsBelow DEF Node
<1>1. Subtree[n] = Reachable(n) /\ \A m \in Node : Subtree[m] = Reachable(m)
  BY SubtreeIsReachable
<1>2. n \in Reachable(n) /\ Reachable(n) \subseteq Node
  BY DEF Reachable
<1>3. \A m \in Reachable(n) : Nested(m) \subseteq Reachable(n)
  BY <1>0 DEF Reachable, Closed
<1>4. Closed(Reachable(n)) /\ Reachable(n) \in SUBSET Node
  BY <1>2, <1>3 DEF Closed
<1>5. \A m \in Reachable(n) : Reachable(m) \subseteq Reachable(n)
  BY <1>4 DEF Reachable
<1>6. QED
  BY <1>1, <1>2, <1>3, <1>5

(* Inside a tree a step is below another node of it; the root is above all. *)
LEMMA ParentInside ==
  ASSUME flow \in Flows, NEW n \in Node, NEW m \in Subtree[n], m # n
  PROVE  m \in Step /\ \E p \in Subtree[n] : m \in Nested(p)
<1>0. m \in Node /\ n \in Subtree[n] /\ Subtree[n] = Reachable(n)
  BY SubtreeCloses, SubtreeIsReachable
<1>1. PICK p \in Subtree[n] : m \in Nested(p)
  <2>1. SUFFICES ASSUME \A p \in Subtree[n] : m \notin Nested(p) PROVE FALSE
    OBVIOUS
  <2> DEFINE S == Subtree[n] \ {m}
  <2>2. S \in SUBSET Node /\ n \in S /\ Closed(S)
    BY <1>0, <2>1, SubtreeCloses DEF Closed
  <2>3. m \in S
    BY <1>0, <2>2 DEF Reachable
  <2>4. QED
    BY <2>3
<1>2. QED
  BY <1>1, SubtreeCloses, NestedIsBelow

LEMMA BelowSteps ==
  ASSUME flow \in Flows, NEW s \in Step
  PROVE  Subtree[s] \subseteq Step
BY ParentInside DEF Node

(* Nothing is below itself.                                                 *)
LEMMA NoCycle ==
  ASSUME flow \in Flows, NEW n \in Node, NEW c \in Nested(n)
  PROVE  n \notin Subtree[c]
<1>0. c \in Step /\ c \in Node
  BY NestedIsBelow DEF Node
<1>1. SUFFICES ASSUME n \in Subtree[c] PROVE FALSE
  OBVIOUS
<1>2. Subtree[c] \in SUBSET Step /\ Subtree[c] # {}
  BY <1>0, <1>1, BelowSteps
<1>3. PICK t \in Subtree[c] : \A p \in Subtree[c] : t \notin Nested(p)
  BY <1>2, Topmost
<1>4. t = c
  BY <1>0, <1>3, ParentInside
<1>5. QED
  BY <1>1, <1>3, <1>4

(* Of two trees that meet one is inside the other.                          *)
LEMMA Chain ==
  ASSUME flow \in Flows, NEW a \in Step, NEW b \in Step, NEW d \in Subtree[a], d \in Subtree[b]
  PROVE  a \in Subtree[b] \/ b \in Subtree[a]
<1>0. a \in Node /\ b \in Node
  BY DEF Node
<1> DEFINE Both == Subtree[a] \cap Subtree[b]
<1>1. Both \in SUBSET Step /\ d \in Both
  BY BelowSteps
<1>2. PICK t \in Both : \A p \in Both : t \notin Nested(p)
  BY <1>1, Topmost
<1>3. SUFFICES ASSUME t # a, t # b PROVE FALSE
  BY <1>2
<1>4. PICK p \in Subtree[a] : t \in Nested(p)
  BY <1>0, <1>2, <1>3, ParentInside
<1>5. PICK q \in Subtree[b] : t \in Nested(q)
  BY <1>0, <1>2, <1>3, ParentInside
<1>6. p = q
  BY <1>0, <1>4, <1>5, SubtreeCloses, OneParent
<1>7. QED
  BY <1>2, <1>4, <1>5, <1>6

--------------------------------------------------------------------------------
(* What the step of a node touches: itself and the steps right below it.    *)

Unmoved(x) == pc'[x] = pc[x] /\ at'[x] = at[x] /\ res'[x] = res[x]

(* What an engine can do to its current step.                               *)
Skips(e, s) ==
  /\ pc[e] \in {"next", "predicates", "throttle"} /\ pc'[e] = "next" /\ at'[e] = at[e] + 1
  /\ pc'[s] = pc[s] /\ res'[s] = Plainly("skipped")

Calls(e, s) ==
  pc[e] = "launch" /\ pc'[e] = "wait" /\ pc'[s] = Entry(s) /\ at'[e] = at[e] /\ res'[s] = res[s]

Resumes(e, s) ==
  pc[e] = "wait" /\ pc[s] = "returned" /\ pc'[s] = "idle" /\ res'[s] = res[s]

(* What an engine does to s, its current step.                              *)
LEMMA EngineTouches ==
  ASSUME TypeInv, NEW e \in Node, EngineStep(e), UNCHANGED flow
  PROVE  /\ \A x \in Node : x # e /\ (at[e] \in Positions(e) => x # Current(e)) => Unmoved(x)
         /\ at[e] \in Positions(e) =>
              LET s == Current(e)
              IN Unmoved(s) \/ (at'[s] = at[s] /\ (Skips(e, s) \/ Calls(e, s) \/ Resumes(e, s)))
<1> DEFINE s == Current(e)
           Goal == /\ \A x \in Node : x # e /\ (at[e] \in Positions(e) => x # s) => Unmoved(x)
                   /\ at[e] \in Positions(e) =>
                        \/ Unmoved(s)
                        \/ at'[s] = at[s] /\ (Skips(e, s) \/ Calls(e, s) \/ Resumes(e, s))
<1>0. /\ pc \in [Node -> PCs] /\ at \in [Node -> Nat \ {0}] /\ res \in [Node -> Result]
      /\ at[e] \in Positions(e) => s \in Node /\ s # e
      /\ pc[e] \in InStep => at[e] \in Positions(e)
  BY CurrentIsNested DEF TypeInv, TypeOK, Node
<1>1. ASSUME Skip(e), at[e] \in Positions(e), pc[e] \in {"next", "predicates", "throttle"} PROVE Goal
  BY <1>0, <1>1 DEF Skip, Advance, Unmoved, Skips
<1>2. ASSUME NEW r, Return(e, r) PROVE Goal
  BY <1>0, <1>2 DEF Return, Unmoved
<1>3. ASSUME NEW label, Goto(e, label), UNCHANGED <<at, res>> PROVE Goal
  BY <1>0, <1>3 DEF Goto, Unmoved
<1>4. ASSUME UNCHANGED <<pc, at, res>> PROVE Goal
  BY <1>0, <1>4 DEF Unmoved
<1>5. ASSUME Advance(e), UNCHANGED res PROVE Goal
  BY <1>0, <1>5 DEF Advance, Unmoved
<1>6. CASE EngineDone(e)
  BY <1>6, <1>2 DEF EngineDone
<1>7. CASE Consider(e)
  BY <1>7, <1>1, <1>3, <1>4 DEF Consider, Panic
<1>8. CASE Predicates(e)
  BY <1>8, <1>0, <1>1, <1>2, <1>3 DEF Predicates, InStep
<1>9. CASE Throttle(e)
  BY <1>9, <1>0, <1>1, <1>3, <1>4 DEF Throttle, Panic, InStep
<1>10. CASE Launch(e)
  <2>1. CASE Call(e, s)
    BY <2>1, <1>10, <1>0 DEF Launch, Call, Calls, Unmoved, InStep
  <2>2. CASE ~Call(e, s)
    BY <2>2, <1>10, <1>2, <1>4 DEF Launch, Panic
  <2>3. QED  BY <2>1, <2>2
<1>11. CASE Resume(e)
  BY <1>11, <1>0 DEF Resume, Resumes, Unmoved, InStep
<1>12. CASE Failed(e)
  BY <1>12, <1>2, <1>3 DEF Failed
<1>13. CASE Callback(e)
  BY <1>13, <1>2, <1>5 DEF Callback
<1>14. CASE Confirm(e)
  BY <1>14, <1>3 DEF Confirm
<1>15. CASE Record(e)
  BY <1>15, <1>2, <1>3 DEF Record
<1>16. CASE Complete(e)
  BY <1>16, <1>2, <1>4, <1>5 DEF Complete, Panic
<1>17. QED
  BY <1>6, <1>7, <1>8, <1>9, <1>10, <1>11, <1>12, <1>13, <1>14, <1>15, <1>16 DEF EngineStep

(* What the body of a step does to the steps of a parallel step.            *)
LEMMA BodyTouches ==
  ASSUME TypeInv, NEW s \in Step, StepStep(s), UNCHANGED flow
  PROVE  /\ \A x \in Node : x # s /\ x \notin Nested(s) => Unmoved(x)
         /\ \A x \in Nested(s) :
              /\ at'[x] = at[x] /\ res'[x] = res[x]
              /\ \/ pc'[x] = pc[x]
                 \/ pc[s] = "forking" /\ pc'[x] = "spawned"
                 \/ pc[s] = "collecting" /\ pc[x] = "returned" /\ pc'[x] = "idle"
<1>0. /\ pc \in [Node -> PCs] /\ res \in [Node -> Result] /\ s \in Node
      /\ \A x \in Nested(s) : x \in Node /\ x # s
  BY NestedIsBelow DEF TypeInv, TypeOK, Node
<1>1. CASE FunctionReturns(s)
  BY <1>0, <1>1 DEF FunctionReturns, Return, Unmoved
<1>2. CASE Fork(s)
  BY <1>0, <1>2 DEF Fork, Return, Unmoved
<1>3. CASE Goroutine(s)
  BY <1>0, <1>3 DEF Goroutine, Goto, Return, Unmoved
<1>4. CASE Join(s)
  BY <1>0, <1>4 DEF Join, Unmoved
<1>5. QED
  BY <1>1, <1>2, <1>3, <1>4 DEF StepStep

(* What the step of n does to x, a step right below it: nothing, or one of  *)
(* what engines and parallel steps do to theirs.                            *)
Touches(n, x) ==
  \/ Unmoved(x)
  \/ /\ at'[x] = at[x]
     /\ \/ at[n] \in Positions(n) /\ x = Current(n) /\ (Skips(n, x) \/ Calls(n, x) \/ Resumes(n, x))
        \/ res'[x] = res[x] /\ pc[n] = "forking" /\ pc'[x] = "spawned"
        \/ res'[x] = res[x] /\ pc[n] = "collecting" /\ pc[x] = "returned" /\ pc'[x] = "idle"

LEMMA NodeTouches ==
  ASSUME TypeInv, NEW n \in Node, NodeStep(n), UNCHANGED flow
  PROVE  /\ \A x \in Node : x # n /\ x \notin Nested(n) => Unmoved(x)
         /\ \A x \in Nested(n) : Touches(n, x)
         /\ pc[n] \notin {"idle", "returned"}
<1>1. CASE EngineStep(n)
  <2>1. at[n] \in Positions(n) => Current(n) \in Nested(n)
    BY CurrentIsNested DEF TypeInv, TypeOK
  <2>2. \A x \in Nested(n) : x \in Node /\ x # n
    BY NestedIsBelow DEF TypeInv, TypeOK, Node
  <2>3. \A x \in Nested(n) : Touches(n, x)
    BY <1>1, <2>2, EngineTouches DEF Touches
  <2>4. QED
    BY <1>1, <2>1, <2>3, EngineTouches, EngineCounters DEF InStep
<1>2. CASE n \in Step /\ StepStep(n)
  <2>1. \A x \in Nested(n) : Touches(n, x)
    BY <1>2, BodyTouches DEF Touches, Unmoved
  <2>2. QED
    BY <1>2, <2>1, BodyTouches, BodyCounters
<1>3. QED
  BY <1>1, <1>2 DEF NodeStep

(* A node above one that moves waits for it; no other node does.            *)
LEMMA MoverIsAwaited ==
  ASSUME TypeInv, StructuredConcurrency, NEW n \in Node, NodeStep(n), UNCHANGED flow,
         NEW p \in Node, n \in Nested(p)
  PROVE  pc[p] \in {"wait", "collecting"} /\ p # n /\ p \notin Nested(n)
<1>1. pc[n] \notin {"idle", "returned"}
  BY NodeTouches
<1>2. pc[p] \in {"wait", "collecting"} /\ p # n
  BY <1>1, ChildIdle, NestedIsBelow DEF WaitsFor, TypeInv, TypeOK
<1>3. ASSUME p \in Nested(n) PROVE FALSE
  <2>1. pc[n] \in {"wait", "collecting"} /\ WaitsFor(n, p)
    BY <1>2, <1>3, ChildIdle DEF WaitsFor, TypeInv
  <2>2. CASE EngineStep(n)
    <3>1. Resume(n)
      BY <2>1, <2>2 DEF EngineStep, EngineDone, Consider, Predicates, Throttle, Launch, Failed,
                        Callback, Confirm, Record, Complete
    <3>2. QED
      BY <1>2, <2>1, <3>1 DEF Resume, WaitsFor
  <2>3. CASE n \in Step /\ StepStep(n)
    <3>1. Join(n)
      BY <2>1, <2>3 DEF StepStep, FunctionReturns, Fork, Goroutine
    <3>2. QED
      BY <1>2, <1>3, <3>1 DEF Join
  <2>4. QED
    BY <2>2, <2>3 DEF NodeStep
<1>4. QED
  BY <1>2, <1>3

(* So the step of n touches nothing below another node, except that it may  *)
(* touch n itself where the other node waits for it.                        *)
LEMMA BelowOthers ==
  ASSUME TypeInv, StructuredConcurrency, NEW n \in Node, NodeStep(n), UNCHANGED flow,
         NEW p \in Node, p # n, NEW c \in Nested(p), c # n
  PROVE  Unmoved(c) /\ c \in Node
<1>1. c \in Node /\ c \notin Nested(n)
  BY NestedIsBelow, OneParent DEF TypeInv, TypeOK, Node
<1>2. QED
  BY <1>1, NodeTouches

--------------------------------------------------------------------------------
(* What has not been reached.                                               *)

LEMMA UpholdParts ==
  ASSUME UpholdInv
  PROVE  /\ TypeInv /\ ParallelInv /\ SuccessInv /\ StructuredConcurrency /\ FailureStopsFlow
         /\ flow \in Flows /\ Step \subseteq Node
         /\ pc \in [Node -> PCs] /\ at \in [Node -> Nat \ {0}] /\ res \in [Node -> Result]
BY EngineInvParts DEF UpholdInv, TypeInv, TypeOK, Node

(* A step another node has not reached stays so.                            *)
LEMMA FreshKept ==
  ASSUME UpholdInv, NEW n \in Node, NodeStep(n), UNCHANGED flow,
         NEW p \in Node, p # n, NEW c \in Nested(p), Fresh(c)
  PROVE  Fresh(c)'
<1>1. c # n
  BY UpholdParts, NodeTouches DEF Fresh
<1>2. QED
  BY <1>1, UpholdParts, BelowOthers DEF Fresh, Unmoved

LEMMA InsideStep ==
  ASSUME UpholdInv, NEW n \in Node, NodeStep(n), UNCHANGED flow, NEW p \in Node
  PROVE  UnreachedInside(p)'
<1>0. UnreachedInside(p) /\ UnreachedAhead(n) /\ Witnessed(p) /\ Nested(p)' = Nested(p)
  BY DEF UpholdInv, Nested, Positions
<1> SUFFICES ASSUME Fresh(p)' \/ pc'[p] \in {"spawned", "forking"} PROVE FreshInside(p)'
  BY DEF UnreachedInside
<1>1. CASE p = n
  <2>1. n \in Step /\ StepStep(n)
    BY <1>1, UpholdParts, EngineCounters DEF NodeStep, Fresh, InStep
  <2>2. pc'[n] # "idle" /\ pc'[n] # "spawned"
    BY <2>1, UpholdParts, BodyCounters, EntryIsLabel
  <2>3. Goroutine(n)
    BY <1>1, <2>1, <2>2, UpholdParts DEF Fresh, StepStep, FunctionReturns, Fork, Join, Return
  <2>4. FreshInside(n)
    BY <1>0, <1>1, <2>3 DEF UnreachedInside, Goroutine
  <2>5. \A c \in Nested(n) : pc'[c] = pc[c] /\ res'[c] = res[c]
    BY <2>1, <2>3, UpholdParts, BodyTouches DEF Goroutine
  <2>6. QED
    BY <1>0, <1>1, <2>4, <2>5 DEF FreshInside, Fresh
<1>2. CASE p # n
  <2>1. SUFFICES FreshInside(p)
    BY <1>0, <1>2, FreshKept DEF FreshInside
  <2>2. CASE Unmoved(p)
    BY <2>2, <1>0 DEF Unmoved, UnreachedInside, Fresh
  <2>3. CASE p \in Nested(n) /\ ~Unmoved(p)
    <3>1. Touches(n, p)
      BY <2>3, UpholdParts, NodeTouches
    <3>2. ASSUME at[n] \in Positions(n), p = Current(n), Skips(n, p) \/ Calls(n, p)
          PROVE  FreshInside(p)
      <4>1. Kind(n) # "parallel"
        BY <3>2, UpholdParts DEF Skips, Calls, ParallelInv, ParallelPCs
      <4>2. Fresh(p)
        BY <3>2, <4>1, <1>0 DEF UnreachedAhead, Ahead, Current, Skips, Calls
      <4>3. QED
        BY <4>2, <1>0 DEF UnreachedInside
    <3>3. ASSUME pc[n] = "forking" PROVE FreshInside(p)
      <4>1. Fresh(p)
        BY <2>3, <3>3 DEF UpholdInv, UnreachedInside, FreshInside
      <4>2. QED
        BY <4>1, <1>0 DEF UnreachedInside
    <3>4. ASSUME pc[p] = "returned", pc'[p] = "idle", res'[p] = res[p] PROVE FALSE
      BY <3>4, <1>0 DEF Witnessed, Fresh
    <3>5. QED
      BY <2>3, <3>1, <3>2, <3>3, <3>4 DEF Touches, Resumes
  <2>4. QED
    BY <1>2, <2>2, <2>3, UpholdParts, NodeTouches
<1>3. QED
  BY <1>1, <1>2

(* An engine comes to where it has not reached its step only from there.    *)
LEMMA NotYetReached ==
  ASSUME TypeInv, NEW e \in Node, EngineStep(e), at' = at,
         pc'[e] \in {"next", "predicates", "throttle", "launch"}
  PROVE  pc[e] \in {"next", "predicates", "throttle", "launch"}
<1>0. /\ pc \in [Node -> PCs] /\ at \in [Node -> Nat \ {0}]
      /\ pc[e] \in InStep => Current(e) # e
  BY CurrentIsNested DEF TypeInv, TypeOK
<1>1. CASE Resume(e)
  BY <1>0, <1>1 DEF Resume, InStep
<1>2. CASE Complete(e)
  BY <1>0, <1>2 DEF Complete, Return, Advance, Panic
<1>3. CASE Callback(e)
  BY <1>0, <1>3 DEF Callback, Return, Advance
<1>4. CASE Failed(e) \/ Confirm(e) \/ Record(e)
  BY <1>0, <1>4 DEF Failed, Confirm, Record, Return, Goto
<1>5. QED
  BY <1>1, <1>2, <1>3, <1>4
     DEF EngineStep, EngineDone, Consider, Predicates, Throttle, Launch

LEMMA AheadStep ==
  ASSUME UpholdInv, NEW n \in Node, NodeStep(n), UNCHANGED flow, NEW e \in Node
  PROVE  UnreachedAhead(e)'
<1>0. /\ UnreachedAhead(e) /\ UnreachedInside(e)
      /\ Kind(e)' = Kind(e) /\ Positions(e)' = Positions(e)
  BY DEF UpholdInv, Kind, Positions
<1> SUFFICES ASSUME Kind(e) # "parallel", NEW i \in Positions(e), Ahead(e, i)',
                    NEW c, c = flow[e].steps[i]
             PROVE  Fresh(c)'
  BY <1>0 DEF UnreachedAhead, Fresh
<1>1. c \in Nested(e)
  BY DEF Nested
<1>2. CASE e # n
  <2>1. SUFFICES Fresh(c)
    BY <1>1, <1>2, FreshKept
  <2>2. CASE Ahead(e, i)
    BY <2>2, <1>0 DEF UnreachedAhead
  <2>3. CASE ~Ahead(e, i)
    <3>1. e \in Nested(n) /\ Touches(n, e) /\ at'[e] = at[e] /\ pc'[e] # pc[e]
      BY <2>3, <1>2, UpholdParts, NodeTouches DEF Ahead, Unmoved, Touches
    <3>2. Calls(n, e) /\ at[n] \in Positions(n) /\ e = Current(n)
      BY <3>1, <2>3 DEF Ahead, Touches, Unmoved, Skips, Resumes
    <3>3. Kind(n) # "parallel"
      BY <3>2, UpholdParts DEF Calls, ParallelInv, ParallelPCs
    <3>4. Fresh(e)
      BY <3>2, <3>3 DEF UpholdInv, UnreachedAhead, Ahead, Calls, Current
    <3>5. QED
      BY <3>4, <1>0, <1>1 DEF UnreachedInside, FreshInside
  <2>4. QED  BY <2>2, <2>3
<1>3. CASE e = n /\ EngineStep(n)
  <2>1. c # e /\ c \in Node
    BY <1>1, UpholdParts, NestedIsBelow DEF Node
  <2>2. Passes(e) \/ Stays(e)
    BY <1>3, UpholdParts, EnginePassesOrStays
  <2>3. CASE i > at[e]
    <3>1. at[e] \in Positions(e) => c # Current(e)
      BY <2>3, UpholdParts, OnePosition DEF Current
    <3>2. Unmoved(c)
      BY <1>3, <2>1, <3>1, UpholdParts, EngineTouches
    <3>3. QED
      BY <2>3, <3>2, <1>0 DEF UnreachedAhead, Ahead, Fresh, Unmoved
  <2>4. CASE ~(i > at[e])
    <3>1. Stays(e) /\ i = at[e] /\ pc'[e] \in {"next", "predicates", "throttle", "launch"}
      BY <2>2, <2>4, UpholdParts DEF Ahead, Passes, Stays, Positions
    <3>2. pc[e] \in {"next", "predicates", "throttle", "launch"}
      BY <1>3, <3>1, UpholdParts, NotYetReached DEF Stays
    <3>3. c = Current(e) /\ at[e] \in Positions(e)
      BY <3>1 DEF Current
    <3>4. Unmoved(c)
      BY <1>3, <3>1, <3>2, <3>3, UpholdParts, EngineTouches DEF Skips, Calls, Resumes, Stays
    <3>5. QED
      BY <3>1, <3>2, <3>4, <1>0 DEF UnreachedAhead, Ahead, Fresh, Unmoved
  <2>5. QED
    BY <2>3, <2>4
<1>4. CASE e = n /\ n \in Step /\ StepStep(n)
  <2>1. at' = at /\ pc[n] \notin {"forking", "collecting"}
    BY <1>4, UpholdParts, BodyCounters DEF ParallelInv
  <2>2. pc'[c] = pc[c] /\ res'[c] = res[c]
    BY <1>1, <1>4, <2>1, UpholdParts, BodyTouches
  <2>3. SUFFICES Fresh(c)
    BY <2>2 DEF Fresh
  <2>4. CASE i > at[e]
    BY <2>4, <1>0 DEF UnreachedAhead, Ahead
  <2>5. CASE ~(i > at[e])
    <3>1. pc'[n] \in {"next", "predicates", "throttle", "launch"}
      BY <1>4, <2>1, <2>5 DEF Ahead
    <3>2. Goroutine(n)
      BY <1>4, <3>1, UpholdParts DEF StepStep, FunctionReturns, Fork, Join, Return
    <3>3. QED
      BY <1>0, <1>1, <1>4, <3>2 DEF Goroutine, UnreachedInside, FreshInside
  <2>6. QED
    BY <2>4, <2>5
<1>5. QED
  BY <1>2, <1>3, <1>4 DEF NodeStep

--------------------------------------------------------------------------------
(* What an engine has seen, and what a result tells.                        *)

LEMMA Verdicts ==
  /\ \A r : IsError(r) => r # Plainly("unset")
  /\ \A b : Plainly(b).base = b /\ Wrap(Plainly(b)).base = b /\ Wrap(Plainly(b)).layers = 1
  /\ \A r \in Result : IsError(r) => IsError(Wrap(r)) /\ ~IsExpected(Wrap(r))
BY DEF IsError, IsExpected, Plainly, Wrap, Result

(* With which error e returns: that of its step, one of the keeper, or the  *)
(* abort of a step that it has not run.                                     *)
Kept(e) ==
  \/ res'[e].base = res[Current(e)].base /\ res'[e].layers > 0 /\ pc[e] = "callback"
  \/ res'[e].base = "update"
  \/ pc[e] = "predicates"

(* What an engine returns.                                                  *)
LEMMA EngineReturns ==
  ASSUME UpholdInv, NEW e \in Node, EngineStep(e), UNCHANGED flow, pc'[e] = "returned"
  PROVE  /\ at' = at
         /\ \/ IsError(res'[e]) /\ ~IsExpected(res'[e]) /\ Kept(e)
            \/ res'[e] = Plainly("nil") /\ EngineDone(e)
            \/ res'[e] = Plainly("nil") /\ Complete(e)
<1>0. /\ pc \in [Node -> PCs] /\ at \in [Node -> Nat \ {0}] /\ res \in [Node -> Result]
      /\ pc[e] \in InStep => Current(e) # e /\ Current(e) \in Node
  BY UpholdParts, CurrentIsNested DEF TypeInv, TypeOK
<1>1. CASE EngineDone(e)
  BY <1>0, <1>1 DEF EngineDone, Return
<1>2. CASE Complete(e)
  BY <1>0, <1>2 DEF Complete, Return, Advance, Panic
<1>3. CASE Callback(e)
  <2>1. /\ at' = at /\ res'[e] = Wrap(res[Current(e)]) /\ Current(e) \in Node
    BY <1>0, <1>3 DEF Callback, Return, Advance, InStep
  <2>2. Fails(Current(e))
    BY <1>3 DEF Callback, UpholdInv, Witnessed
  <2>3. res[Current(e)] \in Result
    BY <1>0, <2>1
  <2>4. Kept(e)
    BY <1>3, <2>1, <2>3 DEF Callback, Kept, Wrap, Result
  <2>5. QED
    BY <2>1, <2>2, <2>3, <2>4, Verdicts DEF Fails
<1>4. CASE Predicates(e)
  <2>1. Return(e, Plainly("aborted"))
    BY <1>0, <1>4 DEF Predicates, Skip, Advance, Goto
  <2>2. QED
    BY <1>0, <1>4, <2>1, Verdicts DEF Predicates, Return, IsError, IsExpected, Kept
<1>5. CASE Launch(e) \/ Failed(e) \/ Record(e)
  <2>1. PICK r \in {Plainly("update"), Wrap(Plainly("update"))} : Return(e, r)
    BY <1>0, <1>5, EntryIsLabel DEF Launch, Failed, Record, Goto, Call, Panic, InStep
  <2>2. QED
    BY <1>0, <2>1, Verdicts DEF Return, IsError, IsExpected, Kept
<1>6. CASE Consider(e) \/ Throttle(e) \/ Resume(e) \/ Confirm(e)
  BY <1>0, <1>6 DEF Consider, Throttle, Resume, Confirm, Skip, Advance, Goto, Panic, InStep
<1>7. QED
  BY <1>1, <1>2, <1>3, <1>4, <1>5, <1>6 DEF EngineStep

(* What the body of a step returns.                                         *)
LEMMA BodyReturns ==
  ASSUME UpholdInv, NEW s \in Step, StepStep(s), UNCHANGED flow, pc'[s] = "returned"
  PROVE  /\ res'[s] # Plainly("unset")
         /\ \/ IsError(res'[s]) /\ ~IsExpected(res'[s])
            \/ pc[s] = "executing"
            \/ pc[s] = "spawned"
            \/ Join(s) /\ \A c \in Nested(s) : ~IsError(res[c])
<1>0. /\ pc \in [Node -> PCs] /\ res \in [Node -> Result] /\ s \in Node
  BY UpholdParts
<1>1. CASE FunctionReturns(s)
  BY <1>0, <1>1, OutcomeAssumption DEF FunctionReturns, Return, Plainly
<1>2. CASE Fork(s)
  BY <1>0, <1>2 DEF Fork, Return, Plainly, IsError, IsExpected
<1>3. CASE Goroutine(s)
  BY <1>0, <1>3, EntryIsLabel DEF Goroutine, Goto, Return, Plainly
<1>4. CASE Join(s)
  BY <1>0, <1>4 DEF Join, Plainly, IsError, IsExpected
<1>5. QED
  BY <1>1, <1>2, <1>3, <1>4 DEF StepStep

LEMMA WitnessedStep ==
  ASSUME UpholdInv, NEW n \in Node, NodeStep(n), UNCHANGED flow, NEW x \in Node
  PROVE  Witnessed(x)'
<1>0. Witnessed(x) /\ Kind(x)' = Kind(x) /\ \A p \in Node : Nested(p)' = Nested(p)
  BY DEF UpholdInv, Kind, Nested, Positions
<1>1. x = n \/ Unmoved(x) \/ (x \in Nested(n) /\ Touches(n, x))
  BY UpholdParts, NodeTouches
<1>2. ASSUME pc'[x] \in {"failing", "callback"} PROVE Fails(Current(x))'
  <2> DEFINE s == Current(x)
  <2>1. CASE x = n
    <3>1. EngineStep(n)
      BY <1>2, <2>1, UpholdParts, BodyCounters, EntryIsLabel DEF NodeStep
    <3>2. Resume(n) \/ Failed(n)
      BY <1>2, <2>1, <3>1, UpholdParts, CurrentIsNested, EntryIsLabel
         DEF EngineStep, EngineDone, Consider, Predicates, Throttle, Launch, Callback, Confirm,
             Record, Complete, Skip, Advance, Goto, Return, Call, Panic, InStep, TypeInv, TypeOK, Node
    <3>3. at[x] \in Positions(x) /\ s # x /\ s \in Node
      BY <2>1, <3>2, UpholdParts, CurrentIsNested DEF Resume, Failed, InStep, TypeInv
    <3>4. at'[x] = at[x] /\ res'[s] = res[s]
      BY <1>2, <2>1, <3>2, <3>3, UpholdParts DEF Resume, Failed, Return, Goto
    <3>5. Fails(s)
      BY <1>0, <1>2, <2>1, <3>2, <3>3, UpholdParts DEF Resume, Failed, Witnessed, Fails
    <3>6. QED
      BY <3>4, <3>5 DEF Fails, Current
  <2>2. CASE x # n
    <3>1. pc'[x] = pc[x] /\ at'[x] = at[x]
      BY <1>1, <1>2, <2>2, EntryIsLabel DEF Unmoved, Touches, Skips, Calls, Resumes
    <3>2. at[x] \in Positions(x) /\ s \in Nested(x) /\ Fails(s)
      BY <1>0, <1>2, <3>1, UpholdParts, CurrentIsNested DEF Witnessed, InStep, TypeInv
    <3>3. pc[s] = "idle"
      BY <1>2, <3>1, <3>2, UpholdParts, ChildIdle DEF WaitsFor, TypeInv
    <3>4. Unmoved(s)
      <4>1. s # n
        BY <1>2, <2>2, <3>1, <3>2, UpholdParts, MoverIsAwaited
      <4>2. QED
        BY <2>2, <3>2, <4>1, UpholdParts, BelowOthers
    <3>5. QED
      BY <3>1, <3>2, <3>4 DEF Fails, Current, Unmoved
  <2>3. QED  BY <2>1, <2>2
<1>3. ASSUME pc'[x] = "returned" PROVE res'[x] # Plainly("unset")
  <2>1. CASE x = n /\ EngineStep(n)
    BY <1>3, <2>1, EngineReturns, Verdicts DEF Plainly
  <2>2. CASE x = n /\ n \in Step /\ StepStep(n)
    BY <1>3, <2>2, BodyReturns
  <2>3. CASE x # n
    BY <1>0, <1>1, <1>3, <2>3, EntryIsLabel
       DEF Unmoved, Touches, Skips, Calls, Resumes, Witnessed, Plainly
  <2>4. QED
    BY <2>1, <2>2, <2>3 DEF NodeStep
<1>4. ASSUME pc'[x] = "executing" PROVE Kind(x) = "simple"
  <2>1. pc[x] = "executing" \/ Entry(x) = "executing"
    <3>1. CASE EngineStep(n)
      BY <1>4, <3>1, UpholdParts, EngineCounters DEF InStep
    <3>2. CASE n \in Step /\ StepStep(n)
      BY <1>4, <3>2, UpholdParts, BodyCounters
    <3>3. QED
      BY <3>1, <3>2 DEF NodeStep
  <2>2. QED
    BY <1>0, <2>1 DEF Witnessed, Entry
<1>5. ASSUME x \in Step, res'[x] # Plainly("unset") PROVE \E p \in Node : x \in Nested(p)
  <2>1. CASE x = n
    BY <1>5, <2>1, UpholdParts, NodeTouches DEF StructuredConcurrency, WaitsFor
  <2>2. CASE x # n
    BY <1>0, <1>1, <1>5, <2>2 DEF Unmoved, Witnessed
  <2>3. QED  BY <2>1, <2>2
<1>6. ASSUME x = Root, pc'[x] = "idle" PROVE res'[x] = Plainly("unset")
  <2>1. x # n
    <3>1. CASE EngineStep(n)
      BY <1>6, <3>1, UpholdParts, EngineCounters DEF InStep
    <3>2. CASE n \in Step
      BY <1>6, <3>2, RootAssumption
    <3>3. QED
      BY <3>1, <3>2 DEF NodeStep
  <2>2. x \notin Nested(n)
    BY <1>6, UpholdParts, NestedIsBelow, RootAssumption
  <2>3. QED
    BY <1>0, <1>1, <1>6, <2>1, <2>2 DEF Unmoved, Witnessed
<1>7. QED
  BY <1>0, <1>2, <1>3, <1>4, <1>5, <1>6 DEF Witnessed

--------------------------------------------------------------------------------
(* Every node passes on the failures right below it.                        *)

(* An engine that returns changes no result but its own.                    *)
LEMMA EngineKeepsResults ==
  ASSUME TypeInv, SuccessInv, NEW e \in Node, EngineStep(e), UNCHANGED flow, pc'[e] = "returned",
         NEW x \in Node, x # e
  PROVE  res'[x] = res[x]
<1>1. at[e] \in Positions(e) /\ x = Current(e) => res'[x] = res[x]
  BY EngineTouches DEF Unmoved, Skips, Calls, Resumes
<1>2. QED
  BY <1>1, EngineTouches DEF Unmoved

(* The node that returns.                                                   *)
LEMMA ReturningUpheld ==
  ASSUME UpholdInv, NEW n \in Node, NodeStep(n), UNCHANGED flow, pc'[n] \in {"idle", "returned"},
         NEW c \in Nested(n), Fails(c)', ~Has(c, "continue")
  PROVE  Fails(n)' /\ (Kind(n) # "parallel" => PassedOn(n, c)')
<1>0. c \in Node /\ c # n
  BY UpholdParts, NestedIsBelow DEF Node
<1>1. PICK i \in Positions(n) : c = flow[n].steps[i]
  BY DEF Nested
<1>2. CASE EngineStep(n)
  <2>1. pc'[n] = "returned" /\ Kind(n) # "parallel"
    BY <1>2, UpholdParts, EngineCounters DEF InStep, ParallelInv, ParallelPCs
  <2>2. /\ at' = at
        /\ \/ IsError(res'[n]) /\ ~IsExpected(res'[n]) /\ Kept(n)
           \/ EngineDone(n)
           \/ Complete(n)
    BY <1>2, <2>1, EngineReturns
  <2>3. res'[c] = res[c]
    BY <1>0, <1>2, <2>1, UpholdParts, EngineKeepsResults
  <2>4. Fails(c)
    BY <2>3 DEF Fails
  <2>5. i < at[n] => FALSE
    BY <1>1, <2>4, UpholdParts DEF FailureStopsFlow
  <2>6. Ahead(n, i) => FALSE
    BY <1>1, <2>1, <2>4 DEF UpholdInv, UnreachedAhead, Fresh, Fails, IsError, Plainly
  <2>7. i = at[n] /\ pc[n] \notin {"next", "predicates"} /\ c = Current(n)
    BY <1>1, <2>5, <2>6, UpholdParts DEF Ahead, Positions, Current
  <2>8. CASE EngineDone(n)
    BY <2>7, <2>8 DEF EngineDone
  <2>9. CASE Complete(n)
    BY <2>4, <2>7, <2>9, UpholdParts DEF Complete, SuccessInv, InSuccess, Fails
  <2>10. CASE IsError(res'[n]) /\ ~IsExpected(res'[n]) /\ Kept(n)
    BY <2>3, <2>7, <2>10 DEF Fails, Kept, PassedOn
  <2>11. QED
    BY <2>2, <2>8, <2>9, <2>10
<1>3. CASE n \in Step /\ StepStep(n)
  <2>1. pc'[n] = "returned"
    BY <1>3, UpholdParts, BodyCounters, EntryIsLabel
  <2>2. res'[c] = res[c]
    BY <1>3, UpholdParts, BodyTouches
  <2>3. Fails(c)
    BY <2>2 DEF Fails
  <2>4. CASE pc[n] = "executing"
    <3>1. flow[n].steps = << >>
      BY <2>4, UpholdParts, FlowIsWellFormed DEF UpholdInv, Witnessed, WellFormed, Kind
    <3>2. QED
      BY <1>1, <3>1 DEF Positions
  <2>5. CASE pc[n] = "spawned"
    BY <2>3, <2>5 DEF UpholdInv, UnreachedInside, FreshInside, Fresh, Fails, IsError, Plainly
  <2>6. CASE pc[n] \in {"forking", "collecting"}
    BY <1>3, <2>1, <2>3, <2>6, UpholdParts, BodyReturns DEF Fails, ParallelInv
  <2>7. QED
    BY <1>3, <2>4, <2>5, <2>6, UpholdParts, BodyCounters
<1>4. QED
  BY <1>2, <1>3 DEF NodeStep

LEMMA UpheldStep ==
  ASSUME UpholdInv, NEW n \in Node, NodeStep(n), UNCHANGED flow, NEW p \in Node
  PROVE  Upheld(p)'
<1>0. Nested(p)' = Nested(p) /\ Kind(p)' = Kind(p)
  BY DEF Nested, Positions, Kind
<1> SUFFICES ASSUME pc'[p] \in {"idle", "returned"}, NEW c \in Nested(p),
                    Fails(c)', ~Has(c, "continue")
             PROVE  Fails(p)' /\ (Kind(p) # "parallel" => PassedOn(p, c)')
  BY <1>0 DEF Upheld, Fails, Has, PassedOn
<1>1. CASE p = n
  BY <1>1, ReturningUpheld
<1>2. CASE p # n
  <2>1. c # n
    <3>1. SUFFICES ASSUME n \in Nested(p) PROVE FALSE
      OBVIOUS
    <3>2. pc[p] \in {"wait", "collecting"} /\ Unmoved(p)
      BY <3>1, UpholdParts, MoverIsAwaited, NodeTouches
    <3>3. QED
      BY <3>2 DEF Unmoved
  <2>2. res'[c] = res[c] /\ Fails(c)
    BY <1>2, <2>1, UpholdParts, BelowOthers DEF Unmoved, Fails
  <2>3. CASE pc[p] \in {"idle", "returned"} /\ res'[p] = res[p]
    BY <2>2, <2>3 DEF UpholdInv, Upheld, Fails, PassedOn
  <2>4. CASE ~(pc[p] \in {"idle", "returned"} /\ res'[p] = res[p])
    <3>1. Touches(n, p) /\ ~Unmoved(p) /\ p \in Nested(n)
      BY <1>2, <2>4, UpholdParts, NodeTouches DEF Unmoved
    <3>2. Skips(n, p) /\ at[n] \in Positions(n) /\ p = Current(n)
      BY <2>4, <3>1, EntryIsLabel DEF Touches, Calls, Resumes
    <3>3. Kind(n) # "parallel"
      BY <3>2, UpholdParts DEF Skips, ParallelInv, ParallelPCs
    <3>4. Fresh(p)
      BY <3>2, <3>3 DEF UpholdInv, UnreachedAhead, Ahead, Skips, Current
    <3>5. Fresh(c)
      BY <3>4 DEF UpholdInv, UnreachedInside, FreshInside
    <3>6. QED
      BY <2>2, <3>5 DEF Fresh, Fails, IsError, Plainly
  <2>5. QED  BY <2>3, <2>4
<1>3. QED  BY <1>1, <1>2

--------------------------------------------------------------------------------
(* The theorem.                                                             *)

(* At the beginning of a run, and after a crash, nothing has been reached.  *)
LEMMA NothingReached == EngineInv /\ (\A n \in Node : Fresh(n)) => UpholdInv
<1> SUFFICES ASSUME EngineInv, \A n \in Node : Fresh(n) PROVE UpholdInv
  OBVIOUS
<1> SUFFICES ASSUME NEW n \in Node
             PROVE  Upheld(n) /\ UnreachedInside(n) /\ UnreachedAhead(n) /\ Witnessed(n)
  BY DEF UpholdInv
<1>1. /\ Nested(n) \subseteq Node
      /\ \A i \in Positions(n) : flow[n].steps[i] \in Nested(n)
  BY NestedIsBelow DEF EngineInv, TypeOK, Nested, Node
<1>2. \A x \in Node : ~Fails(x)
  BY DEF Fresh, Fails, IsError, Plainly
<1>3. QED
  BY <1>1, <1>2 DEF Upheld, UnreachedInside, UnreachedAhead, Witnessed, FreshInside, Fresh

LEMMA UpholdInit == Init => UpholdInv
<1>1. Init => EngineInv /\ \A n \in Node : Fresh(n)
  BY EngineInvInit DEF Init, Fresh
<1>2. QED
  BY <1>1, NothingReached

(* The reconciler starts a run in which nothing has been reached.           *)
LEMMA StartUpholds ==
  ASSUME UpholdInv, EngineInv', Start, UNCHANGED flow
  PROVE  UpholdInv'
<1>0. /\ pc[Root] = "idle" /\ pc'[Root] = "next" /\ UNCHANGED <<at, res>>
      /\ \A x \in Step : pc'[x] = pc[x] /\ x # Root
      /\ Root \in Node
  BY UpholdParts, RootAssumption DEF Start, Goto, Node
<1>1. FreshInside(Root)
  BY <1>0 DEF UpholdInv, Witnessed, UnreachedInside, Fresh
<1> SUFFICES ASSUME NEW n \in Node
             PROVE  /\ Upheld(n)' /\ UnreachedInside(n)' /\ UnreachedAhead(n)' /\ Witnessed(n)'
  BY DEF UpholdInv
<1>2. /\ Upheld(n) /\ UnreachedInside(n) /\ UnreachedAhead(n) /\ Witnessed(n)
      /\ Nested(n)' = Nested(n) /\ Positions(n)' = Positions(n) /\ Kind(n)' = Kind(n)
      /\ Current(n)' = Current(n)
  BY <1>0 DEF UpholdInv, Nested, Positions, Kind, Current
<1>3. \A c \in Nested(n) : c \in Step /\ (Fresh(c)' <=> Fresh(c))
  BY <1>0, UpholdParts, NestedIsBelow DEF Fresh
<1>4. \A i \in Positions(n) : flow[n].steps[i] \in Nested(n)
  BY DEF Nested
<1>5. \A x : (Fails(x)' <=> Fails(x)) /\ \A f : Has(x, f)' <=> Has(x, f)
  BY <1>0 DEF Fails, Has
<1>6. CASE n = Root
  <2>1. Upheld(n)' /\ UnreachedInside(n)'
    BY <1>0, <1>6 DEF Upheld, UnreachedInside, Fresh
  <2>2. UnreachedAhead(n)'
    BY <1>1, <1>2, <1>3, <1>4, <1>6 DEF UnreachedAhead, FreshInside, Fresh
  <2>3. Witnessed(n)'
    BY <1>0, <1>6 DEF Witnessed
  <2>4. QED  BY <2>1, <2>2, <2>3
<1>7. CASE n # Root
  <2>0. pc'[n] = pc[n] /\ at'[n] = at[n] /\ res'[n] = res[n]
    BY <1>0, <1>7 DEF Node
  <2>1. Upheld(n)'
    BY <1>0, <1>2, <1>5, <2>0 DEF Upheld, PassedOn
  <2>2. UnreachedInside(n)'
    BY <1>2, <1>3, <2>0 DEF UnreachedInside, FreshInside, Fresh
  <2>3. UnreachedAhead(n)'
    BY <1>2, <1>3, <1>4, <2>0 DEF UnreachedAhead, Ahead, Fresh
  <2>4. Witnessed(n)'
    <3>1. \A p \in Node : Nested(p)' = Nested(p)
      BY DEF Nested, Positions
    <3>2. Fails(Current(n))' <=> Fails(Current(n))
      BY <1>0, <1>2 DEF Fails
    <3>3. QED
      BY <1>2, <2>0, <3>1, <3>2 DEF Witnessed
  <2>5. QED  BY <2>1, <2>2, <2>3, <2>4
<1>8. QED  BY <1>6, <1>7

LEMMA UpholdNext == UpholdInv /\ EngineInv' /\ [Next]_vars => UpholdInv'
<1> SUFFICES ASSUME UpholdInv, EngineInv', [Next]_vars PROVE UpholdInv'
  OBVIOUS
<1>0. UNCHANGED flow
  BY DEF Next, vars
<1>1. ASSUME UNCHANGED <<pc, at, res>> PROVE UpholdInv'
  BY <1>0, <1>1 DEF UpholdInv, Upheld, PassedOn, UnreachedInside, UnreachedAhead, Witnessed,
                    FreshInside, Fresh, Ahead, Fails, Has, Kind, Nested, Positions, Current
<1>2. ASSUME NEW n \in Node, NodeStep(n) PROVE UpholdInv'
  BY <1>0, <1>2, UpheldStep, InsideStep, AheadStep, WitnessedStep DEF UpholdInv
<1>3. CASE Start
  BY <1>0, <1>3, StartUpholds
<1>4. CASE Respond \/ Crash
  <2>1. (\A n \in Node : Fresh(n))'
    <3>1. CASE Respond
      BY <3>1, UpholdParts, NothingLeftBehind DEF Respond, Goto, Fresh, TypeInv, Node
    <3>2. CASE Crash
      BY <3>2 DEF Crash, Fresh
    <3>3. QED  BY <1>4, <3>1, <3>2
  <2>2. EngineInv' /\ (\A n \in Node : Fresh(n))' => UpholdInv'
    BY NothingReached, PTL
  <2>3. QED
    BY <2>1, <2>2
<1>5. QED
  BY <1>1, <1>2, <1>3, <1>4 DEF Next, Lapse, vars

(* The topmost failure that nothing above may continue on is that of the    *)
(* root.                                                                    *)
LEMMA UpheldToTheTop == UpholdInv => NoSilentFailure
<1> SUFFICES ASSUME UpholdInv, pc[Root] = "returned", NEW s \in Step, Fails(s),
                    \A t \in Above(s) : ~Has(t, "continue")
             PROVE  IsError(res[Root])
  BY DEF NoSilentFailure
<1> DEFINE Broken == {t \in Step : t \in Above(s) /\ Fails(t)}
<1>0. flow \in Flows /\ Step \subseteq Node
  BY UpholdParts
<1>1. s \in Broken
  BY <1>0, SubtreeUnfolds DEF Above
<1>2. PICK t \in Broken : \A p \in Broken : t \notin Nested(p)
  BY <1>0, <1>1, Topmost
<1>3. PICK p \in Node : t \in Nested(p)
  <2>1. res[t] # Plainly("unset")
    BY <1>2 DEF Fails, IsError, Plainly
  <2>2. QED
    BY <1>0, <1>2, <2>1 DEF UpholdInv, Witnessed
<1>4. Fails(p)
  <2>1. pc[p] \in {"idle", "returned"}
    BY UpholdParts, NothingLeftBehind DEF Node, TypeInv
  <2>2. QED
    BY <1>2, <1>3, <2>1 DEF UpholdInv, Upheld
<1>5. p \in Above(s)
  BY <1>0, <1>2, <1>3, SubtreeUnfolds DEF Above
<1>6. p = Root
  BY <1>2, <1>3, <1>4, <1>5 DEF Node
<1>7. QED
  BY <1>4, <1>6 DEF Fails

(* What asks for patience below no parallel step and nothing that may       *)
(* continue on error comes out at the top.                                  *)
LEMMA PatienceReachesTheTop == UpholdInv => WaitIsRequeuedSoon
<1> SUFFICES ASSUME UpholdInv, pc[Root] = "returned", NEW s \in Step, AsksForPatience(s),
                    \A t \in Above(s) : Kind(t) # "parallel" /\ ~Has(t, "continue")
             PROVE  Requeue(res[Root]) = "soon" \/ res[Root].base = "update"
  BY DEF WaitIsRequeuedSoon
<1> DEFINE Asks(t) == res[t].base \in {res[s].base, "update"}
           Asking == {t \in Step : t \in Above(s) /\ Fails(t) /\ Asks(t)}
<1>0. flow \in Flows /\ Step \subseteq Node
  BY UpholdParts
<1>1. res[s].base \in {"wait", "aborted"} /\ Fails(s)
  BY DEF AsksForPatience, Fails, IsError, IsExpected, Plainly
<1>2. s \in Asking
  BY <1>0, <1>1, SubtreeUnfolds DEF Above
<1>3. PICK t \in Asking : \A p \in Asking : t \notin Nested(p)
  BY <1>0, <1>2, Topmost
<1>4. PICK p \in Node : t \in Nested(p)
  <2>1. res[t] # Plainly("unset")
    BY <1>3 DEF Fails, IsError, Plainly
  <2>2. QED
    BY <1>0, <1>3, <2>1 DEF UpholdInv, Witnessed
<1>5. p \in Above(s)
  BY <1>0, <1>3, <1>4, SubtreeUnfolds DEF Above
<1>6. Fails(p) /\ PassedOn(p, t)
  <2>1. pc[p] \in {"idle", "returned"}
    BY UpholdParts, NothingLeftBehind DEF Node, TypeInv
  <2>2. QED
    BY <1>3, <1>4, <1>5, <2>1 DEF UpholdInv, Upheld
<1>7. p = Root
  <2>1. Asks(p)
    BY <1>3, <1>6 DEF PassedOn
  <2>2. QED
    BY <1>3, <1>4, <1>5, <1>6, <2>1 DEF Node
<1>8. CASE res[Root].base = "update"
  BY <1>8
<1>9. CASE res[Root].base # "update"
  <2>1. res[Root].base \in {"wait", "aborted"} /\ res[Root].layers > 0
    BY <1>1, <1>3, <1>6, <1>7, <1>9 DEF PassedOn
  <2>2. QED
    BY <2>1 DEF Requeue, IsError
<1>10. QED  BY <1>8, <1>9

(* Why no failure is lost on the way up.                                    *)
THEOREM FailuresUpheld == Spec => []UpholdInv
<1>1. Init => UpholdInv
  BY UpholdInit
<1>2. UpholdInv /\ EngineInv' /\ [Next]_vars => UpholdInv'
  BY UpholdNext
<1>3. QED
  BY <1>1, <1>2, EngineInvariant, PTL DEF Spec

(* A run that reports success has lost no failure of a step that may not be *)
(* continued on, at any depth of any flow and on any goroutine, whatever    *)
(* the keeper's faults (step_engine.go:288-334, parallel_steps.go:159-175). *)
THEOREM NoFailureIsSilent == Spec => []NoSilentFailure
<1>1. QED
  BY UpheldToTheTop, FailuresUpheld, PTL

(* However deep a wait or an abort happens, it reaches the reconciler as    *)
(* such, unless a parallel step, a step that may continue on error or a     *)
(* fault of the keeper is on its way (step_engine.go:386-409).              *)
THEOREM PatienceIsHeard == Spec => []WaitIsRequeuedSoon
<1>1. QED
  BY PatienceReachesTheTop, FailuresUpheld, PTL

--------------------------------------------------------------------------------
(* When dynamic steps are generated.                                        *)

(* No node goes back.                                                       *)
LEMMA NeverBack ==
  ASSUME EngineInv, NEW n \in Node, NodeStep(n), UNCHANGED flow, NEW e \in Node
  PROVE  at[e] \in Nat /\ at'[e] \in Nat /\ at[e] <= at'[e]
<1>0. TypeInv /\ SuccessInv /\ at \in [Node -> Nat \ {0}]
  BY EngineInvParts DEF TypeInv, TypeOK
<1>1. CASE EngineStep(n)
  <2>1. CASE e = n
    BY <1>0, <1>1, <2>1, EnginePassesOrStays DEF Passes, Stays
  <2>2. CASE e # n
    BY <1>0, <1>1, <2>2, EngineCounters
  <2>3. QED  BY <2>1, <2>2
<1>2. CASE n \in Step /\ StepStep(n)
  BY <1>0, <1>2, BodyCounters
<1>3. QED
  BY <1>1, <1>2 DEF NodeStep

(* Only an engine that considers its step has anything generated.           *)
LEMMA GeneratedStep ==
  ASSUME NEW n \in Node, NodeStep(n)
  PROVE  \/ generated' = generated
         \/ Consider(n) /\ generated' = generated \cup GeneratedWith(Current(n))
BY DEF NodeStep, EngineStep, StepStep, EngineDone, Consider, Predicates, Throttle, Launch, Resume,
       Failed, Callback, Confirm, Record, Complete, FunctionReturns, Fork, Goroutine, Join

(* A step around an active one is active, so whoever started it waits.      *)
LEMMA AwaitedAround ==
  ASSUME TypeOK, StructuredConcurrency, NEW e \in Node, NEW c \in Nested(e),
         NEW n \in Subtree[c], pc[n] # "idle"
  PROVE  WaitsFor(e, c)
<1>0. flow \in Flows /\ c \in Step /\ c \in Node
  BY NestedIsBelow DEF TypeOK, Node
<1> DEFINE Active == {x \in Step : x \in Subtree[c] /\ pc[x] # "idle"}
<1>1. n \in Active
  BY <1>0, BelowSteps
<1>2. PICK t \in Active : \A p \in Active : t \notin Nested(p)
  BY <1>0, <1>1, Topmost
<1>3. t = c
  <2>1. SUFFICES ASSUME t # c PROVE FALSE
    OBVIOUS
  <2>2. PICK p \in Subtree[c] : t \in Nested(p)
    BY <1>0, <1>2, <2>1, ParentInside
  <2>3. p \in Step /\ p \in Node
    BY <1>0, <2>2, BelowSteps DEF Node
  <2>4. WaitsFor(p, t)
    BY <1>2, <2>2, <2>3, ChildIdle
  <2>5. QED
    BY <1>2, <2>2, <2>3, <2>4 DEF WaitsFor
<1>4. QED
  BY <1>2, <1>3, ChildIdle

(* A dynamic step that is generated with s, the current step of n, is below *)
(* no step that an engine with a keeper of its own, or none, has ahead.     *)
LEMMA NotAhead ==
  ASSUME EngineInv, NEW n \in Node, pc[n] = "next", at[n] \in Positions(n),
         NEW d \in GeneratedWith(Current(n)),
         NEW e \in Node, NEW i \in Positions(e), e = Root \/ Kind(e) = "operation",
         d \in GeneratedWith(flow[e].steps[i])
  PROVE  i = at[e]
<1> DEFINE c == flow[e].steps[i]
           s == Current(n)
<1>0. TypeOK /\ flow \in Flows /\ StructuredConcurrency /\ Step \subseteq Node
  BY EngineInvParts DEF TypeInv, TypeOK, Node
<1>1. c \in Nested(e) /\ c \in Step /\ s \in Nested(n) /\ s \in Step
  BY <1>0, NestedIsBelow, CurrentIsNested DEF Nested
<1>2. d \in Subtree[c] /\ d \in Subtree[s]
  BY DEF GeneratedWith
<1>3. CASE c = s
  <2>1. flow[e].steps[i] = flow[n].steps[at[n]]
    BY <1>3 DEF Current
  <2>2. QED
    BY <1>0, <2>1, OnePosition
<1>4. CASE c # s /\ c \in Subtree[s]
  <2>1. e \in Subtree[s]
    BY <1>0, <1>1, <1>4, ParentInside, OneParent, SubtreeCloses
  <2>2. e # Root /\ Kind(e) = "operation" /\ e \in Step
    BY <1>0, <1>1, <2>1, BelowSteps, RootAssumption
  <2>3. d \in Subtree[e]
    BY <1>0, <1>1, <1>2, SubtreeCloses
  <2>4. QED
    BY <2>1, <2>2, <2>3 DEF GeneratedWith
<1>5. CASE c # s /\ s \in Subtree[c]
  <2>1. n \in Subtree[c]
    BY <1>0, <1>1, <1>5, ParentInside, OneParent, SubtreeCloses
  <2>2. WaitsFor(e, c)
    BY <1>0, <1>1, <2>1, AwaitedAround
  <2>3. Kind(e) # "parallel"
    BY <1>0, FlowIsWellFormed DEF WellFormed, Kind
  <2>4. at[e] \in Positions(e) /\ flow[e].steps[at[e]] = flow[e].steps[i]
    BY <2>2, <2>3 DEF WaitsFor, EngineInv, Current
  <2>5. QED
    BY <1>0, <2>4, OnePosition
<1>6. QED
  BY <1>0, <1>1, <1>2, <1>3, <1>4, <1>5, Chain

LEMMA GeneratedNext == EngineInv /\ GeneratedWhenReached /\ [Next]_vars => GeneratedWhenReached'
<1> SUFFICES ASSUME EngineInv, GeneratedWhenReached, [Next]_vars PROVE GeneratedWhenReached'
  OBVIOUS
<1>0. UNCHANGED flow
  BY DEF Next, vars
<1> SUFFICES ASSUME NEW d \in generated', NEW e \in Node, NEW i \in Positions(e),
                    e = Root \/ Kind(e) = "operation", NEW c, c = flow[e].steps[i],
                    d \in GeneratedWith(c)
             PROVE  i <= at'[e]
  <2>1. Subtree' = Subtree
    BY <1>0 DEF Subtree, Nested, Positions
  <2>2. \A s : GeneratedWith(s)' = GeneratedWith(s)
    BY <1>0, <2>1 DEF GeneratedWith, Kind
  <2>3. QED
    BY <1>0, <2>2 DEF GeneratedWhenReached, Positions, Kind
<1>1. at[e] \in Nat /\ i \in Int
  BY DEF EngineInv, TypeOK, Positions
<1>2. d \in generated => i <= at[e]
  BY DEF GeneratedWhenReached
<1>3. CASE UNCHANGED <<at, generated>>
  BY <1>2, <1>3
<1>4. CASE generated' = {}
  BY <1>4
<1>5. ASSUME NEW n \in Node, NodeStep(n) PROVE i <= at'[e]
  <2>1. at'[e] \in Nat /\ at[e] <= at'[e]
    BY <1>0, <1>5, NeverBack
  <2>2. d \in generated \/ (Consider(n) /\ d \in GeneratedWith(Current(n)))
    BY <1>5, GeneratedStep
  <2>3. CASE Consider(n) /\ d \in GeneratedWith(Current(n))
    BY <1>1, <2>1, <2>3, NotAhead DEF Consider
  <2>4. QED
    BY <1>1, <1>2, <2>1, <2>2, <2>3
<1>6. QED
  BY <1>3, <1>4, <1>5 DEF Next, Start, Respond, Lapse, Crash, vars

(* In every flow, through any chain of groups, dynamic and parallel steps,  *)
(* and under every schedule and fault, no dynamic step is generated before  *)
(* the engine that hands down the keeper has reached the step around it     *)
(* (dynamic_step.go:140, 151-159).                                          *)
THEOREM GeneratedInTime == Spec => []GeneratedWhenReached
<1>1. Init => GeneratedWhenReached
  BY DEF Init, GeneratedWhenReached
<1>2. QED
  BY <1>1, GeneratedNext, EngineInvariant, PTL DEF Spec
================================================================================
