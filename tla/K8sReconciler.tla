----------------------------- MODULE K8sReconciler ------------------------------
(***************************************************************************)
(* A reconciler that runs a StepsEngine over a K8sObject, as               *)
(* examples/k8s-controller/main.go and the README do: fetch the object,    *)
(* build the steps, run the engine, answer.  StepsEngine composed with the *)
(* keeper of module K8sObject: stored is now the local copy, which a write *)
(* changes whether or not the API server takes the update, and a later     *)
(* update sends along what an earlier one failed to persist.               *)
(*                                                                         *)
(* The client may read from a cache that lags behind.  Others update the   *)
(* object, updates are refused, replies are lost and the process stops: a  *)
(* number of times that only the model bounds.                             *)
(***************************************************************************)
EXTENDS EngineProperties, PredicateFuncs

CONSTANTS
  Guards,           \* the PredicateFuncs of the steps that have predicates
  MaxDisturbances   \* bound on faults, for model checking

ASSUME GuardAssumption == Guards \in [Step -> Seq(PredicateFunc)]
ASSUME DisturbanceAssumption == MaxDisturbances \in Nat

(* K8sObject never fails to read and has no running state (k8s.go:50-82);   *)
(* and where no two goroutines share it, a call is as good as one step.     *)
ASSUME KeeperAssumption ==
  /\ ~ReadsMayFail
  /\ \A f \in Flows : /\ "running" \notin f[Root].flags
                      /\ \A n \in Node : f[n].kind # "parallel"

VARIABLES
  server,        \* the statuses the API server has
  current,       \* the local copy is of the version the server has
  cached,        \* the statuses the client's cache has
  fresh,         \* and the cache is of the version the server has
  disturbances   \* faults so far

k8sVars == <<server, current, cached, fresh, disturbances>>
allVars == <<vars, k8sVars>>

K8sTypeOK ==
  /\ TypeOK
  /\ server \in [StateName -> Statuses \ {"running"}]
  /\ cached \in [StateName -> Statuses \ {"running"}]
  /\ {current, fresh} \subseteq BOOLEAN
  /\ disturbances \in 0..MaxDisturbances

K8sInit ==
  /\ Init
  /\ server = stored
  /\ cached = stored
  /\ current = FALSE
  /\ fresh = TRUE
  /\ disturbances = 0

Disturb == disturbances < MaxDisturbances /\ disturbances' = disturbances + 1

(* The engine of the example controller: validate-spec, create-deployment,  *)
(* create-service and finalize-status, each with its condition and nothing  *)
(* else.                                                                    *)
ControllerFlow(steps, condition, k) ==
  [n \in Node |->
     [kind  |-> IF n = Root THEN "engine" ELSE "simple",
      steps |-> IF n = Root THEN steps ELSE << >>,
      state |-> IF n \in DOMAIN condition THEN condition[n] ELSE NoState,
      key   |-> k,
      flags |-> IF n = Root THEN {"keeper"} ELSE {}]]

--------------------------------------------------------------------------------
(* The predicates of a step, called one after the other.                    *)
TrueConditions == {x \in StateName : stored[x] = "succeeded"}

(* Mutant: any condition that is set will do.                               *)
HoldsWhenSet(s) ==
  \A i \in DOMAIN Guards[s] : HoldsGiven({x \in StateName : stored[x] # "pending"})[Guards[s][i]]

Holds(s) == \A i \in DOMAIN Guards[s] : HoldsGiven(TrueConditions)[Guards[s][i]]

Evaluates(e) ==
  pc[e] = "predicates" /\ Has(Current(e), "predicate") =>
    (pc'[e] = "throttle") = Holds(Current(e))

(* The engine calls SetStepState.                                           *)
Persists(e) == pc[e] \in {"failing", "recording"} /\ Tracked(Current(e))

Status(e) == IF pc[e] = "failing" THEN "failed" ELSE "succeeded"

(* Mutant: an update that meets another version is sent again with it.      *)
UpdateOnceMore(e) ==
  /\ Write(Current(e), Status(e))
  /\ \/ /\ pc'[e] # "returned"
        /\ server' = [server EXCEPT ![StateOf(Current(e))] = Status(e)]
        /\ fresh' = FALSE
        /\ current' = TRUE
        /\ UNCHANGED disturbances
     \/ /\ pc'[e] = "returned"
        /\ Disturb
        /\ UNCHANGED <<server, current, fresh>>

(* Mutant: nil is returned when the update is not needed any more.          *)
UpdateForgivingly(e) ==
  /\ Write(Current(e), Status(e))
  /\ \/ pc'[e] # "returned" /\ current /\ server' = stored' /\ fresh' = FALSE
     \/ pc'[e] # "returned" /\ ~current /\ UNCHANGED <<server, fresh>>
  /\ UNCHANGED <<current, disturbances>>

(* The local copy is changed; then the server takes all of it, if it is of  *)
(* its version, or does not; or takes it and the reply is lost.             *)
Update(e) ==
  /\ Write(Current(e), Status(e))
  /\ \/ /\ pc'[e] # "returned"
        /\ current
        /\ server' = stored'
        /\ fresh' = FALSE
        /\ UNCHANGED <<current, disturbances>>
     \/ /\ pc'[e] = "returned"
        /\ IF current THEN Disturb ELSE UNCHANGED disturbances
        /\ \/ UNCHANGED <<server, current, fresh>>
           \/ current /\ server' = stored' /\ current' = FALSE /\ fresh' = FALSE

RunStep(n) ==
  /\ NodeStep(n)
  /\ Evaluates(n)
  /\ IF Persists(n) THEN Update(n) ELSE UNCHANGED <<server, current, fresh, disturbances>>
  /\ UNCHANGED cached

(* Reconcile: fetches the object and builds the engine.                     *)
Reconcile ==
  /\ pc[Root] = "idle"
  /\ Goto(Root, "next")
  /\ stored' = cached
  /\ current' = fresh
  /\ UNCHANGED <<at, res, window, generated, cleaned, panicked>>
  /\ UNCHANGED <<server, cached, fresh, disturbances>>

Sync ==
  /\ ~fresh
  /\ cached' = server
  /\ fresh' = TRUE
  /\ UNCHANGED <<pc, at, res, stored, window, generated, cleaned, panicked>>
  /\ UNCHANGED <<server, current, disturbances>>

(* Another writer, of conditions that are not names of steps.               *)
ForeignUpdate ==
  /\ Disturb
  /\ current' = FALSE
  /\ fresh' = FALSE
  /\ UNCHANGED <<pc, at, res, stored, window, generated, cleaned, panicked>>
  /\ UNCHANGED <<server, cached>>

(* Which only a throttler notices.                                          *)
TimePasses(k) == Has(Root, "throttler") /\ Lapse(k) /\ UNCHANGED k8sVars

K8sNext ==
  /\ UNCHANGED flow
  /\ \/ /\ ~panicked
        /\ \/ \E n \in Node : RunStep(n)
           \/ Reconcile
           \/ Respond /\ UNCHANGED k8sVars
           \/ \E k \in Key : TimePasses(k)
     \/ Sync
     \/ ForeignUpdate
     \/ Crash /\ Disturb /\ UNCHANGED <<server, current, cached, fresh>>

K8sSpec == K8sInit /\ [][K8sNext]_allVars

(* The controller works, the cache catches up and time passes; and a        *)
(* function that is called again and again succeeds at last, in a run whose *)
(* copy is of the latest version, as its outcome has nothing to do with it. *)
K8sFairness ==
  /\ \A n \in Node : WF_allVars(UNCHANGED flow /\ ~panicked /\ RunStep(n))
  /\ WF_allVars(UNCHANGED flow /\ ~panicked /\ (Reconcile \/ (Respond /\ UNCHANGED k8sVars)))
  /\ WF_allVars(UNCHANGED flow /\ Sync)
  /\ \A k \in Key : WF_allVars(/\ UNCHANGED flow /\ ~panicked
                               /\ window[k] = "recent" /\ TimePasses(k))
  /\ \A s \in Step : SF_allVars(/\ ~panicked /\ pc[s] = "executing" /\ current
                                /\ Return(s, Plainly("nil"))
                                /\ UNCHANGED <<flow, stored, window, generated, cleaned, panicked>>
                                /\ UNCHANGED k8sVars)

FairK8sSpec == K8sSpec /\ K8sFairness

--------------------------------------------------------------------------------
(* A fresh cache has what the server has; and a copy of the latest version  *)
(* differs from the server only in what an update of this run that was      *)
(* refused has left in it (k8s.go:84-93).                                   *)
K8sInv ==
  /\ K8sTypeOK
  /\ fresh => cached = server
  /\ current /\ pc[Root] # "idle" /\ stored # server =>
       \E e \in Node : res[e].base = "update"

(* A step that has succeeded on the server stays so: no run that works on a *)
(* stale copy, after a lost reply or over two engines that share a state    *)
(* takes it back, unless the step has SkipStepStateCheck.                   *)
SuccessIsFinal ==
  [][\A s \in Step :
       /\ Tracked(s) /\ ~Has(s, "skipCheck")
       /\ server[StateOf(s)] = "succeeded"
       => server'[StateOf(s)] = "succeeded"]_allVars

(* When an engine has left a step, what the step returned is on the server, *)
(* not just in the copy of this run (k8s.go:84-93 and step_engine.go:299),  *)
(* but for one case: a step with SkipStepStateCheck succeeds again in a run *)
(* whose copy says so already, and nobody asks the server                   *)
(* (step_engine.go:341).                                                    *)
OutcomeIsOnServer ==
  \A e \in Node : \A i \in Positions(e) :
    Left(e, i) =>
      LET s == flow[e].steps[i]
      IN Tracked(s) /\ Unshared(s) =>
           /\ res[s].base = "nil" /\ ~Has(s, "skipCheck") => server[StateOf(s)] = "succeeded"
           /\ Fails(s) => server[StateOf(s)] = "failed"

(* A step guarded by IsTrueCondition, which reads the local copy, succeeds  *)
(* on the server only where the condition is true on the server too, even   *)
(* when the update that should have persisted it had failed                 *)
(* (predicate_func.go:17-21, k8s.go:88).                                    *)
GuardHoldsOnServer ==
  \A s \in Step : \A i \in DOMAIN Guards[s] :
    LET guard == Built[Guards[s][i]]
    IN /\ Tracked(s) /\ Has(s, "predicate")
       /\ guard.by = "IsTrueCondition"
       /\ server[StateOf(s)] = "succeeded"
       => server[guard.condition] = "succeeded"

(* After any number of faults, the flow succeeds on the server for good,    *)
(* but for the steps that run again in every reconciliation.                *)
ServerConverges ==
  <>[](\A s \in Step :
         s \in Subtree[Root] /\ Tracked(s) /\ ~Has(s, "skipCheck") =>
           server[StateOf(s)] = "succeeded")
================================================================================
