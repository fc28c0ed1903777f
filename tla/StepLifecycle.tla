----------------------------- MODULE StepLifecycle -----------------------------
(***************************************************************************)
(* What the engine promises about a persisted step state, seen one name at *)
(* a time and without flows, nesting, goroutines or errors: at most one    *)
(* execution of the step is in progress, none begins once the step has     *)
(* succeeded, only an execution decides the outcome, and succeeded is      *)
(* terminal while failed is not, except for steps with SkipStepStateCheck  *)
(* (the StepStatus constants and the StateKeeper interface of              *)
(* lifecycle/step_engine.go).                                              *)
(***************************************************************************)
CONSTANT StateName

VARIABLES
  status,     \* what the keeper holds
  active,     \* the names whose step is in progress
  repeatable  \* the names of steps that run again after a success

Statuses == {"pending", "running", "succeeded", "failed"}

Init ==
  /\ status = [x \in StateName |-> "pending"]
  /\ active = {}
  /\ repeatable \subseteq StateName

Open(x) == status[x] # "succeeded" \/ x \in repeatable

Report(x, s) == status' = [status EXCEPT ![x] = s]

(* An execution begins, announced as running where the keeper can say so.   *)
Begin(x) ==
  /\ x \notin active
  /\ Open(x)
  /\ active' = active \cup {x}
  /\ Report(x, "running") \/ UNCHANGED status

(* The announcement was made, but the keeper reported an error: the step    *)
(* does not begin.                                                          *)
Announce(x) ==
  /\ x \notin active
  /\ Open(x)
  /\ Report(x, "running")
  /\ UNCHANGED active

(* The execution says how it goes, perhaps as its last act.                 *)
Progress(x) ==
  /\ x \in active
  /\ \/ Open(x) /\ \E s \in Statuses \ {"pending"} : Report(x, s)
     \/ UNCHANGED status
  /\ active' \in {active, active \ {x}}

(* Everything in progress is abandoned.                                     *)
Abandon == active' = {} /\ UNCHANGED status

Next ==
  /\ UNCHANGED repeatable
  /\ Abandon \/ \E x \in StateName : Begin(x) \/ Announce(x) \/ Progress(x)

Spec == Init /\ [][Next]_<<status, active, repeatable>>
================================================================================
