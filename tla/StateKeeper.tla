------------------------------ MODULE StateKeeper -------------------------------
(***************************************************************************)
(* The contract of interface StateKeeper (lifecycle/step_engine.go:102):   *)
(* GetStepState and SetStepState as concurrent callers see them.           *)
(*                                                                         *)
(* possible[n] holds the statuses that n may turn out to have.  While a    *)
(* call is under way, and after it has failed, its status is one of        *)
(* several; once a call has taken effect it is the only one, but for calls *)
(* that are still under way.  A call that returns nil has taken effect.    *)
(***************************************************************************)
CONSTANTS
  Caller,     \* goroutines that use the keeper
  StateName,  \* names of step states
  Ignored     \* statuses the keeper does not keep (SupportsRunningState)

VARIABLES
  possible,   \* the statuses each state may turn out to have
  call        \* the call each caller has under way

vars == <<possible, call>>

Statuses == {"pending", "running", "succeeded", "failed"}

Phases == {"called", "done"}

Idle == [op |-> "none", phase |-> "done"]

Get(n, phase, answer) == [op |-> "get", phase |-> phase, name |-> n, status |-> answer]

Set(n, phase, status) == [op |-> "set", phase |-> phase, name |-> n, status |-> status]

Calls ==
  {Idle} \cup {Get(n, ph, x) : n \in StateName, ph \in Phases, x \in Statuses}
         \cup {Set(n, ph, x) : n \in StateName, ph \in Phases, x \in Statuses}

TypeOK ==
  /\ possible \in [StateName -> SUBSET Statuses \ {{}}]
  /\ call \in [Caller -> Calls]

Init ==
  /\ possible = [n \in StateName |-> {"pending"}]
  /\ call = [c \in Caller |-> Idle]

(* What the calls that some callers have under way may still write to n.    *)
UnderWay(callers, n) ==
  {x \in Statuses \ Ignored : \E c \in callers : call[c] = Set(n, "called", x)}

(* It turns out which of its possible statuses a state has, or has not.     *)
Narrows(n) == possible'[n] # {} /\ possible'[n] \subseteq possible[n]

Becomes(c, x) == call' = [call EXCEPT ![c] = x]

CallGet(c, n, x) ==
  /\ call[c] = Idle
  /\ Becomes(c, Get(n, "called", x))
  /\ UNCHANGED possible

Answer(c, n, x) ==
  /\ \E y \in Statuses : call[c] = Get(n, "called", y)
  /\ x \in possible[n]
  /\ Becomes(c, Get(n, "done", x))
  /\ UNCHANGED possible

CallSet(c, n, x) ==
  /\ call[c] = Idle
  /\ Becomes(c, Set(n, "called", x))
  /\ IF x \in Ignored THEN UNCHANGED possible
                      ELSE possible' = [possible EXCEPT ![n] = @ \cup {x}]

(* The call takes effect: what was in doubt about n is settled.             *)
TakeEffect(c, n, x) ==
  /\ call[c] = Set(n, "called", x)
  /\ Becomes(c, Set(n, "done", x))
  /\ IF x \in Ignored
     THEN UNCHANGED possible
     ELSE /\ possible' \in [StateName -> SUBSET Statuses]
          /\ \A m \in StateName : Narrows(m) /\ UnderWay(Caller \ {c}, m) \subseteq possible'[m]
          /\ possible'[n] = {x} \cup UnderWay(Caller \ {c}, n)

(* Nil is returned of a call that has taken effect.                         *)
ReturnNil(c) ==
  /\ call[c].phase = "done"
  /\ Becomes(c, Idle)
  /\ UNCHANGED possible

(* An error says nothing: the status may have been persisted or not.        *)
ReturnError(c) ==
  /\ call[c].op # "none"
  /\ Becomes(c, Idle)
  /\ UNCHANGED possible

(* A state in doubt is settled when the process restarts, when the object   *)
(* is fetched again, or by another call.                                    *)
Settle ==
  /\ possible' \in [StateName -> SUBSET Statuses]
  /\ \A n \in StateName : Narrows(n) /\ UnderWay(Caller, n) \subseteq possible'[n]
  /\ UNCHANGED call

Next ==
  \/ \E c \in Caller, n \in StateName, x \in Statuses :
       CallGet(c, n, x) \/ Answer(c, n, x) \/ CallSet(c, n, x) \/ TakeEffect(c, n, x)
  \/ \E c \in Caller : ReturnNil(c) \/ ReturnError(c)
  \/ Settle

Spec == Init /\ [][Next]_vars
================================================================================
