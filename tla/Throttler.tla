------------------------------- MODULE Throttler -------------------------------
(***************************************************************************)
(* What interface Throttler (throttling/throttling.go:56) promises to the  *)
(* engine, without times, entries, sweeps and locks: each question is      *)
(* answered at one moment, by what the window of the key amounts to then.  *)
(* This is the throttler of StepsEngine.                                   *)
(***************************************************************************)
CONSTANTS
  Caller,    \* who asks
  Key,       \* partitioned keys
  Settings   \* the ThrottlingSettings a key may be used with

VARIABLES
  config,    \* the settings each key is used with
  window,    \* what the entry of each key amounts to
  granted    \* the callers that were allowed to run a step, with its key

vars == <<config, window, granted>>

Windows == {"absent", "recent", "elapsed"}

TypeOK ==
  /\ config \in [Key -> Settings]
  /\ window \in [Key -> Windows]
  /\ granted \subseteq Caller \X Key

Init ==
  /\ config \in [Key -> Settings]
  /\ window = [k \in Key |-> "absent"]
  /\ granted = {}

Becomes(k, w) == window' = [window EXCEPT ![k] = w]

(* ShouldRun allows a step that has not run in this interval, and the first *)
(* run of one whose interval is not pre-set; refusing it changes nothing.   *)
Allow(c, k) ==
  /\ \A j \in Key : <<c, j>> \notin granted
  /\ window[k] # "recent"
  /\ window[k] = "absent" => ~config[k].preset
  /\ granted' = granted \cup {<<c, k>>}
  /\ IF config[k].ensure THEN UNCHANGED window ELSE Becomes(k, "recent")

(* The first question about a pre-set key is refused and starts its         *)
(* interval.                                                                *)
Preset(k) ==
  /\ window[k] = "absent"
  /\ config[k].preset
  /\ Becomes(k, "recent")
  /\ UNCHANGED granted

(* The step is over: only its success starts the interval of one that asks  *)
(* for that.                                                                *)
Finish(c, k) ==
  /\ <<c, k>> \in granted
  /\ granted' = granted \ {<<c, k>>}
  /\ \/ UNCHANGED window
     \/ config[k].ensure /\ Becomes(k, "recent")

Reset(k) == Becomes(k, "elapsed") /\ UNCHANGED granted

Evict(k) == Becomes(k, "absent") /\ UNCHANGED granted

(* The intervals of some keys are over.                                     *)
Lapse(K) ==
  /\ window' = [k \in Key |-> IF k \in K /\ window[k] = "recent" THEN "elapsed" ELSE window[k]]
  /\ UNCHANGED granted

Next ==
  /\ UNCHANGED config
  /\ \/ \E c \in Caller, k \in Key : Allow(c, k) \/ Finish(c, k)
     \/ \E k \in Key : Preset(k) \/ Reset(k) \/ Evict(k)
     \/ \E K \in SUBSET Key : Lapse(K)

Spec == Init /\ [][Next]_vars
================================================================================
