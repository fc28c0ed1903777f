------------------------------- MODULE K8sObject --------------------------------
(***************************************************************************)
(* The StateKeeper that keeps states as conditions of a Kubernetes object  *)
(* (lifecycle/k8s.go).  A reconciler fetches the object, works on its own  *)
(* copy, and sends the whole of its status back; the API server accepts    *)
(* the update of the latest version only, and other writers change the     *)
(* object meanwhile.                                                       *)
(*                                                                         *)
(* A call of SetStepState is taken apart at each access of the local copy  *)
(* and of the server, as the goroutines of a parallel step may share one   *)
(* K8sObject.  Conditions points at the conditions of Object.              *)
(***************************************************************************)
EXTENDS Integers

CONSTANTS
  Goroutine,   \* those that use the K8sObject
  StateName,   \* condition types that are names of steps
  Foreign,     \* condition types that somebody else maintains
  Owns,        \* the names each goroutine sets
  Absent,      \* no condition of a type
  SuccessReasons,     \* State.Reason of the steps, or Success
  ForeignConditions,  \* what others set theirs to
  MaxVersion   \* bound of resourceVersion, for model checking

ASSUME TypesAssumption ==
  /\ StateName \cap Foreign = {}
  /\ Owns \in [Goroutine -> SUBSET StateName]
  /\ MaxVersion \in Nat

Type == StateName \cup Foreign

Reasons == {"", "Success", "Error", "InProgress"}

Condition == [status : {"True", "False", "Unknown"}, reason : Reasons]

ASSUME ConditionAssumption ==
  /\ Absent \notin Condition
  /\ SuccessReasons \subseteq Reasons
  /\ ForeignConditions \subseteq Condition

Conditions == [Type -> Condition \cup {Absent}]

StepState == [status : {"pending", "running", "succeeded", "failed"}, reason : Reasons]

Pending == [status |-> "pending", reason |-> ""]

(* The states that the engine sets: running without a reason, failed with   *)
(* Error, succeeded with the reason of the step or Success.                 *)
EngineStates ==
  {[status |-> "running", reason |-> ""], [status |-> "failed", reason |-> "Error"]}
  \cup {[status |-> "succeeded", reason |-> r] : r \in SuccessReasons}

stepStateToK8sCondition(s) ==
  [status |-> CASE s.status = "succeeded" -> "True"
                [] s.status = "failed"    -> "False"
                [] OTHER                  -> "Unknown",
   reason |-> s.reason]

(* Mutant: a reason is looked at before the status.                         *)
ReasonFirst(c) ==
  [status |-> IF c.reason = "Error" THEN "failed"
              ELSE IF c.status = "True" THEN "succeeded" ELSE "pending",
   reason |-> c.reason]

k8sConditionToStepState(c) ==
  [status |-> IF c.status = "True" THEN "succeeded"
              ELSE CASE c.reason = "Error"      -> "failed"
                     [] c.reason = "InProgress" -> "running"
                     [] OTHER                   -> "pending",
   reason |-> c.reason]

(* The status of a step, as read in some conditions.                        *)
StatusIn(conditions, n) ==
  IF conditions[n] = Absent THEN "pending"
  ELSE k8sConditionToStepState(conditions[n]).status

VARIABLES
  local,          \* the conditions of the reconciler's copy
  version,        \* its resourceVersion
  server,         \* the conditions the API server has
  serverVersion,  \* and their resourceVersion
  pc,             \* where each goroutine is
  request,        \* the name and state it sets, or the answer it got
  seen,           \* the conditions it found when it looked for its own
  message,        \* the object on its way to the server, or back
  acked           \* history: what SetStepState last returned nil for, by name

vars == <<local, version, server, serverVersion, pc, request, seen, message, acked>>

PCs == {"idle", "get", "got", "skipped", "find", "append", "update", "sent", "accepted",
        "persisted", "failed"}

Object == [conditions : Conditions, version : 0..MaxVersion]

None == "none"

TypeOK ==
  /\ local \in Conditions
  /\ version \in 0..MaxVersion
  /\ server \in Conditions
  /\ serverVersion \in 0..MaxVersion
  /\ pc \in [Goroutine -> PCs]
  /\ request \in [Goroutine -> [name : StateName, state : StepState]]
  /\ seen \in [Goroutine -> Conditions]
  /\ message \in [Goroutine -> Object]
  /\ acked \in [StateName -> {"succeeded", "failed", None}]

Empty == [t \in Type |-> Absent]

Init ==
  /\ local = Empty
  /\ version = 0
  /\ server = Empty
  /\ serverVersion = 0
  /\ pc = [g \in Goroutine |-> "idle"]
  /\ \E n \in StateName : request = [g \in Goroutine |-> [name |-> n, state |-> Pending]]
  /\ seen = [g \in Goroutine |-> Empty]
  /\ message = [g \in Goroutine |-> [conditions |-> Empty, version |-> 0]]
  /\ acked = [n \in StateName |-> None]

Goto(g, label) == pc' = [pc EXCEPT ![g] = label]

--------------------------------------------------------------------------------
(* GetStepState looks only at the local copy.                               *)
GetStepState(g, n) ==
  /\ pc[g] = "idle"
  /\ Goto(g, "get")
  /\ request' = [request EXCEPT ![g] = [name |-> n, state |-> Pending]]
  /\ UNCHANGED <<local, version, server, serverVersion, seen, message, acked>>

FindStatusCondition(g) ==
  /\ pc[g] = "get"
  /\ Goto(g, "got")
  /\ LET n == request[g].name
     IN IF local[n] = Absent
        THEN UNCHANGED request
        ELSE request' = [request EXCEPT ![g].state = k8sConditionToStepState(local[n])]
  /\ UNCHANGED <<local, version, server, serverVersion, seen, message, acked>>

(* Unknown conditions and running states are not kept.                      *)
Skipped(s) == stepStateToK8sCondition(s).status = "Unknown" \/ s.status = "running"

SetStepState(g, n, s) ==
  /\ pc[g] = "idle"
  /\ Goto(g, "find")
  /\ request' = [request EXCEPT ![g] = [name |-> n, state |-> s]]
  /\ acked' = IF Skipped(s) THEN acked ELSE [acked EXCEPT ![n] = None]
  /\ UNCHANGED <<local, version, server, serverVersion, seen, message>>

Skip(g) ==
  /\ pc[g] = "find"
  /\ Skipped(request[g].state)
  /\ Goto(g, "skipped")
  /\ UNCHANGED <<local, version, server, serverVersion, request, seen, message, acked>>

(* meta.SetStatusCondition: a condition that is there is changed in place,  *)
(* another one is appended to the slice as it was found.                    *)
Find(g) ==
  /\ pc[g] = "find"
  /\ ~Skipped(request[g].state)
  /\ LET n == request[g].name
     IN \/ /\ local[n] # Absent
           /\ local' = [local EXCEPT ![n] = stepStateToK8sCondition(request[g].state)]
           /\ Goto(g, "update")
           /\ UNCHANGED seen
        \/ /\ local[n] = Absent
           /\ seen' = [seen EXCEPT ![g] = local]
           /\ Goto(g, "append")
           /\ UNCHANGED local
  /\ UNCHANGED <<version, server, serverVersion, request, message, acked>>

Append(g) ==
  /\ pc[g] = "append"
  /\ local' = [t \in Type |->
                 IF t = request[g].name THEN stepStateToK8sCondition(request[g].state)
                 ELSE IF seen[g][t] = Absent THEN Absent ELSE local[t]]
  /\ seen' = [seen EXCEPT ![g] = Empty]
  /\ Goto(g, "update")
  /\ UNCHANGED <<version, server, serverVersion, request, message, acked>>

(* Mutant: the update is sent whatever version the server has.              *)
UpdateUnconditionally(g) ==
  /\ pc[g] = "update"
  /\ message' = [message EXCEPT ![g] = [conditions |-> local, version |-> serverVersion]]
  /\ Goto(g, "sent")
  /\ UNCHANGED <<local, version, server, serverVersion, request, seen, acked>>

(* Status().Update sends the object with all its conditions.                *)
Update(g) ==
  /\ pc[g] = "update"
  /\ message' = [message EXCEPT ![g] = [conditions |-> local, version |-> version]]
  /\ Goto(g, "sent")
  /\ UNCHANGED <<local, version, server, serverVersion, request, seen, acked>>

(* The server has this version: it takes the object and answers with it.    *)
Accept(g) ==
  /\ pc[g] = "sent"
  /\ message[g].version = serverVersion
  /\ serverVersion < MaxVersion
  /\ server' = message[g].conditions
  /\ serverVersion' = serverVersion + 1
  /\ message' = [message EXCEPT ![g].version = serverVersion + 1]
  /\ Goto(g, "accepted")
  /\ UNCHANGED <<local, version, request, seen, acked>>

(* Mutant: a conflict is taken for somebody else's equal update.            *)
RejectSilently(g) ==
  /\ pc[g] = "sent"
  /\ \/ message[g].version # serverVersion /\ Goto(g, "persisted")
     \/ message[g].version = serverVersion /\ Goto(g, "failed")
  /\ UNCHANGED <<local, version, server, serverVersion, request, seen, message, acked>>

(* It has another version, or cannot be reached: ConditionUpdateError.      *)
Reject(g) ==
  /\ pc[g] = "sent"
  /\ Goto(g, "failed")
  /\ UNCHANGED <<local, version, server, serverVersion, request, seen, message, acked>>

(* The client decodes the answer into the local copy; or it is lost.        *)
Decode(g) ==
  /\ pc[g] = "accepted"
  /\ \/ /\ local' = message[g].conditions
        /\ version' = message[g].version
        /\ Goto(g, "persisted")
     \/ Goto(g, "failed") /\ UNCHANGED <<local, version>>
  /\ UNCHANGED <<server, serverVersion, request, seen, message, acked>>

Return(g) ==
  /\ pc[g] \in {"got", "skipped", "persisted", "failed"}
  /\ Goto(g, "idle")
  /\ acked' = IF pc[g] = "persisted"
              THEN [acked EXCEPT ![request[g].name] = request[g].state.status]
              ELSE acked
  /\ message' = [message EXCEPT ![g] = [conditions |-> Empty, version |-> 0]]
  /\ request' = [request EXCEPT ![g].state = Pending]
  /\ UNCHANGED <<local, version, server, serverVersion, seen>>

(* The next reconciliation fetches the object again.                        *)
Fetch ==
  /\ \A g \in Goroutine : pc[g] = "idle"
  /\ local' = server
  /\ version' = serverVersion
  /\ UNCHANGED <<server, serverVersion, pc, request, seen, message, acked>>

(* Somebody else updates the object: its own condition, or anything else.   *)
ForeignUpdate(x, c) ==
  /\ serverVersion < MaxVersion
  /\ server' = [server EXCEPT ![x] = c]
  /\ serverVersion' = serverVersion + 1
  /\ UNCHANGED <<local, version, pc, request, seen, message, acked>>

GoroutineStep(g) ==
  \/ \E n \in StateName : GetStepState(g, n)
  \/ \E n \in Owns[g], s \in EngineStates : SetStepState(g, n, s)
  \/ FindStatusCondition(g) \/ Skip(g) \/ Find(g) \/ Append(g) \/ Update(g)
  \/ Accept(g) \/ Reject(g) \/ Decode(g) \/ Return(g)

Next ==
  \/ \E g \in Goroutine : GoroutineStep(g)
  \/ Fetch
  \/ \E x \in Foreign, c \in ForeignConditions : ForeignUpdate(x, c)

Spec == Init /\ [][Next]_vars

--------------------------------------------------------------------------------
(* Labels at which a name is being set: the local copy has the new state    *)
(* from "update" on, and the server from "accepted" on.                     *)
Setting(g) == pc[g] \in {"find", "append", "update", "sent", "accepted", "persisted", "failed"}

Agree(types) == \A t \in types : local[t] = server[t]

(* Copies of one version agree on what others maintain, and what was        *)
(* acknowledged is in both.                                                 *)
CopiesInv ==
  /\ version <= serverVersion
  /\ version = serverVersion => Agree(Foreign)
  /\ \A n \in StateName :
       acked[n] # None => StatusIn(server, n) = acked[n] /\ StatusIn(local, n) = acked[n]

(* What g sets is in the local copy, then in the message and, once that is  *)
(* accepted, on the server.                                                 *)
CallInv(g) ==
  LET n == request[g].name
      s == request[g].state
  IN /\ pc[g] = "get" => s = Pending
     /\ Setting(g) => s \in EngineStates /\ (Skipped(s) => pc[g] = "find")
     /\ Setting(g) /\ ~Skipped(s) => acked[n] = None
     /\ pc[g] = "append" => seen[g] = local /\ local[n] = Absent
     /\ pc[g] \in {"update", "sent", "accepted", "persisted"} =>
          local[n] = stepStateToK8sCondition(s)
     /\ pc[g] = "sent" => message[g] = [conditions |-> local, version |-> version]
     /\ pc[g] = "accepted" =>
          /\ message[g].conditions = local
          /\ version < message[g].version /\ message[g].version <= serverVersion
          /\ message[g].version = serverVersion => Agree(Foreign)
     /\ pc[g] \in {"accepted", "persisted"} => Agree(StateName)

(* How the two copies relate while one goroutine uses the K8sObject         *)
(* (k8s.go:66-93).                                                          *)
SessionInv ==
  /\ TypeOK
  /\ CopiesInv
  /\ \A g \in Goroutine : CallInv(g)

(* When SetStepState has returned nil, the API server has that status for   *)
(* as long as no goroutine sets the name again (k8s.go:66-93).              *)
AcknowledgedIsPersisted ==
  \A n \in StateName : acked[n] # None => StatusIn(server, n) = acked[n]

(* Sending the whole status back never changes a condition that others      *)
(* maintain: what they wrote since the object was fetched is not undone     *)
(* (k8s.go:88-91).                                                          *)
ForeignIsKept ==
  [][\A g \in Goroutine : pc[g] = "sent" /\ pc'[g] = "accepted" =>
       \A x \in Foreign : server'[x] = server[x]]_vars

(* The calls as the interface shows them.  A call has taken effect when the *)
(* answer of the server has been decoded.                                   *)
As(g, op, phase) ==
  [op |-> op, phase |-> phase, name |-> request[g].name, status |-> request[g].state.status]

CallOf(g) ==
  CASE pc[g] = "idle"                     -> [op |-> "none", phase |-> "done"]
    [] pc[g] = "get"                      -> As(g, "get", "called")
    [] pc[g] = "got"                      -> As(g, "get", "done")
    [] pc[g] \in {"skipped", "persisted"} -> As(g, "set", "done")
    [] Setting(g) /\ pc[g] # "persisted"  -> As(g, "set", "called")

(* g is about to set n in the local copy.                                   *)
AboutToSet(g, n) ==
  pc[g] \in {"find", "append"} /\ request[g].name = n /\ ~Skipped(request[g].state)

PossibleOf(n) ==
  {StatusIn(server, n), StatusIn(local, n)}
  \cup {request[g].state.status : g \in {h \in Goroutine : AboutToSet(h, n)}}

Keeper == INSTANCE StateKeeper
  WITH Caller <- Goroutine,
       Ignored <- {"pending", "running"},
       possible <- [n \in StateName |-> PossibleOf(n)],
       call <- [g \in Goroutine |-> CallOf(g)]

(* Used by one goroutine at a time, K8sObject is a StateKeeper, whatever    *)
(* the server, the network and other writers do.                            *)
KeeperSpec == Keeper!Spec
================================================================================
