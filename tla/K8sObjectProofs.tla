---------------------------- MODULE K8sObjectProofs -----------------------------
(***************************************************************************)
(* Proofs about K8sObject: for any number of names, conditions and         *)
(* versions, when one goroutine uses it, what SetStepState acknowledges is *)
(* persisted and what others maintain is kept.                             *)
(***************************************************************************)
EXTENDS K8sObject, TLAPS

(* Every state that is persisted is read back as it was set.                *)
THEOREM RoundTrip ==
  ASSUME NEW s \in EngineStates, ~Skipped(s)
  PROVE  k8sConditionToStepState(stepStateToK8sCondition(s)) = s
<1>1. CASE s = [status |-> "running", reason |-> ""]
  BY <1>1 DEF Skipped
<1>2. CASE s = [status |-> "failed", reason |-> "Error"]
  BY <1>2 DEF k8sConditionToStepState, stepStateToK8sCondition
<1>3. ASSUME NEW r \in SuccessReasons, s = [status |-> "succeeded", reason |-> r]
      PROVE  k8sConditionToStepState(stepStateToK8sCondition(s)) = s
  <2>1. stepStateToK8sCondition(s) = [status |-> "True", reason |-> r]
    BY <1>3 DEF stepStateToK8sCondition
  <2>2. k8sConditionToStepState([status |-> "True", reason |-> r])
          = [status |-> "succeeded", reason |-> r]
    BY DEF k8sConditionToStepState
  <2> QED BY <1>3, <2>1, <2>2
<1> QED BY <1>1, <1>2, <1>3 DEF EngineStates

LEMMA StatesAreTyped == EngineStates \subseteq StepState
<1> SUFFICES ASSUME NEW s \in EngineStates PROVE s \in StepState
  OBVIOUS
<1>1. CASE s = [status |-> "running", reason |-> ""]
  BY <1>1 DEF StepState, Reasons
<1>2. CASE s = [status |-> "failed", reason |-> "Error"]
  BY <1>2 DEF StepState, Reasons
<1>3. ASSUME NEW r \in SuccessReasons, s = [status |-> "succeeded", reason |-> r]
      PROVE  s \in StepState
  <2>1. r \in Reasons
    BY ConditionAssumption
  <2> QED BY <1>3, <2>1 DEF StepState
<1> QED BY <1>1, <1>2, <1>3 DEF EngineStates

LEMMA ToCondition ==
  ASSUME NEW s \in StepState
  PROVE  stepStateToK8sCondition(s) \in Condition
BY DEF StepState, Condition, stepStateToK8sCondition

LEMMA ToState ==
  ASSUME NEW c \in Condition
  PROVE  k8sConditionToStepState(c) \in StepState
BY DEF StepState, Condition, k8sConditionToStepState

(* A condition that was set for a state says so.                            *)
LEMMA SetIsSet ==
  ASSUME NEW s \in EngineStates, ~Skipped(s),
         NEW conditions, NEW n \in StateName,
         conditions[n] = stepStateToK8sCondition(s)
  PROVE  /\ StatusIn(conditions, n) = s.status
         /\ s.status \in {"succeeded", "failed"}
<1>1. stepStateToK8sCondition(s) # Absent
  BY StatesAreTyped, ToCondition, ConditionAssumption
<1>2. StatusIn(conditions, n) = s.status
  BY <1>1, RoundTrip DEF StatusIn
<1>3. s.status \in {"succeeded", "failed"}
  BY DEF EngineStates, Skipped, stepStateToK8sCondition
<1> QED BY <1>2, <1>3

--------------------------------------------------------------------------------
(* Type correctness, for any number of goroutines.                          *)

LEMMA EmptyIsTyped == Empty \in Conditions /\ Empty \in [Type -> Condition \cup {Absent}]
BY DEF Empty, Conditions

LEMMA PendingIsTyped == Pending \in StepState
BY DEF Pending, StepState, Reasons

LEMMA TypeInit == ASSUME Init PROVE TypeOK
<1>1. 0 \in 0..MaxVersion
  BY TypesAssumption
<1>2. request \in [Goroutine -> [name : StateName, state : StepState]]
  BY PendingIsTyped DEF Init
<1>3. message \in [Goroutine -> Object]
  BY <1>1, EmptyIsTyped DEF Init, Object
<1>4. seen \in [Goroutine -> Conditions] /\ local \in Conditions /\ server \in Conditions
  BY EmptyIsTyped DEF Init
<1>5. pc \in [Goroutine -> PCs] /\ acked \in [StateName -> {"succeeded", "failed", None}]
  BY DEF Init, PCs
<1> QED BY <1>1, <1>2, <1>3, <1>4, <1>5 DEF Init, TypeOK

LEMMA TypeGet ==
  ASSUME TypeOK, NEW g \in Goroutine, NEW n \in StateName, GetStepState(g, n)
  PROVE  TypeOK'
BY PendingIsTyped DEF TypeOK, GetStepState, Goto, PCs

LEMMA TypeFind ==
  ASSUME TypeOK, NEW g \in Goroutine, FindStatusCondition(g)
  PROVE  TypeOK'
<1>1. request[g].name \in Type
  BY DEF TypeOK, Type
<1>2. CASE local[request[g].name] = Absent
  BY <1>2 DEF TypeOK, FindStatusCondition, Goto, PCs
<1>3. CASE local[request[g].name] # Absent
  <2>1. k8sConditionToStepState(local[request[g].name]) \in StepState
    BY <1>1, <1>3, ToState DEF TypeOK, Conditions
  <2> QED BY <1>3, <2>1 DEF TypeOK, FindStatusCondition, Goto, PCs
<1> QED BY <1>2, <1>3

LEMMA TypeSet ==
  ASSUME TypeOK, NEW g \in Goroutine, NEW n \in StateName, NEW s \in EngineStates,
         SetStepState(g, n, s)
  PROVE  TypeOK'
BY StatesAreTyped DEF TypeOK, SetStepState, Goto, PCs

LEMMA TypeSkip ==
  ASSUME TypeOK, NEW g \in Goroutine, Skip(g) \/ Reject(g)
  PROVE  TypeOK'
BY DEF TypeOK, Skip, Reject, Goto, PCs

LEMMA TypeFindOwn ==
  ASSUME TypeOK, NEW g \in Goroutine, Find(g)
  PROVE  TypeOK'
<1> DEFINE n == request[g].name
           c == stepStateToK8sCondition(request[g].state)
<1>1. n \in Type /\ c \in Condition
  BY ToCondition DEF TypeOK, Type
<1> HIDE DEF n, c
<1>2. pc' \in [Goroutine -> PCs]
  BY DEF TypeOK, Find, Goto, PCs
<1>3. local' \in Conditions
  <2>1. local' = [local EXCEPT ![n] = c] \/ local' = local
    BY DEF Find, n, c
  <2> QED BY <1>1, <2>1 DEF TypeOK, Conditions
<1>4. seen' \in [Goroutine -> Conditions]
  BY DEF TypeOK, Find
<1> QED BY <1>2, <1>3, <1>4 DEF TypeOK, Find

LEMMA TypeAppend ==
  ASSUME TypeOK, NEW g \in Goroutine, Append(g)
  PROVE  TypeOK'
<1> DEFINE n == request[g].name
           c == stepStateToK8sCondition(request[g].state)
<1>1. n \in Type /\ c \in Condition
  BY ToCondition DEF TypeOK, Type
<1>2. local' \in Conditions
  <2>1. local' = [t \in Type |-> IF t = n THEN c
                                 ELSE IF seen[g][t] = Absent THEN Absent ELSE local[t]]
    BY DEF Append
  <2> HIDE DEF n, c
  <2>2. \A t \in Type : local[t] \in Condition \cup {Absent}
    BY DEF TypeOK, Conditions
  <2>3. \A t \in Type : local'[t] \in Condition \cup {Absent}
    BY <1>1, <2>1, <2>2
  <2> QED BY <2>1, <2>3 DEF Conditions
<1>3. seen' \in [Goroutine -> Conditions]
  BY EmptyIsTyped DEF TypeOK, Append
<1>4. pc' \in [Goroutine -> PCs]
  BY DEF TypeOK, Append, Goto, PCs
<1> QED BY <1>2, <1>3, <1>4 DEF TypeOK, Append

LEMMA TypeUpdate ==
  ASSUME TypeOK, NEW g \in Goroutine, Update(g)
  PROVE  TypeOK'
<1>1. [conditions |-> local, version |-> version] \in Object
  BY DEF TypeOK, Object
<1> QED BY <1>1 DEF TypeOK, Update, Goto, PCs

LEMMA TypeAccept ==
  ASSUME TypeOK, NEW g \in Goroutine, Accept(g)
  PROVE  TypeOK'
<1>1. serverVersion + 1 \in 0..MaxVersion
  BY TypesAssumption DEF TypeOK, Accept
<1>2. message[g] \in Object /\ message[g].conditions \in Conditions
  BY DEF TypeOK, Object
<1>3. [message[g] EXCEPT !.version = serverVersion + 1] \in Object
  BY <1>1, <1>2 DEF Object
<1>4. message' \in [Goroutine -> Object]
  BY <1>3 DEF TypeOK, Accept
<1>5. pc' \in [Goroutine -> PCs]
  BY DEF TypeOK, Accept, Goto, PCs
<1> QED BY <1>1, <1>2, <1>4, <1>5 DEF TypeOK, Accept

LEMMA TypeDecode ==
  ASSUME TypeOK, NEW g \in Goroutine, Decode(g)
  PROVE  TypeOK'
<1>1. message[g].conditions \in Conditions /\ message[g].version \in 0..MaxVersion
  BY DEF TypeOK, Object
<1> QED BY <1>1 DEF TypeOK, Decode, Goto, PCs

(* What is acknowledged has an outcome: running is never sent.              *)
LEMMA TypeReturn ==
  ASSUME TypeOK, NEW g \in Goroutine, CallInv(g), Return(g)
  PROVE  TypeOK'
<1>1. acked' \in [StateName -> {"succeeded", "failed", None}]
  <2>1. CASE pc[g] = "persisted"
    <3>1. request[g].state \in EngineStates /\ ~Skipped(request[g].state)
      BY <2>1 DEF CallInv, Setting
    <3>2. request[g].state.status \in {"succeeded", "failed"}
      BY <3>1 DEF EngineStates, Skipped, stepStateToK8sCondition
    <3> QED BY <2>1, <3>2 DEF TypeOK, Return
  <2>2. CASE pc[g] # "persisted"
    BY <2>2 DEF TypeOK, Return
  <2> QED BY <2>1, <2>2
<1>2. message' \in [Goroutine -> Object]
  <2>1. [conditions |-> Empty, version |-> 0] \in Object
    BY EmptyIsTyped, TypesAssumption DEF Object
  <2> QED BY <2>1 DEF TypeOK, Return
<1>3. request' \in [Goroutine -> [name : StateName, state : StepState]]
  BY PendingIsTyped DEF TypeOK, Return
<1>4. pc' \in [Goroutine -> PCs]
  BY DEF TypeOK, Return, Goto, PCs
<1> QED BY <1>1, <1>2, <1>3, <1>4 DEF TypeOK, Return

LEMMA TypeFetch == ASSUME TypeOK, Fetch PROVE TypeOK'
BY DEF TypeOK, Fetch

LEMMA TypeForeign ==
  ASSUME TypeOK, NEW x \in Foreign, NEW c \in ForeignConditions, ForeignUpdate(x, c)
  PROVE  TypeOK'
<1>1. serverVersion + 1 \in 0..MaxVersion
  BY TypesAssumption DEF TypeOK, ForeignUpdate
<1>2. server' \in Conditions
  BY ConditionAssumption DEF TypeOK, ForeignUpdate, Conditions, Type
<1> QED BY <1>1, <1>2 DEF TypeOK, ForeignUpdate

--------------------------------------------------------------------------------
(* The inductive invariant, action by action, for a single goroutine.       *)

Alone == \A g, h \in Goroutine : g = h

LEMMA SessionInit == ASSUME Init PROVE SessionInv
<1>1. CopiesInv
  BY DEF Init, CopiesInv, Agree
<1>2. ASSUME NEW g \in Goroutine PROVE CallInv(g)
  BY DEF Init, CallInv, Setting
<1> QED BY <1>1, <1>2, TypeInit DEF SessionInv

(* Actions that leave both copies alone.                                    *)
LEMMA SessionGet ==
  ASSUME SessionInv, NEW g \in Goroutine, NEW n \in StateName,
         GetStepState(g, n) \/ FindStatusCondition(g)
  PROVE  CopiesInv' /\ CallInv(g)'
<1>1. CopiesInv'
  BY DEF SessionInv, CopiesInv, Agree, StatusIn, GetStepState, FindStatusCondition
<1>2. pc'[g] = "got" \/ (pc'[g] = "get" /\ request'[g].state = Pending)
  BY DEF SessionInv, TypeOK, GetStepState, FindStatusCondition, Goto
<1> QED BY <1>1, <1>2 DEF CallInv, Setting

LEMMA SessionSet ==
  ASSUME SessionInv, NEW g \in Goroutine, NEW n \in StateName, NEW s \in EngineStates,
         SetStepState(g, n, s)
  PROVE  CopiesInv' /\ CallInv(g)'
<1>1. CopiesInv'
  BY DEF SessionInv, TypeOK, CopiesInv, Agree, StatusIn, SetStepState
<1>2. pc'[g] = "find" /\ request'[g] = [name |-> n, state |-> s]
  BY DEF SessionInv, TypeOK, SetStepState, Goto
<1>3. ~Skipped(s) => acked'[n] = None
  BY DEF SessionInv, TypeOK, SetStepState
<1> QED BY <1>1, <1>2, <1>3 DEF CallInv, Setting

LEMMA SessionSkip ==
  ASSUME SessionInv, NEW g \in Goroutine, Skip(g)
  PROVE  CopiesInv' /\ CallInv(g)'
<1>1. CopiesInv'
  BY DEF SessionInv, CopiesInv, Agree, StatusIn, Skip
<1>2. pc'[g] = "skipped"
  BY DEF SessionInv, TypeOK, Skip, Goto
<1> QED BY <1>1, <1>2 DEF CallInv, Setting

LEMMA SessionFind ==
  ASSUME SessionInv, NEW g \in Goroutine, Find(g)
  PROVE  CopiesInv' /\ CallInv(g)'
<1> DEFINE n == request[g].name
           s == request[g].state
<1>1. pc[g] = "find" /\ n \in StateName /\ s \in EngineStates /\ ~Skipped(s) /\ acked[n] = None
  BY DEF SessionInv, TypeOK, CallInv, Setting, Find
<1>2. UNCHANGED <<version, server, serverVersion, request, acked>>
  BY DEF Find
<1>3. CASE /\ local[n] # Absent /\ pc' = [pc EXCEPT ![g] = "update"]
           /\ local' = [local EXCEPT ![n] = stepStateToK8sCondition(s)]
  <2>1. local'[n] = stepStateToK8sCondition(s)
    BY <1>1, <1>3 DEF SessionInv, TypeOK, Conditions, Type
  <2>2. \A t \in Type : t # n => local'[t] = local[t]
    BY <1>3 DEF SessionInv, TypeOK, Conditions
  <2>3. CopiesInv'
    BY <1>1, <1>2, <2>2, TypesAssumption DEF SessionInv, CopiesInv, Agree, StatusIn, Type
  <2>4. pc'[g] = "update"
    BY <1>3 DEF SessionInv, TypeOK
  <2> QED BY <1>1, <1>2, <2>1, <2>3, <2>4 DEF CallInv, Setting
<1>4. CASE /\ local[n] = Absent /\ pc' = [pc EXCEPT ![g] = "append"] /\ local' = local
           /\ seen' = [seen EXCEPT ![g] = local]
  <2>1. CopiesInv'
    BY <1>2, <1>4 DEF SessionInv, CopiesInv, Agree, StatusIn
  <2>2. pc'[g] = "append" /\ seen'[g] = local'
    BY <1>4 DEF SessionInv, TypeOK
  <2> QED BY <1>1, <1>2, <1>4, <2>1, <2>2 DEF CallInv, Setting
<1> QED BY <1>3, <1>4 DEF Find, Goto

LEMMA SessionAppend ==
  ASSUME SessionInv, NEW g \in Goroutine, Append(g)
  PROVE  CopiesInv' /\ CallInv(g)'
<1> DEFINE n == request[g].name
           s == request[g].state
<1>1. /\ pc[g] = "append" /\ n \in StateName /\ s \in EngineStates /\ ~Skipped(s)
      /\ acked[n] = None /\ seen[g] = local
  BY DEF SessionInv, TypeOK, CallInv, Setting, Append
<1>2. UNCHANGED <<version, server, serverVersion, request, acked>>
  BY DEF Append
<1>3. local'[n] = stepStateToK8sCondition(s) /\ \A t \in Type : t # n => local'[t] = local[t]
  BY <1>1 DEF Append, Type
<1>4. CopiesInv'
  BY <1>1, <1>2, <1>3, TypesAssumption DEF SessionInv, CopiesInv, Agree, StatusIn, Type
<1>5. pc'[g] = "update"
  BY DEF SessionInv, TypeOK, Append, Goto
<1> QED BY <1>1, <1>2, <1>3, <1>4, <1>5 DEF CallInv, Setting

LEMMA SessionUpdate ==
  ASSUME SessionInv, NEW g \in Goroutine, Update(g)
  PROVE  CopiesInv' /\ CallInv(g)'
<1>1. CopiesInv'
  BY DEF SessionInv, CopiesInv, Agree, StatusIn, Update
<1>2. pc'[g] = "sent" /\ message'[g] = [conditions |-> local, version |-> version]
  BY DEF SessionInv, TypeOK, Update, Goto
<1> QED BY <1>1, <1>2 DEF SessionInv, CallInv, Setting, Update

(* The server takes what is of its version: all that differs is what the    *)
(* goroutine has set itself.                                                *)
LEMMA SessionAccept ==
  ASSUME SessionInv, NEW g \in Goroutine, Accept(g)
  PROVE  /\ CopiesInv' /\ CallInv(g)'
         /\ \A x \in Foreign : server'[x] = server[x]
<1>1. /\ pc[g] = "sent" /\ message[g] = [conditions |-> local, version |-> version]
      /\ version = serverVersion
  BY DEF SessionInv, CallInv, Accept
<1>2. /\ server' = local /\ serverVersion' = serverVersion + 1
      /\ UNCHANGED <<local, version, request, acked>>
  BY <1>1 DEF Accept
<1>3. CopiesInv'
  BY <1>1, <1>2, TypesAssumption DEF SessionInv, TypeOK, CopiesInv, Agree, StatusIn
<1>4. pc'[g] = "accepted" /\ message'[g] = [conditions |-> local, version |-> serverVersion + 1]
  BY <1>1 DEF SessionInv, TypeOK, Accept, Goto
<1>5. CallInv(g)'
  BY <1>1, <1>2, <1>4, TypesAssumption DEF SessionInv, TypeOK, CallInv, Setting, Agree
<1>6. \A x \in Foreign : server'[x] = server[x]
  BY <1>1, <1>2 DEF SessionInv, CopiesInv, Agree
<1> QED BY <1>3, <1>5, <1>6

LEMMA SessionReject ==
  ASSUME SessionInv, NEW g \in Goroutine, Reject(g)
  PROVE  CopiesInv' /\ CallInv(g)'
<1>1. CopiesInv'
  BY DEF SessionInv, CopiesInv, Agree, StatusIn, Reject
<1>2. pc'[g] = "failed"
  BY DEF SessionInv, TypeOK, Reject, Goto
<1> QED BY <1>1, <1>2 DEF SessionInv, CallInv, Setting, Reject

LEMMA SessionDecode ==
  ASSUME SessionInv, NEW g \in Goroutine, Decode(g)
  PROVE  CopiesInv' /\ CallInv(g)'
<1>1. /\ pc[g] = "accepted" /\ message[g].conditions = local
      /\ message[g].version \in 0..MaxVersion
      /\ message[g].version <= serverVersion /\ Agree(StateName)
      /\ message[g].version = serverVersion => Agree(Foreign)
  BY DEF SessionInv, TypeOK, Object, CallInv, Decode
<1>2. local' = local /\ UNCHANGED <<server, serverVersion, request, acked>>
  BY <1>1 DEF Decode
<1>3. CopiesInv'
  BY <1>1, <1>2 DEF SessionInv, CopiesInv, Agree, StatusIn, Decode
<1>4. pc'[g] \in {"persisted", "failed"}
  BY DEF SessionInv, TypeOK, Decode, Goto
<1> QED BY <1>1, <1>2, <1>3, <1>4 DEF SessionInv, CallInv, Setting, Agree

(* What is acknowledged is in both copies.                                  *)
LEMMA SessionReturn ==
  ASSUME SessionInv, NEW g \in Goroutine, Return(g)
  PROVE  CopiesInv' /\ CallInv(g)'
<1>1. pc'[g] = "idle" /\ UNCHANGED <<local, version, server, serverVersion>>
  BY DEF SessionInv, TypeOK, Return, Goto
<1>2. CASE pc[g] = "persisted"
  <2> DEFINE n == request[g].name
             s == request[g].state
  <2>1. /\ s \in EngineStates /\ ~Skipped(s) /\ n \in StateName
        /\ local[n] = stepStateToK8sCondition(s) /\ server[n] = local[n]
    BY <1>2 DEF SessionInv, TypeOK, CallInv, Setting, Agree
  <2>2. StatusIn(local, n) = s.status /\ StatusIn(server, n) = s.status
    BY <2>1, SetIsSet
  <2>3. acked' = [acked EXCEPT ![n] = s.status]
    BY <1>2 DEF Return
  <2>4. CopiesInv'
    BY <1>1, <2>1, <2>2, <2>3 DEF SessionInv, TypeOK, CopiesInv, Agree, StatusIn
  <2> QED BY <1>1, <2>4 DEF CallInv, Setting
<1>3. CASE pc[g] # "persisted"
  <2>1. CopiesInv'
    BY <1>1, <1>3 DEF SessionInv, CopiesInv, Agree, StatusIn, Return
  <2> QED BY <1>1, <2>1 DEF CallInv, Setting
<1> QED BY <1>2, <1>3

LEMMA SessionFetch ==
  ASSUME SessionInv, Fetch
  PROVE  CopiesInv' /\ \A g \in Goroutine : CallInv(g)'
<1>1. CopiesInv'
  BY DEF SessionInv, TypeOK, CopiesInv, Agree, StatusIn, Fetch
<1> QED BY <1>1 DEF CallInv, Setting, Fetch

LEMMA SessionForeign ==
  ASSUME SessionInv, NEW x \in Foreign, NEW c \in ForeignConditions, ForeignUpdate(x, c)
  PROVE  CopiesInv' /\ \A g \in Goroutine : CallInv(g)'
<1>1. /\ serverVersion' = serverVersion + 1 /\ version <= serverVersion
      /\ {version, serverVersion} \subseteq Nat
      /\ UNCHANGED <<local, version, pc, request, seen, message, acked>>
  BY TypesAssumption DEF SessionInv, TypeOK, CopiesInv, ForeignUpdate
<1>2. \A n \in StateName : server'[n] = server[n]
  BY TypesAssumption DEF SessionInv, TypeOK, Conditions, Type, ForeignUpdate
<1>3. CopiesInv'
  BY <1>1, <1>2 DEF SessionInv, CopiesInv, Agree, StatusIn
<1>4. ASSUME NEW g \in Goroutine PROVE CallInv(g)'
  <2>1. message[g].version \in Nat
    BY TypesAssumption DEF SessionInv, TypeOK, Object
  <2> QED BY <1>1, <1>2, <2>1 DEF SessionInv, CallInv, Setting, Agree
<1> QED BY <1>3, <1>4

LEMMA SessionStep ==
  ASSUME Alone, SessionInv, NEW g \in Goroutine, GoroutineStep(g)
  PROVE  SessionInv'
<1> USE DEF SessionInv
<1>1. \A h \in Goroutine : h = g
  BY DEF Alone
<1>2. SUFFICES TypeOK' /\ CopiesInv' /\ CallInv(g)'
  BY <1>1
<1>3. ASSUME NEW n \in StateName, GetStepState(g, n)
      PROVE  TypeOK' /\ CopiesInv' /\ CallInv(g)'
  BY <1>3, TypeGet, SessionGet
<1>4. ASSUME NEW n \in Owns[g], NEW s \in EngineStates, SetStepState(g, n, s)
      PROVE  TypeOK' /\ CopiesInv' /\ CallInv(g)'
  <2>1. n \in StateName
    BY TypesAssumption
  <2> QED BY <1>4, <2>1, TypeSet, SessionSet
<1>5. CASE FindStatusCondition(g)
  <2>1. PICK n \in StateName : n = request[g].name
    BY DEF TypeOK
  <2> QED BY <1>5, <2>1, TypeFind, SessionGet
<1>6. CASE Skip(g)
  BY <1>6, TypeSkip, SessionSkip
<1>7. CASE Find(g)
  BY <1>7, TypeFindOwn, SessionFind
<1>8. CASE Append(g)
  BY <1>8, TypeAppend, SessionAppend
<1>9. CASE Update(g)
  BY <1>9, TypeUpdate, SessionUpdate
<1>10. CASE Accept(g)
  BY <1>10, TypeAccept, SessionAccept
<1>11. CASE Reject(g)
  BY <1>11, TypeSkip, SessionReject
<1>12. CASE Decode(g)
  BY <1>12, TypeDecode, SessionDecode
<1>13. CASE Return(g)
  BY <1>13, TypeReturn, SessionReturn
<1> QED BY <1>3, <1>4, <1>5, <1>6, <1>7, <1>8, <1>9, <1>10, <1>11, <1>12, <1>13
        DEF GoroutineStep

LEMMA SessionNext ==
  ASSUME Alone, SessionInv, [Next]_vars
  PROVE  SessionInv'
<1>1. ASSUME NEW g \in Goroutine, GoroutineStep(g) PROVE SessionInv'
  BY <1>1, SessionStep
<1>2. CASE Fetch
  BY <1>2, SessionFetch, TypeFetch DEF SessionInv
<1>3. ASSUME NEW x \in Foreign, NEW c \in ForeignConditions, ForeignUpdate(x, c)
      PROVE  SessionInv'
  BY <1>3, SessionForeign, TypeForeign DEF SessionInv
<1>4. CASE UNCHANGED vars
  BY <1>4 DEF vars, SessionInv, TypeOK, CopiesInv, CallInv, Setting, Agree, StatusIn
<1> QED BY <1>1, <1>2, <1>3, <1>4 DEF Next

(* For any number of names, conditions and versions, the copies of a        *)
(* K8sObject that one goroutine uses stay in the relation SessionInv.       *)
THEOREM Session == ASSUME Alone PROVE Spec => []SessionInv
<1>1. Init => SessionInv
  BY SessionInit
<1>2. SessionInv /\ [Next]_vars => SessionInv'
  BY SessionNext
<1> QED BY <1>1, <1>2, PTL DEF Spec

(* Then SetStepState does not return nil of what it has not persisted       *)
(* (k8s.go:66-93).                                                          *)
THEOREM Acknowledged == ASSUME Alone PROVE Spec => []AcknowledgedIsPersisted
<1>1. SessionInv => AcknowledgedIsPersisted
  BY DEF SessionInv, CopiesInv, AcknowledgedIsPersisted
<1> QED BY <1>1, Session, PTL

(* And an update that the server takes undoes nothing that others wrote     *)
(* (k8s.go:88-91).                                                          *)
THEOREM ForeignKept == ASSUME Alone PROVE Spec => ForeignIsKept
<1>1. ASSUME SessionInv, [Next]_vars, NEW g \in Goroutine, pc[g] = "sent", pc'[g] = "accepted"
      PROVE  \A x \in Foreign : server'[x] = server[x]
  <2>1. Accept(g)
    <3>1. ASSUME NEW h \in Goroutine, GoroutineStep(h) PROVE Accept(g)
      <4>1. h = g
        BY DEF Alone
      <4>2. GoroutineStep(g)
        BY <3>1, <4>1
      <4> QED
        BY <1>1, <4>2 DEF GoroutineStep, GetStepState, FindStatusCondition, SetStepState, Skip,
           Find, Append, Update, Reject, Decode, Return, Goto, SessionInv, TypeOK
    <3>2. ~UNCHANGED pc
      BY <1>1
    <3> QED BY <1>1, <3>1, <3>2 DEF Next, Fetch, ForeignUpdate, vars
  <2> QED BY <1>1, <2>1, SessionAccept
<1>2. SessionInv /\ [Next]_vars =>
        [\A g \in Goroutine : pc[g] = "sent" /\ pc'[g] = "accepted" =>
          \A x \in Foreign : server'[x] = server[x]]_vars
  BY <1>1
<1> QED BY <1>2, Session, PTL DEF Spec, ForeignIsKept

--------------------------------------------------------------------------------
(* K8sObject is a StateKeeper: every step of a single goroutine, of the     *)
(* server and of others is one of the contract.                             *)

LEMMA StatusesAreTyped ==
  ASSUME NEW conditions \in Conditions, NEW n \in StateName
  PROVE  StatusIn(conditions, n) \in Keeper!Statuses
<1>1. CASE conditions[n] = Absent
  BY <1>1 DEF StatusIn, Keeper!Statuses
<1>2. CASE conditions[n] # Absent
  <2>1. k8sConditionToStepState(conditions[n]) \in StepState
    BY <1>2, ToState DEF Conditions, Type
  <2> QED BY <1>2, <2>1 DEF StatusIn, StepState, Keeper!Statuses
<1> QED BY <1>1, <1>2

LEMMA KeeperInit == ASSUME Init PROVE Keeper!Init
<1>1. \A n \in StateName : PossibleOf(n) = {"pending"}
  BY DEF Init, PossibleOf, AboutToSet, StatusIn, Empty, Type
<1>2. \A g \in Goroutine : CallOf(g) = Keeper!Idle
  BY DEF Init, CallOf, Setting, Keeper!Idle
<1> QED BY <1>1, <1>2 DEF Keeper!Init

(* What the contract sees of a call.                                        *)
Shown ==
  \A g \in Goroutine :
    LET n == request[g].name
        x == request[g].state.status
    IN /\ pc[g] = "idle" => CallOf(g) = Keeper!Idle
       /\ pc[g] = "get" => CallOf(g) = Keeper!Get(n, "called", x)
       /\ pc[g] = "got" => CallOf(g) = Keeper!Get(n, "done", x)
       /\ pc[g] \in {"skipped", "persisted"} => CallOf(g) = Keeper!Set(n, "done", x)
       /\ Setting(g) /\ pc[g] # "persisted" => CallOf(g) = Keeper!Set(n, "called", x)

LEMMA ShownNow == Shown
BY DEF Shown, CallOf, As, Setting, Keeper!Idle, Keeper!Get, Keeper!Set

LEMMA ShownNext == Shown'
BY ShownNow, PTL

(* The statuses that are possible, for a single goroutine.                  *)
Doubts(g, n) ==
  {StatusIn(server, n), StatusIn(local, n)}
  \cup (IF AboutToSet(g, n) THEN {request[g].state.status} ELSE {})

LEMMA DoubtsNow == \A g \in Goroutine, n \in StateName : Alone => PossibleOf(n) = Doubts(g, n)
BY DEF Alone, PossibleOf, Doubts

LEMMA DoubtsNext ==
  \A g \in Goroutine, n \in StateName : Alone => PossibleOf(n)' = Doubts(g, n)'
BY DEF Alone, PossibleOf, Doubts

LEMMA DoubtsTyped == TypeOK => \A n \in StateName : PossibleOf(n) \subseteq Keeper!Statuses
<1> SUFFICES ASSUME TypeOK, NEW n \in StateName PROVE PossibleOf(n) \subseteq Keeper!Statuses
  OBVIOUS
<1>1. StatusIn(server, n) \in Keeper!Statuses /\ StatusIn(local, n) \in Keeper!Statuses
  BY StatusesAreTyped DEF TypeOK
<1>2. \A g \in Goroutine : request[g].state.status \in Keeper!Statuses
  BY DEF TypeOK, StepState, Keeper!Statuses
<1> QED BY <1>1, <1>2 DEF PossibleOf

LEMMA DoubtsTypedNext == (TypeOK => \A n \in StateName : PossibleOf(n) \subseteq Keeper!Statuses)'
BY DoubtsTyped, PTL

(* Steps that show a caller nothing.                                        *)
LEMMA KeeperSettles ==
  ASSUME Alone, TypeOK', NEW g \in Goroutine, CallOf(g)' = CallOf(g),
         \A n \in StateName : Doubts(g, n)' \subseteq Doubts(g, n),
         CallOf(g) = Keeper!Idle
         \/ \E n \in StateName : \E x \in Doubts(g, n)' : CallOf(g) = Keeper!Set(n, "called", x)
  PROVE  Keeper!Settle
<1>1. \A h \in Goroutine : h = g
  BY DEF Alone
<1>2. \A n \in StateName :
        PossibleOf(n)' # {} /\ PossibleOf(n)' \subseteq PossibleOf(n) /\ PossibleOf(n)' \subseteq Keeper!Statuses
  BY DoubtsNow, DoubtsNext, DoubtsTypedNext DEF PossibleOf
<1>3. ASSUME NEW m \in StateName, NEW y, CallOf(g) = Keeper!Set(m, "called", y)
      PROVE  y \in PossibleOf(m)'
  <2>1. PICK n \in StateName :
          \E x \in Doubts(g, n)' : CallOf(g) = Keeper!Set(n, "called", x)
    BY <1>3 DEF Keeper!Idle, Keeper!Set
  <2>2. m = n /\ y \in Doubts(g, n)'
    BY <1>3, <2>1 DEF Keeper!Set
  <2> QED BY <2>2, DoubtsNext
<1>4. \A m \in StateName : Keeper!UnderWay(Goroutine, m) \subseteq PossibleOf(m)'
  BY <1>1, <1>3 DEF Keeper!UnderWay
<1> QED BY <1>1, <1>2, <1>4 DEF Keeper!Settle, Keeper!Narrows

LEMMA PendingStatus == Pending.status = "pending"
BY DEF Pending

LEMMA IgnoredIsSkipped ==
  ASSUME NEW s \in EngineStates
  PROVE  Skipped(s) <=> s.status \in {"pending", "running"}
<1>1. CASE s = [status |-> "running", reason |-> ""]
  BY <1>1 DEF Skipped
<1>2. CASE s = [status |-> "failed", reason |-> "Error"]
  BY <1>2 DEF Skipped, stepStateToK8sCondition
<1>3. ASSUME NEW r \in SuccessReasons, s = [status |-> "succeeded", reason |-> r]
      PROVE  Skipped(s) <=> s.status \in {"pending", "running"}
  BY <1>3 DEF Skipped, stepStateToK8sCondition
<1> QED BY <1>1, <1>2, <1>3 DEF EngineStates

(* Steps that show the caller something and leave no new doubt.             *)
LEMMA SameDoubts ==
  ASSUME Alone, NEW g \in Goroutine, \A n \in StateName : Doubts(g, n)' = Doubts(g, n)
  PROVE  [n \in StateName |-> PossibleOf(n)]' = [n \in StateName |-> PossibleOf(n)]
BY DoubtsNow, DoubtsNext

LEMMA KeeperGet ==
  ASSUME Alone, SessionInv, NEW g \in Goroutine, NEW n \in StateName, GetStepState(g, n)
  PROVE  Keeper!CallGet(g, n, "pending")
<1>1. \A h \in Goroutine : h = g
  BY DEF Alone
<1>2. pc[g] = "idle" /\ pc'[g] = "get" /\ request'[g] = [name |-> n, state |-> Pending]
  BY DEF SessionInv, TypeOK, GetStepState, Goto
<1>3. CallOf(g) = Keeper!Idle
  BY <1>2, ShownNow DEF Shown
<1>4. CallOf(g)' = Keeper!Get(n, "called", "pending")
  <2>1. request'[g].name = n /\ request'[g].state = Pending
    BY <1>2
  <2> QED BY <1>2, <2>1, PendingStatus, ShownNext DEF Shown
<1>5. \A m \in StateName : Doubts(g, m)' = Doubts(g, m)
  BY <1>2 DEF GetStepState, Doubts, AboutToSet, StatusIn
<1> QED BY <1>1, <1>3, <1>4, <1>5, SameDoubts DEF Keeper!CallGet, Keeper!Becomes

LEMMA KeeperAnswer ==
  ASSUME Alone, SessionInv, NEW g \in Goroutine, FindStatusCondition(g)
  PROVE  Keeper!Answer(g, request[g].name, StatusIn(local, request[g].name))
<1> DEFINE n == request[g].name
           x == StatusIn(local, n)
<1>1. \A h \in Goroutine : h = g
  BY DEF Alone
<1>2. /\ pc[g] = "get" /\ pc'[g] = "got" /\ n \in StateName
      /\ request[g].state = Pending /\ Pending.status = "pending"
  BY DEF SessionInv, TypeOK, CallInv, FindStatusCondition, Goto, Pending
<1>3. CallOf(g) = Keeper!Get(n, "called", "pending") /\ "pending" \in Keeper!Statuses
  BY <1>2, ShownNow DEF Shown, Keeper!Statuses
<1>4. request'[g].name = n /\ request'[g].state.status = x
  <2>1. CASE local[n] = Absent
    BY <1>2, <2>1 DEF FindStatusCondition, StatusIn
  <2>2. CASE local[n] # Absent
    <3>1. request' = [request EXCEPT ![g].state = k8sConditionToStepState(local[n])]
      BY <2>2 DEF FindStatusCondition
    <3>2. request'[g].name = n /\ request'[g].state = k8sConditionToStepState(local[n])
      BY <3>1 DEF SessionInv, TypeOK
    <3> QED BY <2>2, <3>2 DEF StatusIn
  <2> QED BY <2>1, <2>2
<1>5. CallOf(g)' = Keeper!Get(n, "done", x)
  BY <1>2, <1>4, ShownNext DEF Shown
<1>6. x \in PossibleOf(n)
  BY <1>2 DEF PossibleOf
<1>7. \A m \in StateName : Doubts(g, m)' = Doubts(g, m)
  BY <1>2 DEF FindStatusCondition, Doubts, AboutToSet, StatusIn
<1> HIDE DEF n, x
<1>8. Keeper!Answer(g, n, x)
  BY <1>1, <1>2, <1>3, <1>5, <1>6, <1>7, SameDoubts DEF Keeper!Answer, Keeper!Becomes
<1> QED BY <1>8 DEF n, x

LEMMA KeeperSet ==
  ASSUME Alone, SessionInv, NEW g \in Goroutine, NEW n \in StateName, NEW s \in EngineStates,
         SetStepState(g, n, s)
  PROVE  Keeper!CallSet(g, n, s.status)
<1> DEFINE x == s.status
<1>1. \A h \in Goroutine : h = g
  BY DEF Alone
<1>2. /\ pc[g] = "idle" /\ pc'[g] = "find" /\ Setting(g)'
      /\ request'[g].name = n /\ request'[g].state = s
  BY DEF SessionInv, TypeOK, SetStepState, Goto, Setting
<1>3. CallOf(g) = Keeper!Idle /\ CallOf(g)' = Keeper!Set(n, "called", x)
  BY <1>2, ShownNow, ShownNext DEF Shown
<1>4. Skipped(s) <=> x \in {"pending", "running"}
  BY IgnoredIsSkipped
<1>5. AboutToSet(g, n)' <=> ~Skipped(s)
  BY <1>2 DEF AboutToSet, Skipped, stepStateToK8sCondition
<1>6. \A m \in StateName : m # n => Doubts(g, m)' = Doubts(g, m)
  BY <1>2 DEF SetStepState, Doubts, AboutToSet, StatusIn
<1>7. Doubts(g, n)' = Doubts(g, n) \cup (IF Skipped(s) THEN {} ELSE {x})
  BY <1>2, <1>5 DEF SetStepState, Doubts, AboutToSet, StatusIn
<1>8. IF x \in {"pending", "running"}
      THEN [m \in StateName |-> PossibleOf(m)]' = [m \in StateName |-> PossibleOf(m)]
      ELSE [m \in StateName |-> PossibleOf(m)]'
             = [[m \in StateName |-> PossibleOf(m)] EXCEPT ![n] = @ \cup {x}]
  BY <1>4, <1>6, <1>7, DoubtsNow, DoubtsNext
<1> QED BY <1>1, <1>3, <1>8 DEF Keeper!CallSet, Keeper!Becomes

LEMMA KeeperSkip ==
  ASSUME Alone, SessionInv, NEW g \in Goroutine, Skip(g)
  PROVE  Keeper!TakeEffect(g, request[g].name, request[g].state.status)
<1> DEFINE n == request[g].name
           x == request[g].state.status
<1>1. \A h \in Goroutine : h = g
  BY DEF Alone
<1>2. /\ pc[g] = "find" /\ Setting(g) /\ pc'[g] = "skipped" /\ n \in StateName
      /\ request' = request
  BY DEF SessionInv, TypeOK, Skip, Goto, Setting
<1>3. CallOf(g) = Keeper!Set(n, "called", x) /\ CallOf(g)' = Keeper!Set(n, "done", x)
  BY <1>2, ShownNow, ShownNext DEF Shown
<1>4. x \in {"pending", "running"}
  BY <1>2, IgnoredIsSkipped DEF SessionInv, CallInv, Skip
<1>5. \A m \in StateName : Doubts(g, m)' = Doubts(g, m)
  BY <1>2 DEF Skip, Doubts, AboutToSet, StatusIn, Skipped, stepStateToK8sCondition
<1> HIDE DEF n, x
<1>6. Keeper!TakeEffect(g, n, x)
  BY <1>1, <1>3, <1>4, <1>5, SameDoubts DEF Keeper!TakeEffect, Keeper!Becomes
<1> QED BY <1>6 DEF n, x

LEMMA LocalIsSet ==
  (\A n \in StateName, s \in EngineStates :
     ~Skipped(s) /\ local[n] = stepStateToK8sCondition(s) => StatusIn(local, n) = s.status)'
<1>1. \A n \in StateName, s \in EngineStates :
        ~Skipped(s) /\ local[n] = stepStateToK8sCondition(s) => StatusIn(local, n) = s.status
  BY SetIsSet
<1> QED BY <1>1, PTL

(* The local copy gets the new state: the old ones stay possible until the  *)
(* server has it too.                                                       *)
LEMMA KeeperFind ==
  ASSUME Alone, SessionInv, TypeOK', NEW g \in Goroutine, CallInv(g)',
         Find(g) \/ Append(g)
  PROVE  Keeper!Settle
<1> DEFINE n == request[g].name
           s == request[g].state
<1>1. /\ pc[g] \in {"find", "append"} /\ n \in StateName /\ s \in EngineStates /\ ~Skipped(s)
      /\ pc'[g] \in {"append", "update"} /\ Setting(g) /\ Setting(g)'
      /\ UNCHANGED <<server, request>>
  BY DEF SessionInv, TypeOK, CallInv, Find, Append, Goto, Setting
<1>2. CallOf(g) = Keeper!Set(n, "called", s.status) /\ CallOf(g)' = CallOf(g)
  BY <1>1, ShownNow, ShownNext DEF Shown
<1>3. AboutToSet(g, n)
  BY <1>1 DEF AboutToSet
<1>4. \A m \in StateName : m # n => local'[m] = local[m]
  BY DEF SessionInv, TypeOK, CallInv, Conditions, Type, Find, Append
<1>5. \A m \in StateName : m # n => Doubts(g, m)' = Doubts(g, m)
  BY <1>1, <1>4 DEF Doubts, AboutToSet, StatusIn
<1>6. CASE pc'[g] = "append"
  <2>1. local' = local
    BY <1>1, <1>6 DEF Find, Append, Goto, SessionInv, TypeOK
  <2>2. AboutToSet(g, n)'
    BY <1>1, <1>6 DEF AboutToSet, Skipped, stepStateToK8sCondition
  <2>3. Doubts(g, n)' = Doubts(g, n) /\ s.status \in Doubts(g, n)'
    BY <1>1, <1>3, <2>1, <2>2 DEF Doubts, StatusIn
  <2> QED BY <1>1, <1>2, <1>5, <2>3, KeeperSettles
<1>7. CASE pc'[g] = "update"
  <2>1. local'[n] = stepStateToK8sCondition(s)
    BY <1>1, <1>7 DEF CallInv, Setting, stepStateToK8sCondition
  <2>2. StatusIn(local, n)' = s.status
    BY <1>1, <2>1, LocalIsSet DEF Skipped, stepStateToK8sCondition
  <2>3. ~AboutToSet(g, n)'
    BY <1>7 DEF AboutToSet
  <2>4. Doubts(g, n)' \subseteq Doubts(g, n) /\ s.status \in Doubts(g, n)'
    BY <1>1, <1>3, <2>2, <2>3 DEF Doubts, StatusIn
  <2> QED BY <1>1, <1>2, <1>5, <2>4, KeeperSettles
<1> QED BY <1>1, <1>6, <1>7

LEMMA KeeperAccept ==
  ASSUME Alone, SessionInv, TypeOK', NEW g \in Goroutine, Accept(g)
  PROVE  Keeper!Settle
<1> DEFINE n == request[g].name
           s == request[g].state
<1>1. /\ pc[g] = "sent" /\ n \in StateName /\ s \in EngineStates /\ ~Skipped(s)
      /\ pc'[g] = "accepted" /\ Setting(g) /\ Setting(g)'
      /\ local[n] = stepStateToK8sCondition(s) /\ server' = local
      /\ UNCHANGED <<local, request>>
  BY DEF SessionInv, TypeOK, CallInv, Accept, Goto, Setting
<1>2. CallOf(g) = Keeper!Set(n, "called", s.status) /\ CallOf(g)' = CallOf(g)
  BY <1>1, ShownNow, ShownNext DEF Shown
<1>3. StatusIn(local, n) = s.status
  BY <1>1, SetIsSet
<1>4. \A m \in StateName : Doubts(g, m)' = {StatusIn(local, m)}
  BY <1>1 DEF Doubts, AboutToSet, StatusIn
<1>5. \A m \in StateName : Doubts(g, m)' \subseteq Doubts(g, m)
  BY <1>4 DEF Doubts
<1>6. s.status \in Doubts(g, n)'
  BY <1>1, <1>3, <1>4
<1> QED BY <1>1, <1>2, <1>5, <1>6, KeeperSettles

(* The answer is decoded: the call has taken effect; or it is lost.         *)
LEMMA KeeperDecode ==
  ASSUME Alone, SessionInv, TypeOK', NEW g \in Goroutine, Decode(g), pc'[g] = "persisted"
  PROVE  Keeper!TakeEffect(g, request[g].name, request[g].state.status)
<1> DEFINE n == request[g].name
           s == request[g].state
<1>1. \A h \in Goroutine : h = g
  BY DEF Alone
<1>2. /\ pc[g] = "accepted" /\ n \in StateName /\ s \in EngineStates /\ ~Skipped(s)
      /\ Setting(g) /\ Agree(StateName) /\ local[n] = stepStateToK8sCondition(s)
      /\ local' = local /\ UNCHANGED <<server, request>>
  BY DEF SessionInv, TypeOK, CallInv, Decode, Goto, Setting
<1>3. CallOf(g) = Keeper!Set(n, "called", s.status) /\ CallOf(g)' = Keeper!Set(n, "done", s.status)
  BY <1>2, ShownNow, ShownNext DEF Shown
<1>4. \A m \in StateName : PossibleOf(m)' = {StatusIn(local, m)}
  BY <1>2, DoubtsNext DEF Doubts, AboutToSet, StatusIn, Agree
<1>5. \A m \in StateName : StatusIn(local, m) \in PossibleOf(m)
  BY DEF PossibleOf
<1>6. StatusIn(local, n) = s.status
  BY <1>2, SetIsSet
<1>7. \A m \in StateName : StatusIn(local, m) \in Keeper!Statuses
  BY StatusesAreTyped DEF SessionInv, TypeOK
<1>8. s.status \notin {"pending", "running"}
  BY <1>2, IgnoredIsSkipped
<1>9. \A m \in StateName : Keeper!UnderWay(Goroutine \ {g}, m) = {}
  BY <1>1 DEF Keeper!UnderWay
<1> HIDE DEF n, s
<1>10. Keeper!TakeEffect(g, n, s.status)
  BY <1>1, <1>2, <1>3, <1>4, <1>5, <1>6, <1>7, <1>8, <1>9
     DEF Keeper!TakeEffect, Keeper!Becomes, Keeper!Narrows
<1> QED BY <1>10 DEF n, s

(* Steps the caller does not see.                                           *)
LEMMA KeeperStutters ==
  ASSUME Alone, SessionInv, NEW g \in Goroutine,
         Update(g) \/ Reject(g) \/ (Decode(g) /\ pc'[g] # "persisted")
  PROVE  UNCHANGED Keeper!vars
<1>1. \A h \in Goroutine : h = g
  BY DEF Alone
<1>2. /\ pc[g] \in {"update", "sent", "accepted"} /\ pc'[g] \in {"sent", "failed"}
      /\ Setting(g) /\ Setting(g)' /\ UNCHANGED <<local, server, request>>
  BY DEF SessionInv, TypeOK, Update, Reject, Decode, Goto, Setting
<1>3. CallOf(g)' = CallOf(g)
  BY <1>2, ShownNow, ShownNext DEF Shown
<1>4. \A m \in StateName : Doubts(g, m)' = Doubts(g, m)
  BY <1>2 DEF Doubts, AboutToSet, StatusIn
<1> QED BY <1>1, <1>3, <1>4, SameDoubts DEF Keeper!vars

LEMMA KeeperReturn ==
  ASSUME Alone, SessionInv, NEW g \in Goroutine, Return(g)
  PROVE  Keeper!ReturnNil(g) \/ Keeper!ReturnError(g)
<1>1. \A h \in Goroutine : h = g
  BY DEF Alone
<1>2. /\ pc[g] \in {"got", "skipped", "persisted", "failed"} /\ pc'[g] = "idle"
      /\ UNCHANGED <<local, server>>
  BY DEF SessionInv, TypeOK, Return, Goto
<1>3. CallOf(g)' = Keeper!Idle
  BY <1>2, ShownNext DEF Shown
<1>4. CallOf(g).phase = "done" \/ CallOf(g).op # "none"
  <2>1. CASE pc[g] = "got"
    BY <2>1, ShownNow DEF Shown, Keeper!Get
  <2>2. CASE pc[g] \in {"skipped", "persisted"}
    BY <2>2, ShownNow DEF Shown, Keeper!Set
  <2>3. CASE pc[g] = "failed"
    BY <2>3, ShownNow DEF Shown, Setting, Keeper!Set
  <2> QED BY <1>2, <2>1, <2>2, <2>3
<1>5. \A m \in StateName : Doubts(g, m)' = Doubts(g, m)
  BY <1>2 DEF Doubts, AboutToSet, StatusIn
<1> QED BY <1>1, <1>3, <1>4, <1>5, SameDoubts
        DEF Keeper!ReturnNil, Keeper!ReturnError, Keeper!Becomes

(* A fresh copy has what the server has.                                    *)
LEMMA KeeperFetch ==
  ASSUME Alone, SessionInv, TypeOK', NEW g \in Goroutine, Fetch
  PROVE  Keeper!Settle
<1>1. pc[g] = "idle" /\ local' = server /\ UNCHANGED <<server, pc, request>>
  BY DEF Fetch
<1>2. CallOf(g) = Keeper!Idle /\ CallOf(g)' = CallOf(g)
  BY <1>1, ShownNow, ShownNext DEF Shown
<1>3. \A m \in StateName : Doubts(g, m)' = {StatusIn(server, m)}
  BY <1>1 DEF Doubts, AboutToSet, StatusIn
<1>4. \A m \in StateName : Doubts(g, m)' \subseteq Doubts(g, m)
  BY <1>3 DEF Doubts
<1> QED BY <1>2, <1>4, KeeperSettles

LEMMA KeeperForeign ==
  ASSUME Alone, SessionInv, NEW x \in Foreign, NEW c \in ForeignConditions, ForeignUpdate(x, c)
  PROVE  UNCHANGED Keeper!vars
<1>1. UNCHANGED <<local, pc, request>>
  BY DEF ForeignUpdate
<1>2. \A n \in StateName : server'[n] = server[n]
  BY TypesAssumption DEF SessionInv, TypeOK, Conditions, Type, ForeignUpdate
<1>3. \A n \in StateName : PossibleOf(n)' = PossibleOf(n)
  BY <1>1, <1>2 DEF PossibleOf, AboutToSet, StatusIn
<1>4. \A g \in Goroutine : CallOf(g)' = CallOf(g)
  BY <1>1 DEF CallOf, As, Setting
<1> QED BY <1>3, <1>4 DEF Keeper!vars

LEMMA KeeperGoroutine ==
  ASSUME Alone, SessionInv, SessionInv', NEW g \in Goroutine, GoroutineStep(g)
  PROVE  [Keeper!Next]_Keeper!vars
<1> DEFINE n == request[g].name
           x == request[g].state.status
<1>1. TypeOK' /\ CallInv(g)' /\ n \in StateName /\ x \in Keeper!Statuses
  BY DEF SessionInv, TypeOK, StepState, Keeper!Statuses
<1>2. ASSUME NEW m \in StateName, GetStepState(g, m) PROVE Keeper!Next
  <2>1. "pending" \in Keeper!Statuses
    BY DEF Keeper!Statuses
  <2> QED BY <1>2, <2>1, KeeperGet DEF Keeper!Next
<1>3. ASSUME NEW m \in Owns[g], NEW s \in EngineStates, SetStepState(g, m, s)
      PROVE  Keeper!Next
  <2>1. m \in StateName /\ s.status \in Keeper!Statuses
    BY TypesAssumption, StatesAreTyped DEF StepState, Keeper!Statuses
  <2> QED BY <1>3, <2>1, KeeperSet DEF Keeper!Next
<1>4. CASE FindStatusCondition(g)
  <2>1. StatusIn(local, n) \in Keeper!Statuses
    BY <1>1, StatusesAreTyped DEF SessionInv, TypeOK
  <2> QED BY <1>1, <1>4, <2>1, KeeperAnswer DEF Keeper!Next
<1>5. CASE Skip(g)
  BY <1>1, <1>5, KeeperSkip DEF Keeper!Next
<1>6. CASE Find(g) \/ Append(g)
  BY <1>1, <1>6, KeeperFind DEF Keeper!Next
<1>7. CASE Accept(g)
  BY <1>1, <1>7, KeeperAccept DEF Keeper!Next
<1>8. CASE Decode(g) /\ pc'[g] = "persisted"
  BY <1>1, <1>8, KeeperDecode DEF Keeper!Next
<1>9. CASE Update(g) \/ Reject(g) \/ (Decode(g) /\ pc'[g] # "persisted")
  BY <1>9, KeeperStutters
<1>10. CASE Return(g)
  BY <1>10, KeeperReturn DEF Keeper!Next
<1> QED BY <1>2, <1>3, <1>4, <1>5, <1>6, <1>7, <1>8, <1>9, <1>10 DEF GoroutineStep

LEMMA KeeperNext ==
  ASSUME Alone, SessionInv, SessionInv', [Next]_vars, NEW g \in Goroutine
  PROVE  [Keeper!Next]_Keeper!vars
<1>1. ASSUME NEW h \in Goroutine, GoroutineStep(h) PROVE [Keeper!Next]_Keeper!vars
  BY <1>1, KeeperGoroutine
<1>2. CASE Fetch
  BY <1>2, KeeperFetch DEF SessionInv, Keeper!Next
<1>3. ASSUME NEW x \in Foreign, NEW c \in ForeignConditions, ForeignUpdate(x, c)
      PROVE  [Keeper!Next]_Keeper!vars
  BY <1>3, KeeperForeign
<1>4. CASE UNCHANGED vars
  <2>1. UNCHANGED Keeper!vars
    BY <1>4 DEF vars, Keeper!vars, PossibleOf, CallOf, As, Setting, AboutToSet, StatusIn
  <2> QED BY <2>1
<1> QED BY <1>1, <1>2, <1>3, <1>4 DEF Next

(* Used by one goroutine, a K8sObject keeps the contract of StateKeeper for *)
(* any number of names and versions, whatever the server and others do      *)
(* (k8s.go:44-93).                                                          *)
THEOREM IsStateKeeper ==
  ASSUME Alone, NEW g \in Goroutine
  PROVE  Spec => KeeperSpec
<1>1. Init => Keeper!Init
  BY KeeperInit
<1>2. SessionInv /\ SessionInv' /\ [Next]_vars => [Keeper!Next]_Keeper!vars
  BY KeeperNext
<1> QED BY <1>1, <1>2, Session, PTL DEF Spec, KeeperSpec, Keeper!Spec
================================================================================
