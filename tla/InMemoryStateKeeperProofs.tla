------------------------ MODULE InMemoryStateKeeperProofs ------------------------
(***************************************************************************)
(* Proofs about InMemoryStateKeeper: for any number of goroutines and      *)
(* names, the mutex keeps them apart, and the keeper is a StateKeeper.     *)
(***************************************************************************)
EXTENDS InMemoryStateKeeper, TLAPS

(* What the map holds for an unknown name is not a status.                  *)
Distinct == NoEntry \notin Statuses

LEMMA NothingIsTyped == Nothing \in [StateName -> Statuses \cup {NoEntry}]
BY DEF Nothing

LEMMA TypeInit == ASSUME Init PROVE TypeOK
BY NothingIsTyped DEF Init, TypeOK, PCs, Requests, Statuses

LEMMA StatusIsTyped ==
  ASSUME TypeOK, NEW n \in StateName
  PROVE  StatusOf(n) \in Statuses
BY DEF TypeOK, StatusOf, Statuses

LEMMA TypeAsk ==
  ASSUME TypeOK, NEW c \in Caller, NEW label \in {"rlock", "lock", "rlockAll"},
         NEW n \in StateName, NEW x \in Statuses, Ask(c, label, n, x)
  PROVE  TypeOK'
<1>1. [name |-> n, status |-> x, copied |-> Nothing] \in Requests
  BY NothingIsTyped DEF Requests
<1>2. request' \in [Caller -> Requests]
  BY <1>1 DEF TypeOK, Ask
<1>3. pc' \in [Caller -> PCs]
  BY DEF TypeOK, Ask, Goto, PCs
<1> QED BY <1>2, <1>3 DEF TypeOK, Ask

LEMMA TypeAcquire ==
  ASSUME TypeOK, NEW c \in Caller, Acquire(c)
  PROVE  TypeOK'
<1>1. writers' \subseteq Caller /\ readers' \subseteq Caller
  BY DEF TypeOK, Acquire, RLock, Lock
<1>2. pc' \in [Caller -> PCs]
  BY DEF TypeOK, Acquire, Goto, PCs
<1> QED BY <1>1, <1>2 DEF TypeOK, Acquire

LEMMA TypeRead ==
  ASSUME TypeOK, NEW c \in Caller, Read(c)
  PROVE  TypeOK'
<1>1. StatusOf(request[c].name) \in Statuses
  BY StatusIsTyped DEF TypeOK, Requests
<1>2. request' \in [Caller -> Requests]
  BY <1>1 DEF TypeOK, Read, Requests
<1>3. pc' \in [Caller -> PCs]
  BY DEF TypeOK, Read, Goto, PCs
<1> QED BY <1>2, <1>3 DEF TypeOK, Read

LEMMA TypeStore ==
  ASSUME TypeOK, NEW c \in Caller, Store(c)
  PROVE  TypeOK'
<1>1. states' \in [StateName -> Statuses \cup {NoEntry}]
  BY DEF TypeOK, Store, Requests
<1>2. pc' \in [Caller -> PCs]
  BY DEF TypeOK, Store, Goto, PCs
<1> QED BY <1>1, <1>2 DEF TypeOK, Store

LEMMA TypeCopy ==
  ASSUME TypeOK, NEW c \in Caller, Copy(c)
  PROVE  TypeOK'
<1>1. pc' \in [Caller -> PCs]
  BY DEF TypeOK, Copy, Goto, PCs
<1>2. request' \in [Caller -> Requests]
  <2>1. CASE UNCHANGED request
    BY <2>1 DEF TypeOK
  <2>2. ASSUME NEW n \in StateName, request' = [request EXCEPT ![c].copied[n] = states[n]]
        PROVE  request' \in [Caller -> Requests]
    <3>1. request[c].copied \in [StateName -> Statuses \cup {NoEntry}]
      BY DEF TypeOK, Requests
    <3>2. [request[c].copied EXCEPT ![n] = states[n]] \in [StateName -> Statuses \cup {NoEntry}]
      BY <3>1 DEF TypeOK
    <3>3. [request[c] EXCEPT !.copied = [request[c].copied EXCEPT ![n] = states[n]]] \in Requests
      BY <3>2 DEF TypeOK, Requests
    <3>4. request' = [request EXCEPT ![c] =
                       [request[c] EXCEPT !.copied = [request[c].copied EXCEPT ![n] = states[n]]]]
      BY <2>2 DEF TypeOK
    <3> QED BY <3>3, <3>4 DEF TypeOK
  <2> QED BY <2>1, <2>2 DEF Copy
<1> QED BY <1>1, <1>2 DEF TypeOK, Copy

LEMMA TypeRelease ==
  ASSUME TypeOK, NEW c \in Caller, Release(c)
  PROVE  TypeOK'
<1>1. writers' \subseteq Caller /\ readers' \subseteq Caller
  BY DEF TypeOK, Release, RUnlock, Unlock
<1>2. pc' \in [Caller -> PCs]
  BY DEF TypeOK, Release, Goto, PCs
<1>3. request' \in [Caller -> Requests]
  BY NothingIsTyped DEF TypeOK, Release, Requests
<1> QED BY <1>1, <1>2, <1>3 DEF TypeOK, Release

--------------------------------------------------------------------------------
(* The mutex, action by action.                                             *)

LEMMA MutexInit == ASSUME Init PROVE MutexInv /\ \A c \in Caller : CopiedInv(c)
<1>1. MutexInv
  BY DEF Init, MutexInv
<1>2. ASSUME NEW c \in Caller PROVE CopiedInv(c)
  BY DEF Init, CopiedInv
<1> QED BY <1>1, <1>2

(* A caller that holds no lock asks.                                        *)
LEMMA MutexAsk ==
  ASSUME LockInv, NEW c \in Caller, NEW label \in {"rlock", "lock", "rlockAll"},
         NEW n \in StateName, NEW x \in Statuses, Ask(c, label, n, x)
  PROVE  MutexInv' /\ \A d \in Caller : CopiedInv(d)'
<1> USE DEF LockInv, TypeOK
<1>1. /\ pc[c] = "idle" /\ pc'[c] = label /\ request'[c].copied = Nothing
      /\ \A d \in Caller : d # c => pc'[d] = pc[d] /\ request'[d] = request[d]
      /\ UNCHANGED <<states, writers, readers>>
  BY DEF Ask, Goto
<1>2. MutexInv'
  BY <1>1 DEF MutexInv
<1>3. ASSUME NEW d \in Caller PROVE CopiedInv(d)'
  BY <1>1 DEF CopiedInv
<1> QED BY <1>2, <1>3

LEMMA MutexAcquire ==
  ASSUME LockInv, NEW c \in Caller, Acquire(c)
  PROVE  MutexInv' /\ \A d \in Caller : CopiedInv(d)'
<1> USE DEF LockInv, TypeOK
<1>1. /\ \A d \in Caller : d # c => pc'[d] = pc[d]
      /\ UNCHANGED <<states, request>>
  BY DEF Acquire, Goto
<1>2. CASE pc[c] = "lock"
  <2>1. writers = {} /\ readers = {} /\ writers' = {c} /\ readers' = {} /\ pc'[c] = "store"
    BY <1>2 DEF Acquire, Lock, Goto
  <2>2. MutexInv'
    BY <1>1, <1>2, <2>1 DEF MutexInv
  <2>3. \A d \in Caller : CopiedInv(d)'
    BY <1>1, <1>2, <2>1 DEF CopiedInv
  <2> QED BY <2>2, <2>3
<1>3. CASE pc[c] \in {"rlock", "rlockAll"}
  <2>1. /\ writers = {} /\ writers' = {} /\ readers' = readers \cup {c}
        /\ pc'[c] = IF pc[c] = "rlock" THEN "read" ELSE "copy"
    BY <1>3 DEF Acquire, RLock, Goto
  <2>2. MutexInv'
    BY <1>1, <1>3, <2>1 DEF MutexInv
  <2>3. \A d \in Caller : CopiedInv(d)'
    BY <1>1, <1>3, <2>1 DEF CopiedInv, Nothing
  <2> QED BY <2>2, <2>3
<1> QED BY <1>2, <1>3 DEF Acquire

LEMMA MutexRead ==
  ASSUME LockInv, NEW c \in Caller, Read(c)
  PROVE  MutexInv' /\ \A d \in Caller : CopiedInv(d)'
<1> USE DEF LockInv, TypeOK
<1>1. /\ pc[c] = "read" /\ pc'[c] = "runlock" /\ request'[c].copied = request[c].copied
      /\ \A d \in Caller : d # c => pc'[d] = pc[d] /\ request'[d] = request[d]
      /\ UNCHANGED <<states, writers, readers>>
  BY DEF Read, Goto, Requests
<1>2. MutexInv'
  BY <1>1 DEF MutexInv
<1>3. ASSUME NEW d \in Caller PROVE CopiedInv(d)'
  BY <1>1 DEF CopiedInv
<1> QED BY <1>2, <1>3

(* The map changes while nobody copies it.                                  *)
LEMMA MutexStore ==
  ASSUME LockInv, NEW c \in Caller, Store(c)
  PROVE  MutexInv' /\ \A d \in Caller : CopiedInv(d)'
<1> USE DEF LockInv, TypeOK
<1>1. /\ pc[c] = "store" /\ pc'[c] = "unlock"
      /\ \A d \in Caller : d # c => pc'[d] = pc[d]
      /\ UNCHANGED <<writers, readers, request>>
  BY DEF Store, Goto
<1>2. MutexInv'
  BY <1>1 DEF MutexInv
<1>3. \A d \in Caller : pc[d] \notin {"copy", "runlockAll"}
  BY <1>1 DEF MutexInv
<1>4. ASSUME NEW d \in Caller PROVE CopiedInv(d)'
  BY <1>1, <1>3 DEF CopiedInv
<1> QED BY <1>2, <1>4

LEMMA MutexCopy ==
  ASSUME LockInv, NEW c \in Caller, Copy(c)
  PROVE  MutexInv' /\ \A d \in Caller : CopiedInv(d)'
<1> USE DEF LockInv, TypeOK
<1>1. /\ pc[c] = "copy" /\ UNCHANGED <<states, writers, readers>>
      /\ \A n \in StateName : request[c].copied[n] \in {NoEntry, states[n]}
  BY DEF Copy, CopiedInv
<1>2. CASE /\ {n \in StateName : states[n] # NoEntry /\ request[c].copied[n] = NoEntry} = {}
           /\ Goto(c, "runlockAll") /\ UNCHANGED request
  <2>1. \A n \in StateName : request[c].copied[n] = states[n]
    BY <1>1, <1>2
  <2>2. request[c].copied = states
    BY <2>1 DEF Requests
  <2>3. pc'[c] = "runlockAll" /\ \A d \in Caller : d # c => pc'[d] = pc[d]
    BY <1>2 DEF Goto
  <2>4. MutexInv'
    BY <1>1, <2>3 DEF MutexInv
  <2>5. \A d \in Caller : CopiedInv(d)'
    BY <1>1, <1>2, <2>2, <2>3 DEF CopiedInv
  <2> QED BY <2>4, <2>5
<1>3. ASSUME NEW n \in StateName, UNCHANGED pc,
             request' = [request EXCEPT ![c].copied[n] = states[n]]
      PROVE  MutexInv' /\ \A d \in Caller : CopiedInv(d)'
  <2>1. /\ request'[c].copied = [request[c].copied EXCEPT ![n] = states[n]]
        /\ \A d \in Caller : d # c => request'[d] = request[d]
    BY <1>3 DEF Requests
  <2>2. \A m \in StateName : request'[c].copied[m] \in {NoEntry, states[m]}
    BY <1>1, <2>1 DEF Requests
  <2>3. MutexInv'
    BY <1>1, <1>3 DEF MutexInv
  <2>4. \A d \in Caller : CopiedInv(d)'
    BY <1>1, <1>3, <2>1, <2>2 DEF CopiedInv
  <2> QED BY <2>3, <2>4
<1> QED BY <1>2, <1>3 DEF Copy

LEMMA MutexRelease ==
  ASSUME LockInv, NEW c \in Caller, Release(c)
  PROVE  MutexInv' /\ \A d \in Caller : CopiedInv(d)'
<1> USE DEF LockInv, TypeOK
<1>1. /\ pc[c] \in {"unlock", "runlock", "runlockAll"} /\ pc'[c] = "idle"
      /\ request'[c].copied = Nothing
      /\ \A d \in Caller : d # c => pc'[d] = pc[d] /\ request'[d] = request[d]
      /\ UNCHANGED states
  BY DEF Release, Goto, Requests
<1>2. writers' = writers \ {c} /\ readers' = readers \ {c}
  BY <1>1 DEF Release, RUnlock, Unlock, MutexInv
<1>3. MutexInv'
  BY <1>1, <1>2 DEF MutexInv
<1>4. ASSUME NEW d \in Caller PROVE CopiedInv(d)'
  BY <1>1 DEF CopiedInv
<1> QED BY <1>3, <1>4

LEMMA LockNext == ASSUME LockInv, [Next]_vars PROVE LockInv'
<1>1. ASSUME NEW c \in Caller, CallerStep(c) PROVE LockInv'
  <2> USE DEF LockInv
  <2>1. ASSUME NEW n \in StateName, NEW x \in Statuses, NEW label \in {"rlock", "lock", "rlockAll"},
               Ask(c, label, n, x)
        PROVE  LockInv'
    BY <2>1, TypeAsk, MutexAsk
  <2>2. CASE GetStepState(c) \/ SetStepState(c) \/ GetAllStates(c)
    <3>1. "pending" \in Statuses /\ request[c].name \in StateName
      BY DEF Statuses, TypeOK, Requests
    <3> QED BY <2>1, <2>2, <3>1 DEF GetStepState, SetStepState, GetAllStates
  <2>3. CASE Acquire(c)
    BY <2>3, TypeAcquire, MutexAcquire
  <2>4. CASE Read(c)
    BY <2>4, TypeRead, MutexRead
  <2>5. CASE Store(c)
    BY <2>5, TypeStore, MutexStore
  <2>6. CASE Copy(c)
    BY <2>6, TypeCopy, MutexCopy
  <2>7. CASE Release(c)
    BY <2>7, TypeRelease, MutexRelease
  <2> QED BY <1>1, <2>2, <2>3, <2>4, <2>5, <2>6, <2>7 DEF CallerStep
<1>2. CASE UNCHANGED vars
  BY <1>2 DEF vars, LockInv, TypeOK, MutexInv, CopiedInv
<1> QED BY <1>1, <1>2 DEF Next

(* However many goroutines call the keeper, its mutex is held by one writer *)
(* or by readers alone, and what has been copied is what the map holds      *)
(* (state_keeper.go:43-118).                                                *)
THEOREM Locked == Spec => []LockInv
<1>1. Init => LockInv
  BY TypeInit, MutexInit DEF LockInv
<1>2. LockInv /\ [Next]_vars => LockInv'
  BY LockNext
<1> QED BY <1>1, <1>2, PTL DEF Spec

(* Any number of goroutines never use the map while one of them writes it   *)
(* (state_keeper.go:43-118).                                                *)
THEOREM MapAccess == Spec => []NoConcurrentMapAccess
<1>1. LockInv => NoConcurrentMapAccess
  BY DEF LockInv, MutexInv, NoConcurrentMapAccess
<1> QED BY <1>1, Locked, PTL

(* GetAllStates returns the map of one moment (state_keeper.go:103-118).    *)
THEOREM Snapshot == Spec => []SnapshotIsWhole
<1>1. LockInv => SnapshotIsWhole
  BY DEF LockInv, CopiedInv, SnapshotIsWhole
<1> QED BY <1>1, Locked, PTL

--------------------------------------------------------------------------------
(* The keeper implements the contract of interface StateKeeper.             *)

(* The callers among some that are about to set n.                          *)
Setters(callers, n) == {d \in callers : pc[d] \in {"lock", "store"} /\ request[d].name = n}

(* What the contract sees of a call, and of a state.                        *)
Shown ==
  /\ \A c \in Caller :
       LET n == request[c].name
           x == request[c].status
       IN /\ pc[c] \in {"idle", "rlockAll", "copy", "runlockAll"} => CallOf(c) = Keeper!Idle
          /\ pc[c] \in {"rlock", "read"} => CallOf(c) = Keeper!Get(n, "called", x)
          /\ pc[c] = "runlock" => CallOf(c) = Keeper!Get(n, "done", x)
          /\ pc[c] \in {"lock", "store"} => CallOf(c) = Keeper!Set(n, "called", x)
          /\ pc[c] = "unlock" => CallOf(c) = Keeper!Set(n, "done", x)
  /\ \A n \in StateName :
       PossibleOf(n) = {StatusOf(n)} \cup {request[c].status : c \in Setters(Caller, n)}

LEMMA ShownNow == Shown
BY DEF Shown, CallOf, As, Keeper!Idle, Keeper!Get, Keeper!Set, PossibleOf, Setters

LEMMA ShownNext == Shown'
BY ShownNow, PTL

LEMMA KeeperUnderWay ==
  ASSUME TypeOK, NEW callers \in SUBSET Caller, NEW n \in StateName
  PROVE  Keeper!UnderWay(callers, n) = {request[d].status : d \in Setters(callers, n)}
<1>1. ASSUME NEW d \in Caller, NEW x, CallOf(d) = Keeper!Set(n, "called", x)
      PROVE  pc[d] \in {"lock", "store"} /\ request[d].name = n /\ request[d].status = x
  <2>1. pc[d] \in PCs
    BY DEF TypeOK
  <2> QED BY <1>1, <2>1, ShownNow DEF Shown, PCs, Keeper!Idle, Keeper!Get, Keeper!Set
<1>2. ASSUME NEW d \in Setters(callers, n)
      PROVE  CallOf(d) = Keeper!Set(n, "called", request[d].status)
  BY ShownNow DEF Shown, Setters
<1>3. \A d \in Caller : request[d].status \in Keeper!Statuses
  BY DEF TypeOK, Requests, Statuses, Keeper!Statuses
<1>4. \A x : x \in Keeper!UnderWay(callers, n) <=>
              x \in Keeper!Statuses /\ \E d \in callers : CallOf(d) = Keeper!Set(n, "called", x)
  BY DEF Keeper!UnderWay
<1>5. ASSUME NEW x \in Keeper!UnderWay(callers, n)
      PROVE  x \in {request[d].status : d \in Setters(callers, n)}
  BY <1>1, <1>4 DEF Setters
<1>6. ASSUME NEW d \in Setters(callers, n)
      PROVE  request[d].status \in Keeper!UnderWay(callers, n)
  BY <1>2, <1>3, <1>4 DEF Setters
<1> QED BY <1>5, <1>6

(* A step of one caller changes what the contract sees of that caller only. *)
OneSteps(c) == \A d \in Caller : d # c => pc'[d] = pc[d] /\ request'[d] = request[d]

LEMMA KeeperCall ==
  ASSUME NEW c \in Caller, OneSteps(c), NEW x, CallOf(c)' = x
  PROVE  [d \in Caller |-> CallOf(d)]' = [[d \in Caller |-> CallOf(d)] EXCEPT ![c] = x]
<1>1. \A d \in Caller : d # c => CallOf(d)' = CallOf(d)
  BY DEF OneSteps, CallOf, As
<1> QED BY <1>1

LEMMA KeeperSame ==
  ASSUME NEW c \in Caller, OneSteps(c), states' = states,
         pc'[c] \in {"lock", "store"} <=> pc[c] \in {"lock", "store"},
         pc[c] \in {"lock", "store"} => request'[c] = request[c]
  PROVE  [n \in StateName |-> PossibleOf(n)]' = [n \in StateName |-> PossibleOf(n)]
<1>1. ASSUME NEW n \in StateName PROVE PossibleOf(n)' = PossibleOf(n)
  <2>1. StatusOf(n)' = StatusOf(n)
    BY DEF StatusOf
  <2>2. Setters(Caller, n)' = Setters(Caller, n)
    BY DEF OneSteps, Setters
  <2>3. \A d \in Setters(Caller, n) : request'[d].status = request[d].status
    BY DEF OneSteps, Setters
  <2>4. {request[d].status : d \in Setters(Caller, n)}' = {request[d].status : d \in Setters(Caller, n)}
    BY <2>2, <2>3
  <2> QED BY <2>1, <2>4, ShownNow, ShownNext DEF Shown
<1> QED BY <1>1

LEMMA KeeperInit == ASSUME Init, Distinct PROVE Keeper!Init
<1>1. \A n \in StateName : PossibleOf(n) = {"pending"}
  BY DEF Init, PossibleOf, StatusOf, Nothing
<1>2. \A c \in Caller : CallOf(c) = Keeper!Idle
  BY ShownNow DEF Init, Shown
<1> QED BY <1>1, <1>2 DEF Keeper!Init

LEMMA KeeperGet ==
  ASSUME LockInv, NEW c \in Caller, NEW n \in StateName, Ask(c, "rlock", n, "pending")
  PROVE  Keeper!CallGet(c, n, "pending")
<1>1. /\ pc[c] = "idle" /\ pc'[c] = "rlock" /\ OneSteps(c) /\ states' = states
      /\ request'[c].name = n /\ request'[c].status = "pending"
  BY DEF LockInv, TypeOK, Ask, Goto, OneSteps
<1>2. CallOf(c) = Keeper!Idle /\ CallOf(c)' = Keeper!Get(n, "called", "pending")
  BY <1>1, ShownNow, ShownNext DEF Shown
<1> QED BY <1>1, <1>2, KeeperCall, KeeperSame DEF Keeper!CallGet, Keeper!Becomes

LEMMA KeeperSet ==
  ASSUME LockInv, NEW c \in Caller, NEW n \in StateName, NEW x \in Statuses, Ask(c, "lock", n, x)
  PROVE  Keeper!CallSet(c, n, x)
<1>1. /\ pc[c] = "idle" /\ pc'[c] = "lock" /\ OneSteps(c) /\ states' = states
      /\ request'[c].name = n /\ request'[c].status = x
  BY DEF LockInv, TypeOK, Ask, Goto, OneSteps
<1>2. CallOf(c) = Keeper!Idle /\ CallOf(c)' = Keeper!Set(n, "called", x)
  BY <1>1, ShownNow, ShownNext DEF Shown
<1>3. ASSUME NEW m \in StateName
      PROVE  PossibleOf(m)' = PossibleOf(m) \cup (IF m = n THEN {x} ELSE {})
  <2>1. StatusOf(m)' = StatusOf(m)
    BY <1>1 DEF StatusOf
  <2>2. Setters(Caller, m)' = Setters(Caller, m) \cup (IF m = n THEN {c} ELSE {})
    BY <1>1 DEF OneSteps, Setters
  <2>3. \A d \in Setters(Caller, m) : request'[d].status = request[d].status
    BY <1>1 DEF OneSteps, Setters
  <2> QED BY <1>1, <2>1, <2>2, <2>3, ShownNow, ShownNext DEF Shown
<1>4. [m \in StateName |-> PossibleOf(m)]'
        = [[m \in StateName |-> PossibleOf(m)] EXCEPT ![n] = @ \cup {x}]
  BY <1>3
<1> QED BY <1>1, <1>2, <1>4, KeeperCall DEF Keeper!CallSet, Keeper!Becomes

LEMMA KeeperAnswer ==
  ASSUME LockInv, NEW c \in Caller, Read(c)
  PROVE  Keeper!Answer(c, request[c].name, StatusOf(request[c].name))
<1> DEFINE n == request[c].name
           x == StatusOf(n)
<1>1. /\ pc[c] = "read" /\ pc'[c] = "runlock" /\ OneSteps(c) /\ states' = states
      /\ request'[c].name = n /\ request'[c].status = x
      /\ n \in StateName /\ request[c].status \in Keeper!Statuses
  BY DEF LockInv, TypeOK, Read, Goto, OneSteps, Requests, Statuses, Keeper!Statuses
<1>2. /\ CallOf(c) = Keeper!Get(n, "called", request[c].status)
      /\ CallOf(c)' = Keeper!Get(n, "done", x)
  BY <1>1, ShownNow, ShownNext DEF Shown
<1>3. x \in PossibleOf(n)
  BY DEF PossibleOf
<1> HIDE DEF n, x
<1>4. Keeper!Answer(c, n, x)
  BY <1>1, <1>2, <1>3, KeeperCall, KeeperSame DEF Keeper!Answer, Keeper!Becomes
<1> QED BY <1>4 DEF n, x

(* The one who stores has the map to itself: what is possible afterwards is *)
(* what it stored and what others are about to set.                         *)
LEMMA KeeperStore ==
  ASSUME LockInv, Distinct, TypeOK', NEW c \in Caller, Store(c)
  PROVE  Keeper!TakeEffect(c, request[c].name, request[c].status)
<1> DEFINE n == request[c].name
           x == request[c].status
           others(m) == {request[d].status : d \in Setters(Caller \ {c}, m)}
<1>1. /\ pc[c] = "store" /\ pc'[c] = "unlock" /\ OneSteps(c) /\ request' = request
      /\ states' = [states EXCEPT ![n] = x] /\ n \in StateName /\ x \in Statuses
  BY DEF LockInv, TypeOK, Store, Goto, OneSteps, Requests
<1>2. /\ CallOf(c) = Keeper!Set(n, "called", x)
      /\ CallOf(c)' = Keeper!Set(n, "done", x)
  BY <1>1, ShownNow, ShownNext DEF Shown
<1>3. \A m \in StateName : StatusOf(m)' = IF m = n THEN x ELSE StatusOf(m)
  BY <1>1 DEF LockInv, TypeOK, StatusOf, Distinct
<1>4. \A m \in StateName :
        /\ Setters(Caller, m)' = Setters(Caller \ {c}, m)
        /\ Setters(Caller, m) = Setters(Caller \ {c}, m) \cup (IF m = n THEN {c} ELSE {})
  BY <1>1 DEF OneSteps, Setters
<1>5. ASSUME NEW m \in StateName
      PROVE  PossibleOf(m)' = {IF m = n THEN x ELSE StatusOf(m)} \cup others(m)
  <2>1. {request[d].status : d \in Setters(Caller, m)}' = others(m)
    BY <1>1, <1>4
  <2>2. PossibleOf(m)' = {StatusOf(m)'} \cup {request[d].status : d \in Setters(Caller, m)}'
    BY ShownNext DEF Shown
  <2> HIDE DEF others, n, x
  <2> QED BY <1>3, <2>1, <2>2
<1>6. \A m \in StateName :
        PossibleOf(m) = {StatusOf(m)} \cup others(m) \cup (IF m = n THEN {x} ELSE {})
  BY <1>4, ShownNow DEF Shown
<1>7. \A m \in StateName : Keeper!UnderWay(Caller \ {c}, m) = others(m)
  BY KeeperUnderWay DEF LockInv
<1>8. \A m \in StateName : PossibleOf(m) \subseteq Keeper!Statuses
  <2>1. \A m \in StateName : StatusOf(m) \in Keeper!Statuses
    BY StatusIsTyped DEF LockInv, Statuses, Keeper!Statuses
  <2>2. \A d \in Caller : request[d].status \in Keeper!Statuses
    BY DEF LockInv, TypeOK, Requests, Statuses, Keeper!Statuses
  <2> QED BY <2>1, <2>2 DEF PossibleOf
<1> HIDE DEF n, x, others
<1>9. ASSUME NEW m \in StateName
      PROVE  /\ PossibleOf(m)' # {} /\ PossibleOf(m)' \subseteq PossibleOf(m)
             /\ others(m) \subseteq PossibleOf(m)'
  <2>1. CASE m = n
    BY <1>5, <1>6, <2>1
  <2>2. CASE m # n
    BY <1>5, <1>6, <2>2
  <2> QED BY <2>1, <2>2
<1>10. ([m \in StateName |-> PossibleOf(m)]')[n] = {x} \cup others(n)
  BY <1>1, <1>5
<1>11. Keeper!TakeEffect(c, n, x)
  BY <1>1, <1>2, <1>7, <1>8, <1>9, <1>10, KeeperCall
     DEF Keeper!TakeEffect, Keeper!Becomes, Keeper!Narrows
<1> QED BY <1>11 DEF n, x

LEMMA KeeperReturn ==
  ASSUME LockInv, NEW c \in Caller, Release(c), pc[c] # "runlockAll"
  PROVE  Keeper!ReturnNil(c)
<1>1. /\ pc[c] \in {"unlock", "runlock"} /\ pc'[c] = "idle" /\ OneSteps(c) /\ states' = states
  BY DEF LockInv, TypeOK, Release, Goto, OneSteps
<1>2. CallOf(c).phase = "done"
  BY <1>1, ShownNow DEF Shown, Keeper!Get, Keeper!Set
<1>3. CallOf(c)' = Keeper!Idle
  BY <1>1, ShownNext DEF Shown
<1> QED BY <1>1, <1>2, <1>3, KeeperCall, KeeperSame DEF Keeper!ReturnNil, Keeper!Becomes

(* Waiting for the mutex and copying the map are steps nobody sees.         *)
LEMMA KeeperStutters ==
  ASSUME LockInv, NEW c \in Caller,
         \/ Acquire(c) \/ Copy(c) \/ GetAllStates(c)
         \/ Release(c) /\ pc[c] = "runlockAll"
  PROVE  UNCHANGED Keeper!vars
<1> DEFINE hidden == {"idle", "rlockAll", "copy", "runlockAll"}
<1>1. /\ OneSteps(c) /\ states' = states
      /\ \/ pc[c] \in hidden /\ pc'[c] \in hidden
         \/ pc[c] = "rlock" /\ pc'[c] = "read" /\ request' = request
         \/ pc[c] = "lock" /\ pc'[c] = "store" /\ request' = request
  <2>1. CASE Acquire(c)
    BY <2>1 DEF LockInv, TypeOK, Acquire, Goto, OneSteps
  <2>2. CASE Copy(c)
    BY <2>2 DEF LockInv, TypeOK, Copy, Goto, OneSteps
  <2>3. CASE GetAllStates(c)
    BY <2>3 DEF LockInv, TypeOK, GetAllStates, Ask, Goto, OneSteps
  <2>4. CASE Release(c) /\ pc[c] = "runlockAll"
    BY <2>4 DEF LockInv, TypeOK, Release, Goto, OneSteps
  <2> QED BY <2>1, <2>2, <2>3, <2>4
<1>2. CallOf(c)' = CallOf(c)
  BY <1>1, ShownNow, ShownNext DEF Shown
<1> QED BY <1>1, <1>2, KeeperCall, KeeperSame DEF Keeper!vars

LEMMA KeeperNext ==
  ASSUME Distinct, LockInv, LockInv', [Next]_vars
  PROVE  [Keeper!Next]_Keeper!vars
<1>1. ASSUME NEW c \in Caller, CallerStep(c) PROVE [Keeper!Next]_Keeper!vars
  <2>1. /\ request[c].name \in StateName /\ request[c].status \in Keeper!Statuses
        /\ "pending" \in Keeper!Statuses /\ TypeOK'
        /\ StatusOf(request[c].name) \in Keeper!Statuses
    BY StatusIsTyped DEF LockInv, TypeOK, Requests, Statuses, Keeper!Statuses
  <2>2. CASE GetStepState(c)
    BY <2>1, <2>2, KeeperGet DEF GetStepState, Keeper!Next
  <2>3. CASE SetStepState(c)
    BY <2>3, KeeperSet DEF SetStepState, Keeper!Next, Statuses, Keeper!Statuses
  <2>4. CASE Read(c)
    BY <2>1, <2>4, KeeperAnswer DEF Keeper!Next
  <2>5. CASE Store(c)
    BY <2>1, <2>5, KeeperStore DEF Keeper!Next
  <2>6. CASE Release(c) /\ pc[c] # "runlockAll"
    BY <2>6, KeeperReturn DEF Keeper!Next
  <2>7. CASE Acquire(c) \/ Copy(c) \/ GetAllStates(c) \/ (Release(c) /\ pc[c] = "runlockAll")
    BY <2>7, KeeperStutters
  <2> QED BY <1>1, <2>2, <2>3, <2>4, <2>5, <2>6, <2>7 DEF CallerStep
<1>2. CASE UNCHANGED vars
  <2>1. UNCHANGED Keeper!vars
    BY <1>2 DEF vars, Keeper!vars, PossibleOf, StatusOf, CallOf, As
  <2> QED BY <2>1
<1> QED BY <1>1, <1>2 DEF Next

(* The in-memory keeper keeps the contract of StateKeeper for any number of *)
(* goroutines and names (state_keeper.go:42-118).                           *)
THEOREM IsStateKeeper ==
  ASSUME Distinct
  PROVE  Spec => KeeperSpec
<1>1. Init => Keeper!Init
  BY KeeperInit
<1>2. LockInv /\ LockInv' /\ [Next]_vars => [Keeper!Next]_Keeper!vars
  BY KeeperNext
<1> QED BY <1>1, <1>2, Locked, PTL DEF Spec, KeeperSpec, Keeper!Spec
================================================================================
