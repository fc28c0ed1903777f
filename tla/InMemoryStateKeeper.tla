-------------------------- MODULE InMemoryStateKeeper ---------------------------
(***************************************************************************)
(* The StateKeeper of the examples (examples/shared/state_keeper.go): a    *)
(* map of states behind a sync.RWMutex.  Goroutines of parallel steps, and *)
(* whoever prints the final states, use it at the same time.               *)
(***************************************************************************)
CONSTANTS
  Caller,     \* goroutines
  StateName,  \* names of step states
  NoEntry     \* what the map holds for a name nobody has set

VARIABLES
  states,   \* the map
  writers,  \* who holds the mutex for writing
  readers,  \* who holds it for reading
  pc,       \* where each caller is
  request   \* its arguments, and its answer once it has one

vars == <<states, writers, readers, pc, request>>

Statuses == {"pending", "running", "succeeded", "failed"}

PCs == {"idle", "rlock", "read", "runlock", "lock", "store", "unlock",
        "rlockAll", "copy", "runlockAll"}

(* name and status of a SetStepState; of a GetStepState, the answer; copied *)
(* is the result that GetAllStates has built so far.                        *)
Requests == [name : StateName, status : Statuses, copied : [StateName -> Statuses \cup {NoEntry}]]

Nothing == [n \in StateName |-> NoEntry]

TypeOK ==
  /\ states \in [StateName -> Statuses \cup {NoEntry}]
  /\ writers \subseteq Caller
  /\ readers \subseteq Caller
  /\ pc \in [Caller -> PCs]
  /\ request \in [Caller -> Requests]

Init ==
  /\ states = Nothing
  /\ writers = {}
  /\ readers = {}
  /\ pc = [c \in Caller |-> "idle"]
  /\ \E n \in StateName :
       request = [c \in Caller |-> [name |-> n, status |-> "pending", copied |-> Nothing]]

Goto(c, label) == pc' = [pc EXCEPT ![c] = label]

(* What GetStepState answers for n.                                         *)
StatusOf(n) == IF states[n] = NoEntry THEN "pending" ELSE states[n]

--------------------------------------------------------------------------------
(* sync.RWMutex: many readers or one writer.                                *)

RLock(c) == writers = {} /\ readers' = readers \cup {c} /\ UNCHANGED writers

RUnlock(c) == readers' = readers \ {c} /\ UNCHANGED writers

(* Mutant: a setter is content with the lock of a reader.                   *)
LockShared(c) == writers = {} /\ writers' = {c} /\ UNCHANGED readers

Lock(c) == writers = {} /\ readers = {} /\ writers' = {c} /\ UNCHANGED readers

Unlock(c) == writers' = writers \ {c} /\ UNCHANGED readers

--------------------------------------------------------------------------------
(* A caller asks, gets the lock, works on the map and releases the lock as  *)
(* it returns.                                                              *)

Ask(c, label, n, status) ==
  /\ pc[c] = "idle"
  /\ Goto(c, label)
  /\ request' = [request EXCEPT ![c] = [name |-> n, status |-> status, copied |-> Nothing]]
  /\ UNCHANGED <<states, writers, readers>>

Acquire(c) ==
  /\ \/ pc[c] = "rlock" /\ RLock(c) /\ Goto(c, "read")
     \/ pc[c] = "lock" /\ Lock(c) /\ Goto(c, "store")
     \/ pc[c] = "rlockAll" /\ RLock(c) /\ Goto(c, "copy")
  /\ UNCHANGED <<states, request>>

(* GetStepState: a copy of the entry, or pending.                           *)
Read(c) ==
  /\ pc[c] = "read"
  /\ Goto(c, "runlock")
  /\ request' = [request EXCEPT ![c].status = StatusOf(request[c].name)]
  /\ UNCHANGED <<states, writers, readers>>

(* Mutant: keeps the outcome a state once had.                              *)
StoreOnce(c) ==
  /\ pc[c] = "store"
  /\ Goto(c, "unlock")
  /\ states' = IF StatusOf(request[c].name) \in {"succeeded", "failed"} THEN states
               ELSE [states EXCEPT ![request[c].name] = request[c].status]
  /\ UNCHANGED <<writers, readers, request>>

(* SetStepState: a copy of the argument.                                    *)
Store(c) ==
  /\ pc[c] = "store"
  /\ Goto(c, "unlock")
  /\ states' = [states EXCEPT ![request[c].name] = request[c].status]
  /\ UNCHANGED <<writers, readers, request>>

(* GetAllStates and PrintFinalStates go through the map entry by entry.     *)
Copy(c) ==
  /\ pc[c] = "copy"
  /\ LET left == {n \in StateName : states[n] # NoEntry /\ request[c].copied[n] = NoEntry}
     IN \/ left = {} /\ Goto(c, "runlockAll") /\ UNCHANGED request
        \/ \E n \in left :
             /\ request' = [request EXCEPT ![c].copied[n] = states[n]]
             /\ UNCHANGED pc
  /\ UNCHANGED <<states, writers, readers>>

Release(c) ==
  /\ \/ pc[c] \in {"runlock", "runlockAll"} /\ RUnlock(c)
     \/ pc[c] = "unlock" /\ Unlock(c)
  /\ Goto(c, "idle")
  /\ request' = [request EXCEPT ![c].copied = Nothing]
  /\ UNCHANGED states

GetStepState(c) == \E n \in StateName : Ask(c, "rlock", n, "pending")

SetStepState(c) == \E n \in StateName, x \in Statuses : Ask(c, "lock", n, x)

GetAllStates(c) == Ask(c, "rlockAll", request[c].name, "pending")

CallerStep(c) ==
  \/ GetStepState(c) \/ SetStepState(c) \/ GetAllStates(c)
  \/ Acquire(c) \/ Read(c) \/ Store(c) \/ Copy(c) \/ Release(c)

Next == \E c \in Caller : CallerStep(c)

Spec == Init /\ [][Next]_vars

--------------------------------------------------------------------------------
(* The mutex is held from its acquisition to its release, by one writer or  *)
(* by readers.                                                              *)
MutexInv ==
  /\ writers = {c \in Caller : pc[c] \in {"store", "unlock"}}
  /\ readers = {c \in Caller : pc[c] \in {"read", "runlock", "copy", "runlockAll"}}
  /\ \A c \in writers, d \in writers \cup readers : c = d

(* What a reader has copied is still in the map.                            *)
CopiedInv(c) ==
  LET copied == request[c].copied
  IN CASE pc[c] = "copy"       -> \A n \in StateName : copied[n] \in {NoEntry, states[n]}
       [] pc[c] = "runlockAll" -> copied = states
       [] OTHER                -> copied = Nothing

(* Why the two below hold.                                                  *)
LockInv ==
  /\ TypeOK
  /\ MutexInv
  /\ \A c \in Caller : CopiedInv(c)

(* The map is never written while another goroutine reads or writes it: Go  *)
(* aborts the whole process when it is (state_keeper.go:43-118).            *)
NoConcurrentMapAccess ==
  \A c, d \in Caller :
    pc[c] = "store" /\ pc[d] \in {"read", "store", "copy"} => c = d

(* What GetAllStates returns is the map as it is at one moment, not a       *)
(* mixture of moments (state_keeper.go:103-118).                            *)
SnapshotIsWhole == \A c \in Caller : pc[c] = "runlockAll" => request[c].copied = states

(* The call each caller has under way, as the interface shows it.           *)
As(c, op, phase) ==
  [op |-> op, phase |-> phase, name |-> request[c].name, status |-> request[c].status]

CallOf(c) ==
  CASE pc[c] \in {"rlock", "read"} -> As(c, "get", "called")
    [] pc[c] = "runlock"           -> As(c, "get", "done")
    [] pc[c] \in {"lock", "store"} -> As(c, "set", "called")
    [] pc[c] = "unlock"            -> As(c, "set", "done")
    [] pc[c] \in {"idle", "rlockAll", "copy", "runlockAll"} -> [op |-> "none", phase |-> "done"]

PossibleOf(n) ==
  {StatusOf(n)}
  \cup {request[c].status : c \in {d \in Caller : pc[d] \in {"lock", "store"} /\ request[d].name = n}}

Keeper == INSTANCE StateKeeper
  WITH Ignored <- {},
       possible <- [n \in StateName |-> PossibleOf(n)],
       call <- [c \in Caller |-> CallOf(c)]

(* The in-memory keeper is a StateKeeper for any number of goroutines.      *)
KeeperSpec == Keeper!Spec
================================================================================
