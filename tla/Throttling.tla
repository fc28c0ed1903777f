------------------------------- MODULE Throttling -------------------------------
(***************************************************************************)
(* The in-memory throttler (throttling/throttling.go): a sync.Map of       *)
(* entries and a sweep gate, shared by every goroutine and partition.      *)
(* Each access to the map or to the gate is one atomic step; a goroutine   *)
(* can be overtaken, and the clock can move, between any two of them.      *)
(*                                                                         *)
(* A key here is a key together with its partition, as partKey builds it.  *)
(* One unit of time is a fraction of evictionSweepInterval.                *)
(***************************************************************************)
EXTENDS Integers, FiniteSets

CONSTANTS
  Caller,         \* goroutines that run steps
  Key,            \* partitioned keys
  Users,          \* who runs the throttled step of each key
  Resetters,      \* who may reset each key
  Settings,       \* the ThrottlingSettings a key may be used with
  SweepInterval,  \* evictionSweepInterval
  TTL,            \* evictionTTL
  Millisecond,    \* the units of time in a millisecond
  Zero,           \* the zero time.Time
  NoEntry,        \* what Load finds for an unknown key
  Horizon,        \* bound of the clock, for model checking
  Delay           \* bound on how long a call of the throttler takes

Setting == [interval : Nat, ensure : BOOLEAN, preset : BOOLEAN]

Entry == [stamp : Int, lastAccess : Int]

ASSUME CallerAssumption ==
  /\ Key # {}
  /\ Users \in [Key -> SUBSET Caller]
  /\ Resetters \in [Key -> SUBSET Caller]
ASSUME SettingsAssumption == Settings \subseteq Setting
ASSUME EntryAssumption == NoEntry \notin Entry
ASSUME TimeAssumption ==
  /\ SweepInterval \in Nat \ {0} /\ TTL \in Nat /\ Zero \in Int /\ Zero < 0
  /\ Millisecond \in Nat \ {0} /\ Horizon \in Nat /\ Delay \in Nat
  /\ \A s \in Settings : s.interval < -Zero

VARIABLES
  config,     \* the settings each key is used with; never changes
  clock,      \* store.now()
  entries,    \* the sync.Map
  lastSweep,  \* the sweep gate; 0 means never swept
  pc,         \* where each caller is
  me,         \* its arguments and local variables
  ran,        \* history: when each step last ran, as its throttling counts it
  before,     \* history: the run before that one
  called,     \* history: when ShouldRun last looked at each key
  resetAt     \* history: when each key was reset, until its step runs

store == <<entries, lastSweep>>
history == <<ran, before, called, resetAt>>
vars == <<config, clock, entries, lastSweep, pc, me, ran, before, called, resetAt>>

Never == Zero

(* key is the argument, now and last the times read, todo the keys Range    *)
(* still visits, victim the one found idle, entry and allowed what is to be *)
(* stored and returned.                                                     *)
Local == [key : Key, now : Int, last : Int, todo : SUBSET Key, victim : Key,
          entry : Entry, allowed : BOOLEAN]

Blank ==
  LET k == CHOOSE k \in Key : TRUE
  IN [key |-> k, now |-> 0, last |-> 0, todo |-> {}, victim |-> k,
      entry |-> [stamp |-> Zero, lastAccess |-> 0], allowed |-> FALSE]

Known(k) == entries[k] # NoEntry

PCs == {"idle", "gate", "swap", "range", "delete", "read", "load", "store", "loadOrStore",
        "run", "setNow", "reset"}

(* Nothing is dated in the future.                                          *)
Past == {t \in Int : t <= clock}

TypeOK ==
  /\ config \in [Key -> Settings]
  /\ clock \in Nat
  /\ entries \in [Key -> Entry \cup {NoEntry}]
  /\ \A k \in Key : Known(k) => {entries[k].stamp, entries[k].lastAccess} \subseteq Past
  /\ lastSweep \in Past
  /\ pc \in [Caller -> PCs]
  /\ me \in [Caller -> Local]
  /\ \A c \in Caller :
       {me[c].now, me[c].last, me[c].entry.stamp, me[c].entry.lastAccess} \subseteq Past
  /\ ran \in [Key -> Past]
  /\ before \in [Key -> Past]
  /\ called \in [Key -> Past]
  /\ resetAt \in [Key -> Past]

Init ==
  /\ config \in [Key -> Settings]
  /\ clock = SweepInterval
  /\ entries = [k \in Key |-> NoEntry]
  /\ lastSweep = 0
  /\ pc = [c \in Caller |-> "idle"]
  /\ me = [c \in Caller |-> Blank]
  /\ ran = [k \in Key |-> Never]
  /\ before = [k \in Key |-> Never]
  /\ called = [k \in Key |-> Never]
  /\ resetAt = [k \in Key |-> Never]

Goto(c, label) == pc' = [pc EXCEPT ![c] = label]

Return(c) == Goto(c, "idle") /\ me' = [me EXCEPT ![c] = Blank]

(* A caller keeps nothing but the key and the time.                         *)
Proceed(c, label, k, now) ==
  /\ Goto(c, label)
  /\ me' = [me EXCEPT ![c] = [Blank EXCEPT !.key = k, !.now = now]]

(* Where ShouldRun returns to: true lets the step run.                      *)
Answer(c, allowed) ==
  \/ allowed /\ Proceed(c, "run", me[c].key, me[c].now)
  \/ ~allowed /\ Return(c)

--------------------------------------------------------------------------------
(* sweep, at the start of ShouldRun.                                        *)

ShouldRun(c, k) ==
  /\ pc[c] = "idle"
  /\ c \in Users[k]
  /\ Proceed(c, "gate", k, clock)
  /\ UNCHANGED <<config, clock, store, history>>

Gate(c) ==
  /\ pc[c] = "gate"
  /\ \/ /\ me[c].now - lastSweep < SweepInterval
        /\ Goto(c, "read")
        /\ UNCHANGED me
     \/ /\ me[c].now - lastSweep >= SweepInterval
        /\ Goto(c, "swap")
        /\ me' = [me EXCEPT ![c].last = lastSweep]
  /\ UNCHANGED <<config, clock, store, history>>

(* Mutants: sets the gate without comparing; spares the key it is called    *)
(* for.                                                                     *)
SwapBlindly(c) ==
  /\ pc[c] = "swap"
  /\ lastSweep' = me[c].now
  /\ Goto(c, "range")
  /\ me' = [me EXCEPT ![c].todo = Key]
  /\ UNCHANGED <<config, clock, entries, history>>

SwapSparing(c) ==
  /\ pc[c] = "swap"
  /\ lastSweep' = me[c].now
  /\ Goto(c, "range")
  /\ me' = [me EXCEPT ![c].todo = Key \ {me[c].key}]
  /\ UNCHANGED <<config, clock, entries, history>>

(* CompareAndSwap: the loser leaves the sweep to the winner.                *)
Swap(c) ==
  /\ pc[c] = "swap"
  /\ \/ /\ lastSweep = me[c].last
        /\ lastSweep' = me[c].now
        /\ Goto(c, "range")
        /\ me' = [me EXCEPT ![c].todo = Key]
     \/ /\ lastSweep # me[c].last
        /\ Goto(c, "read")
        /\ UNCHANGED <<lastSweep, me>>
  /\ UNCHANGED <<config, clock, entries, history>>

(* Range reads each entry, and deletes the key of an idle one afterwards.   *)
Idle(c, k) == Known(k) /\ me[c].now - entries[k].lastAccess > TTL

Visit(c) ==
  /\ pc[c] = "range"
  /\ \E k \in me[c].todo :
       /\ me' = [me EXCEPT ![c].todo = @ \ {k}, ![c].victim = k]
       /\ Goto(c, IF Idle(c, k) THEN "delete" ELSE "range")
  /\ UNCHANGED <<config, clock, store, history>>

Delete(c) ==
  /\ pc[c] = "delete"
  /\ entries' = [entries EXCEPT ![me[c].victim] = NoEntry]
  /\ Goto(c, "range")
  /\ UNCHANGED <<config, clock, lastSweep, me, history>>

Swept(c) ==
  /\ pc[c] = "range"
  /\ me[c].todo = {}
  /\ Goto(c, "read")
  /\ UNCHANGED <<config, clock, store, me, history>>

--------------------------------------------------------------------------------
(* The rest of ShouldRun: it reads the clock, loads the entry of the key,   *)
(* decides, and stores at most once.                                        *)

Read(c) ==
  /\ pc[c] = "read"
  /\ Proceed(c, "load", me[c].key, clock)
  /\ UNCHANGED <<config, clock, store, history>>

(* The caller has decided on allowed and is to store an entry.              *)
Pend(c, label, now, stamp, allowed) ==
  /\ Goto(c, label)
  /\ me' = [me EXCEPT ![c].now = now, ![c].allowed = allowed,
                      ![c].entry = [stamp |-> stamp, lastAccess |-> now]]

(* Mutants: stale already after the interval; the stamp is left as it was;  *)
(* lastAccess is left as it was.                                            *)
FoundEarly(c, entry, setting) ==
  LET now == me[c].now
      stale == now - entry.stamp >= setting.interval
  IN \/ stale /\ ~setting.ensure /\ Pend(c, "store", now, now, TRUE)
     \/ (stale => setting.ensure) /\ Pend(c, "store", now, entry.stamp, stale)

FoundUnstamped(c, entry, setting) ==
  LET now == me[c].now
  IN Pend(c, "store", now, entry.stamp, now - entry.stamp > setting.interval)

FoundUnrefreshed(c, entry, setting) ==
  LET now == me[c].now
      stale == now - entry.stamp > setting.interval
  IN \/ stale /\ ~setting.ensure /\ Pend(c, "store", now, now, TRUE)
     \/ (stale => setting.ensure) /\ Answer(c, stale)

(* Only the sweep reads lastAccess, so it is refreshed at its granularity.  *)
Found(c, entry, setting) ==
  LET now == me[c].now
      stale == now - entry.stamp > setting.interval
      fresh == now - entry.lastAccess < SweepInterval
  IN \/ stale /\ ~setting.ensure /\ Pend(c, "store", now, now, TRUE)
     \/ (stale => setting.ensure) /\ ~fresh /\ Pend(c, "store", now, entry.stamp, stale)
     \/ (stale => setting.ensure) /\ fresh /\ Answer(c, stale)

(* Mutant: pre-sets a stamp in the future.                                  *)
NotFoundAhead(c, setting) ==
  LET now == me[c].now
  IN \/ /\ setting.preset
        /\ \E ahead \in 0..setting.interval : Pend(c, "loadOrStore", now, now + ahead, FALSE)
     \/ ~setting.preset /\ Pend(c, "store", now, now, TRUE)

(* rand.IntN draws how far back a pre-set stamp lies: the milliseconds of   *)
(* the interval bound it, and their number is then used as a duration in    *)
(* nanoseconds. An interval below a millisecond leaves it nothing to draw   *)
(* from: it panics, and nothing is stored.                                  *)
NotFound(c, setting) ==
  LET now == me[c].now
  IN \/ /\ setting.preset
        /\ \E back \in 0..setting.interval :
             /\ (back + 1) * Millisecond <= setting.interval
             /\ Pend(c, "loadOrStore", now, now - back, FALSE)
     \/ setting.preset /\ setting.interval < Millisecond /\ Return(c)
     \/ ~setting.preset /\ ~setting.ensure /\ Pend(c, "store", now, now, TRUE)
     \/ ~setting.preset /\ setting.ensure /\ Answer(c, TRUE)

Load(c) ==
  /\ pc[c] = "load"
  /\ LET k == me[c].key
     IN /\ called' = [called EXCEPT ![k] = me[c].now]
        /\ IF Known(k) THEN Found(c, entries[k], config[k]) ELSE NotFound(c, config[k])
  /\ UNCHANGED <<config, clock, store, ran, before, resetAt>>

Store(c) ==
  /\ pc[c] = "store"
  /\ entries' = [entries EXCEPT ![me[c].key] = me[c].entry]
  /\ Answer(c, me[c].allowed)
  /\ UNCHANGED <<config, clock, lastSweep, history>>

LoadOrStore(c) ==
  /\ pc[c] = "loadOrStore"
  /\ LET k == me[c].key
     IN entries' = IF Known(k) THEN entries ELSE [entries EXCEPT ![k] = me[c].entry]
  /\ Return(c)
  /\ UNCHANGED <<config, clock, lastSweep, history>>

--------------------------------------------------------------------------------
(* What the engine does once it was allowed to run the step: SetNow if the  *)
(* step succeeded and its settings say so (step_engine.go:368-376).         *)

Ran(k, t) ==
  /\ ran' = [ran EXCEPT ![k] = t]
  /\ before' = [before EXCEPT ![k] = ran[k]]

Finish(c) ==
  /\ pc[c] = "run"
  /\ LET k == me[c].key
     IN /\ resetAt' = [resetAt EXCEPT ![k] = Never]
        /\ \/ /\ Return(c)
              /\ IF config[k].ensure THEN UNCHANGED <<ran, before>> ELSE Ran(k, me[c].now)
           \/ /\ config[k].ensure
              /\ Pend(c, "setNow", clock, clock, TRUE)
              /\ UNCHANGED <<ran, before>>
  /\ UNCHANGED <<config, clock, store, called>>

SetNow(c) ==
  /\ pc[c] = "setNow"
  /\ entries' = [entries EXCEPT ![me[c].key] = me[c].entry]
  /\ Ran(me[c].key, me[c].entry.stamp)
  /\ Return(c)
  /\ UNCHANGED <<config, clock, lastSweep, called, resetAt>>

(* Reset: the entry is built, then stored.                                  *)
Reset(c, k) ==
  /\ pc[c] = "idle"
  /\ c \in Resetters[k]
  /\ Goto(c, "reset")
  /\ me' = [me EXCEPT ![c] = [Blank EXCEPT !.key = k, !.now = clock,
                                           !.entry.lastAccess = clock]]
  /\ UNCHANGED <<config, clock, store, history>>

(* Mutant: forgets the key.                                                 *)
ResetForgetting(c) ==
  /\ pc[c] = "reset"
  /\ entries' = [entries EXCEPT ![me[c].key] = NoEntry]
  /\ ran' = [ran EXCEPT ![me[c].key] = Never]
  /\ before' = [before EXCEPT ![me[c].key] = Never]
  /\ resetAt' = [resetAt EXCEPT ![me[c].key] = me[c].now]
  /\ Return(c)
  /\ UNCHANGED <<config, clock, lastSweep, called>>

ResetStore(c) ==
  /\ pc[c] = "reset"
  /\ entries' = [entries EXCEPT ![me[c].key] = me[c].entry]
  /\ ran' = [ran EXCEPT ![me[c].key] = Never]
  /\ before' = [before EXCEPT ![me[c].key] = Never]
  /\ resetAt' = [resetAt EXCEPT ![me[c].key] = me[c].now]
  /\ Return(c)
  /\ UNCHANGED <<config, clock, lastSweep, called>>

--------------------------------------------------------------------------------
(* Time passes, but not for long while a call of the throttler is under     *)
(* way: such a call does not block.                                         *)
Tick ==
  /\ clock < Horizon
  /\ \A c \in Caller : pc[c] \in {"idle", "run"} \/ clock - me[c].now < Delay
  /\ clock' = clock + 1
  /\ UNCHANGED <<config, store, pc, me, history>>

CallerStep(c) ==
  \/ Gate(c) \/ Swap(c) \/ Visit(c) \/ Delete(c) \/ Swept(c)
  \/ Read(c) \/ Load(c) \/ Store(c) \/ LoadOrStore(c)
  \/ Finish(c) \/ SetNow(c) \/ ResetStore(c)
  \/ \E k \in Key : ShouldRun(c, k) \/ Reset(c, k)

Next == Tick \/ \E c \in Caller : CallerStep(c)

Spec == Init /\ [][Next]_vars

--------------------------------------------------------------------------------
(* A step that its throttling lets run last ran more than Interval ago,     *)
(* unless it was reset since (ShouldRun, throttling.go:79-105).             *)
IntervalRespected ==
  \A c \in Caller :
    pc[c] = "run" /\ ran[me[c].key] # Never =>
      me[c].now - ran[me[c].key] > config[me[c].key].interval

(* A step whose key only one goroutine uses may run again too early when a  *)
(* sweep deletes an entry that was renewed after the sweep had looked at it *)
(* (throttling.go:170-175), but then it does not happen once more: of three *)
(* runs the last is always more than Interval after the first               *)
(* (throttling.go:79-122).                                                  *)
NeverThrice ==
  \A c \in Caller :
    pc[c] = "run" /\ before[me[c].key] # Never =>
      me[c].now - before[me[c].key] > config[me[c].key].interval

(* Sweeps of the shared store are at least evictionSweepInterval apart,     *)
(* however many goroutines find the gate open at once                       *)
(* (throttling.go:155-168).                                                 *)
SweepsApart == [][lastSweep' # lastSweep => lastSweep' - lastSweep >= SweepInterval]_vars

(* A key is evicted only when nobody has asked for it for evictionTTL, give *)
(* or take the granularity at which lastAccess is refreshed, nor reset it   *)
(* (throttling.go:31-38, 96-101, 137-139).                                  *)
OnlyIdleEvicted ==
  [][\A k \in Key : Known(k) /\ entries'[k] = NoEntry =>
       /\ clock - called[k] > TTL - SweepInterval
       /\ clock - resetAt[k] > TTL]_vars

(* Once a sweep is over it has left no entry that was idle then             *)
(* (throttling.go:170-175).                                                 *)
SweepComplete ==
  (\A c \in Caller : pc[c] \notin {"range", "delete"}) =>
    \A k \in Key : Known(k) => lastSweep - entries[k].lastAccess <= TTL

(* A reset holds until the step runs, for as long as an entry may sit       *)
(* unread (throttling.go:61, 136-140).                                      *)
ResetHolds ==
  \A k \in Key :
    /\ resetAt[k] # Never /\ clock - resetAt[k] <= TTL
    /\ \A c \in Caller : me[c].key = k => pc[c] = "idle"
    => Known(k) /\ entries[k].stamp = Zero

--------------------------------------------------------------------------------
(* The entry of a key as the engine sees it, and whom ShouldRun has allowed *)
(* to run a step that is not over.                                          *)
Window(k) ==
  CASE ~Known(k)                                             -> "absent"
    [] Known(k) /\ clock - entries[k].stamp > config[k].interval -> "elapsed"
    [] OTHER                                                 -> "recent"

Granted == {<<c, me[c].key>> : c \in {d \in Caller : pc[d] \in {"run", "setNow"}}}

Contract == INSTANCE Throttler WITH window <- [k \in Key |-> Window(k)], granted <- Granted

(* To one goroutine whose calls take at most one unit, the accesses of a    *)
(* call to the map, the sweep, the refreshed accesses and the stamps add up *)
(* to the throttler of the engine: a question is answered at one moment     *)
(* (throttling.go:79-176).                                                  *)
ThrottlerSpec == Contract!Spec

--------------------------------------------------------------------------------
(* Why the properties above hold when one goroutine makes all the calls.    *)

(* The last run of the step is more than the interval before t.             *)
Elapsed(k, t) == ran[k] # Never => t - ran[k] > config[k].interval

(* The entry of a key tells of its last run as long as that matters.        *)
Spaced(k, t) ==
  \/ Elapsed(k, t)
  \/ Known(k) /\ ran[k] <= entries[k].stamp /\ ran[k] <= entries[k].lastAccess

(* An entry is as recent as what happened to its key, unless the sweep or a *)
(* store that is under way will see to it.                                  *)
EntryInv(k) ==
  LET entry == entries[k]
      Sweeping == \E c \in Caller :
                    \/ pc[c] \in {"range", "delete"} /\ k \in me[c].todo
                    \/ pc[c] = "delete" /\ k = me[c].victim
      At(label) == \E c \in Caller : pc[c] = label /\ me[c].key = k
  IN /\ Spaced(k, clock)
     /\ resetAt[k] # Never /\ clock - resetAt[k] <= TTL =>
          Known(k) /\ (entry.stamp = Zero \/ At("run"))
     /\ Known(k) => /\ Zero <= entry.lastAccess /\ resetAt[k] <= entry.lastAccess
                    /\ lastSweep - entry.lastAccess <= TTL \/ Sweeping
                    /\ called[k] - entry.lastAccess < SweepInterval \/ At("store")

(* What a caller has found out still holds.                                 *)
CallInv(c) ==
  LET k == me[c].key
      now == me[c].now
      entry == me[c].entry
      victim == me[c].victim
  IN /\ pc[c] \in {"range", "delete"} => now = lastSweep
     /\ pc[c] = "delete" => Known(victim) /\ now - entries[victim].lastAccess > TTL
     /\ pc[c] \in {"load", "store", "loadOrStore", "setNow", "reset"} =>
          \A t \in {Zero, lastSweep, called[k], ran[k], resetAt[k]} : t <= now
     /\ pc[c] \in {"store", "loadOrStore", "setNow", "reset"} => entry.lastAccess = now
     /\ pc[c] = "load" => Spaced(k, now)
     /\ pc[c] = "store" => \/ Known(k) /\ entry.stamp = entries[k].stamp
                           \/ me[c].allowed /\ entry.stamp = now
     /\ pc[c] = "loadOrStore" => ~Known(k)
     /\ pc[c] = "setNow" => entry.stamp = now /\ resetAt[k] = Never
     /\ pc[c] = "reset" => entry.stamp = Zero
     /\ pc[c] \in {"run", "store"} /\ (pc[c] = "store" => me[c].allowed) => Elapsed(k, now)
     /\ pc[c] = "store" /\ me[c].allowed /\ ~config[k].ensure => entry.stamp = now
     /\ pc[c] = "run" /\ ~config[k].ensure =>
          Known(k) /\ now <= entries[k].stamp /\ now <= entries[k].lastAccess

SequentialInv ==
  /\ TypeOK
  /\ \A k \in Key : EntryInv(k)
  /\ \A c \in Caller : CallInv(c)
--------------------------------------------------------------------------------
(* Why a step never runs three times in an interval when its key has one    *)
(* owner, however the goroutines of the other keys sweep.                   *)

(* A sweep has looked at the key and is about to delete it.                 *)
Threatened(k) == \E c \in Caller : pc[c] = "delete" /\ me[c].victim = k

(* The last two runs of the step are more than the interval apart.          *)
Spread(k) == before[k] # Never => ran[k] - before[k] > config[k].interval

(* The step may run at t without a third run in the interval.               *)
Safe(k, t) == Elapsed(k, t) \/ (Spread(k) /\ ~Threatened(k))

(* The key's entry will refuse the step, or the step is safe without it;    *)
(* and taking the entry away would leave it safe.                           *)
KeyInv(k, t) ==
  /\ Safe(k, t) \/ (Known(k) /\ ran[k] <= entries[k].stamp)
  /\ Elapsed(k, t) \/ Spread(k) \/ ~Threatened(k)

(* What a caller at work on k may rely on.                                  *)
OwnerInv(c, k) ==
  LET now == me[c].now
      entry == me[c].entry
      over == clock - now > config[k].interval
  IN /\ pc[c] \in {"load", "store", "loadOrStore", "run", "setNow", "reset"} => ran[k] <= now
     /\ pc[c] \in {"store", "loadOrStore", "setNow", "reset"} => entry.lastAccess = now
     /\ pc[c] \in {"load", "store"} => KeyInv(k, now)
     /\ pc[c] = "store" =>
          IF me[c].allowed
            THEN Safe(k, now) /\ (config[k].ensure \/ entry.stamp = now)
            ELSE Safe(k, now) \/ ran[k] <= entry.stamp
     /\ pc[c] = "run" =>
          /\ Elapsed(k, now) \/ Spread(k)
          /\ config[k].ensure => Elapsed(k, clock) \/ ~Threatened(k)
          /\ ~config[k].ensure =>
               /\ Known(k) => now <= entries[k].lastAccess
               /\ over \/ (Known(k) /\ now <= entries[k].stamp)
                       \/ (Elapsed(k, now) /\ ~Threatened(k))
               /\ over \/ Elapsed(k, now) \/ ~Threatened(k)
     /\ pc[c] = "setNow" => entry.stamp = now /\ (Elapsed(k, now) \/ ~Threatened(k))

(* What is recorded of a key is in order.                                   *)
RecordInv(k) ==
  /\ before[k] <= ran[k]
  /\ ran[k] = Never => before[k] = Never
  /\ Known(k) => ran[k] <= entries[k].lastAccess

(* One sweep at a time, and no call of the throttler takes longer than      *)
(* Delay.                                                                   *)
TimelyInv(c) ==
  /\ me[c].now >= 0
  /\ pc[c] # "idle" => c \in Users[me[c].key] \cup Resetters[me[c].key]
  /\ pc[c] \notin {"idle", "run"} => clock - me[c].now <= Delay
  /\ pc[c] \in {"range", "delete"} =>
       /\ me[c].now = lastSweep
       /\ \A d \in Caller : pc[d] \in {"range", "delete"} => d = c

TwiceInv ==
  /\ TypeOK
  /\ \A k \in Key : KeyInv(k, clock) /\ RecordInv(k)
  /\ \A c \in Caller : TimelyInv(c) /\ OwnerInv(c, me[c].key)
================================================================================
