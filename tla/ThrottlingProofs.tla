---------------------------- MODULE ThrottlingProofs ----------------------------
(***************************************************************************)
(* Type correctness of the throttler, and the distance between two sweeps, *)
(* for any number of goroutines and keys, any settings and any delays;     *)
(* what the throttler promises when one goroutine makes all the calls; and *)
(* intervals among goroutines that have their keys to themselves, whatever *)
(* the sweep of another does to them.                                      *)
(***************************************************************************)
EXTENDS Throttling, TLAPS

LEMMA BlankIsLocal ==
  /\ Blank \in Local
  /\ Blank.now = 0 /\ Blank.last = 0
  /\ Blank.entry = [stamp |-> Zero, lastAccess |-> 0]
<1>1. (CHOOSE k \in Key : TRUE) \in Key
  BY CallerAssumption
<1>2. [stamp |-> Zero, lastAccess |-> 0] \in Entry
  BY TimeAssumption DEF Entry
<1>3. QED
  BY <1>1, <1>2 DEF Blank, Local

(* The local variables of the callers: of their type, and of the past.      *)
Dated(l) == {l.now, l.last, l.entry.stamp, l.entry.lastAccess} \subseteq Past

LEMMA BlankIsDated ==
  ASSUME clock \in Nat
  PROVE  Dated(Blank)
BY BlankIsLocal, TimeAssumption DEF Dated, Past

(* The invariant: a caller that is about to swap the gate read it at least  *)
(* a sweep interval after the sweep it read of.                             *)
SweepInv ==
  \A c \in Caller : pc[c] = "swap" => me[c].now - me[c].last >= SweepInterval

(* What one caller's step does to the locals of all.                        *)
Locals ==
  /\ pc \in [Caller -> PCs]
  /\ me \in [Caller -> Local]
  /\ \A c \in Caller : Dated(me[c])

LEMMA LocalsKept ==
  ASSUME TypeOK, UNCHANGED clock, NEW c \in Caller, NEW label \in PCs, NEW l \in Local,
         Dated(l), Goto(c, label), me' = [me EXCEPT ![c] = l]
  PROVE  Locals'
BY DEF TypeOK, Locals, Dated, Past, Goto

LEMMA LocalsReturn ==
  ASSUME TypeOK, UNCHANGED clock, NEW c \in Caller, Return(c)
  PROVE  Locals'
BY LocalsKept, BlankIsLocal, BlankIsDated DEF Return, PCs, TypeOK

LEMMA LocalsGoto ==
  ASSUME TypeOK, UNCHANGED <<clock, me>>, NEW c \in Caller, NEW label \in PCs, Goto(c, label)
  PROVE  Locals'
BY DEF TypeOK, Locals, Dated, Past, Goto

LEMMA LocalsPend ==
  ASSUME TypeOK, UNCHANGED clock, NEW c \in Caller, NEW label \in PCs, NEW now \in Past,
         NEW stamp \in Past, NEW allowed \in BOOLEAN, Pend(c, label, now, stamp, allowed)
  PROVE  Locals'
<1> DEFINE l == [me[c] EXCEPT !.now = now, !.allowed = allowed,
                              !.entry = [stamp |-> stamp, lastAccess |-> now]]
<1>1. l \in Local /\ Dated(l)
  <2> DEFINE e == [stamp |-> stamp, lastAccess |-> now]
  <2>1. me[c] \in Local /\ me[c].last \in Past
    BY DEF TypeOK
  <2>2. e \in Entry /\ e.stamp \in Past /\ e.lastAccess \in Past
    BY DEF Entry, Past
  <2> HIDE DEF e
  <2>3. l = [me[c] EXCEPT !.now = now, !.allowed = allowed, !.entry = e]
    BY DEF e
  <2> HIDE DEF l
  <2>4. l \in Local
    BY <2>1, <2>2, <2>3 DEF Local, Past
  <2>5. l.now = now /\ l.last = me[c].last /\ l.entry = e
    BY <2>1, <2>3 DEF Local
  <2>6. QED
    BY <2>1, <2>2, <2>4, <2>5 DEF Dated
<1>2. Goto(c, label) /\ me' = [me EXCEPT ![c] = l]
  BY DEF Pend, TypeOK
<1>3. QED
  BY <1>1, <1>2, LocalsKept

(* What a caller has after Proceed.                                         *)
LEMMA Proceeds ==
  ASSUME TypeOK, NEW c \in Caller, NEW label, NEW k \in Key, NEW now \in Int,
         Proceed(c, label, k, now)
  PROVE  pc'[c] = label /\ me'[c].key = k /\ me'[c].now = now
BY BlankIsLocal DEF Proceed, Goto, TypeOK, Local

LEMMA LocalsProceed ==
  ASSUME TypeOK, UNCHANGED clock, NEW c \in Caller, NEW label \in PCs, NEW k \in Key,
         NEW now \in Past, Proceed(c, label, k, now)
  PROVE  Locals'
<1> DEFINE l == [Blank EXCEPT !.key = k, !.now = now]
<1>1. Zero \in Past /\ 0 \in Past /\ now \in Int
  BY TimeAssumption DEF Past, TypeOK
<1>2. l \in Local /\ l.now = now /\ l.last = 0 /\ l.entry = Blank.entry
  BY BlankIsLocal, <1>1 DEF Local
<1>3. Dated(l)
  BY <1>1, <1>2, BlankIsLocal DEF Dated
<1>4. QED
  BY <1>2, <1>3, LocalsKept DEF Proceed

LEMMA LocalsAnswer ==
  ASSUME TypeOK, UNCHANGED clock, NEW c \in Caller, NEW allowed \in BOOLEAN,
         Answer(c, allowed)
  PROVE  Locals'
<1>1. CASE Return(c)
  BY <1>1, LocalsReturn
<1>2. CASE Proceed(c, "run", me[c].key, me[c].now)
  <2>1. me[c].key \in Key /\ me[c].now \in Past /\ "run" \in PCs
    BY DEF TypeOK, Local, PCs
  <2>2. QED
    BY <1>2, <2>1, LocalsProceed
<1>3. QED
  BY <1>1, <1>2 DEF Answer

LEMMA LocalsReset ==
  ASSUME TypeOK, NEW c \in Caller, NEW k \in Key, Reset(c, k)
  PROVE  /\ Locals'
         /\ me'[c].key = k /\ me'[c].now = clock
         /\ me'[c].entry.stamp = Zero /\ me'[c].entry.lastAccess = clock
<1> DEFINE m == [Blank EXCEPT !.key = k, !.now = clock, !.entry.lastAccess = clock]
           e == [stamp |-> Zero, lastAccess |-> clock]
<1>1. Zero \in Past /\ 0 \in Past /\ clock \in Past
  BY TimeAssumption DEF Past, TypeOK
<1>2. e \in Entry /\ e.stamp = Zero /\ e.lastAccess = clock
  BY <1>1 DEF Entry, Past
<1>3. [Blank.entry EXCEPT !.lastAccess = clock] = e
  BY BlankIsLocal
<1> HIDE DEF e
<1>4. m = [Blank EXCEPT !.key = k, !.now = clock, !.entry = e]
  BY <1>3, BlankIsLocal DEF Local
<1>5. UNCHANGED clock /\ Goto(c, "reset") /\ "reset" \in PCs /\ me' = [me EXCEPT ![c] = m]
  BY DEF Reset, PCs
<1> HIDE DEF m
<1>6. m \in Local /\ m.key = k /\ m.now = clock /\ m.last = 0 /\ m.entry = e
  BY <1>2, <1>4, <1>1, BlankIsLocal DEF Local, Past
<1>7. Dated(m)
  BY <1>2, <1>6, <1>1 DEF Dated
<1>8. QED
  BY <1>2, <1>5, <1>6, <1>7, LocalsKept DEF TypeOK

LEMMA TypeInit == Init => TypeOK /\ SweepInv
<1> SUFFICES ASSUME Init PROVE TypeOK /\ SweepInv
  OBVIOUS
<1>1. clock \in Nat /\ Zero \in Past /\ 0 \in Past
  BY TimeAssumption DEF Init, Past
<1>2. me \in [Caller -> Local] /\ \A c \in Caller : Dated(me[c])
  BY <1>1, BlankIsLocal, BlankIsDated DEF Init
<1>3. pc \in [Caller -> PCs]
  BY DEF Init, PCs
<1>4. \A k \in Key : ~Known(k)
  BY DEF Init, Known
<1>5. QED
  BY <1>1, <1>2, <1>3, <1>4 DEF Init, TypeOK, SweepInv, Never, Dated

(* A step of a caller that leaves the clock and the store alone.            *)
LEMMA LocalStep ==
  ASSUME TypeOK, UNCHANGED <<config, clock, store, ran, before, resetAt>>, Locals',
         called' \in [Key -> Past]
  PROVE  TypeOK'
BY DEF TypeOK, Locals, Dated, store, Past, Known

(* What rand.IntN draws lies within the interval.                           *)
LEMMA DrawnWithin ==
  ASSUME NEW interval \in Nat, NEW back \in 0..interval, (back + 1) * Millisecond <= interval
  PROVE  back < interval
<1>1. Millisecond \in Int /\ Millisecond >= 1
  BY TimeAssumption
<1>2. \A n \in Nat : n * Millisecond >= n
  <2>1. ASSUME NEW n \in Nat PROVE n * Millisecond = n + n * (Millisecond - 1)
    BY <1>1
  <2>2. ASSUME NEW n \in Nat, NEW m \in Nat PROVE n * m >= 0
    OBVIOUS
  <2>3. QED
    BY <1>1, <2>1, <2>2
<1>3. QED
  BY <1>1, <1>2

LEMMA LoadStep ==
  ASSUME TypeOK, NEW c \in Caller, Load(c)
  PROVE  Locals' /\ called' \in [Key -> Past]
<1> DEFINE k == me[c].key
           now == me[c].now
<1>0. k \in Key /\ now \in Past /\ {"store", "loadOrStore"} \subseteq PCs
  BY DEF TypeOK, Local, PCs
<1>1. called' \in [Key -> Past]
  BY <1>0 DEF Load, TypeOK
<1> SUFFICES Locals'
  BY <1>1
<1>2. CASE Known(k) /\ Found(c, entries[k], config[k])
  <2> DEFINE stale == now - entries[k].stamp > config[k].interval
  <2>1. entries[k].stamp \in Past /\ stale \in BOOLEAN /\ clock' = clock
    BY <1>0, <1>2 DEF TypeOK, Load
  <2>2. CASE Pend(c, "store", now, now, TRUE)
    BY <2>1, <2>2, <1>0, LocalsPend
  <2>3. CASE Pend(c, "store", now, entries[k].stamp, stale)
    BY <2>1, <2>3, <1>0, LocalsPend
  <2>4. CASE Answer(c, stale)
    BY <2>1, <2>4, LocalsAnswer
  <2>5. QED
    BY <2>2, <2>3, <2>4, <1>1, <1>2 DEF Found
<1>3. CASE ~Known(k) /\ NotFound(c, config[k])
  <2>1. ASSUME NEW back \in 0..config[k].interval, Pend(c, "loadOrStore", now, now - back, FALSE)
        PROVE  Locals'
    <3>1. back \in Nat
      BY <1>0, SettingsAssumption DEF TypeOK, Setting
    <3>2. now - back \in Past /\ clock' = clock
      BY <3>1, <1>0 DEF TypeOK, Past, Load
    <3>3. QED
      BY <3>2, <2>1, <1>0, LocalsPend
  <2>2. CASE Pend(c, "store", now, now, TRUE)
    BY <2>2, <1>0, LocalsPend DEF Load
  <2>3. CASE Answer(c, TRUE)
    BY <2>3, LocalsAnswer DEF Load
  <2>4. CASE Return(c)
    BY <2>4, LocalsReturn DEF Load
  <2>5. QED
    BY <2>1, <2>2, <2>3, <2>4, <1>1, <1>3 DEF NotFound
<1>4. QED
  BY <1>1, <1>2, <1>3 DEF Load

LEMMA TypeStep == TypeOK /\ [Next]_vars => TypeOK'
<1> SUFFICES ASSUME TypeOK, [Next]_vars PROVE TypeOK'
  OBVIOUS
<1>0. clock \in Nat /\ clock \in Past /\ Zero \in Past
  BY TimeAssumption DEF TypeOK, Past
<1>u. ASSUME UNCHANGED vars PROVE TypeOK'
  BY <1>u DEF vars, TypeOK, Past, Known
<1>t. ASSUME Tick PROVE TypeOK'
  BY <1>t DEF Tick, store, history, TypeOK, Past, Known
<1>c. ASSUME NEW c \in Caller, CallerStep(c) PROVE TypeOK'
  <2>0. /\ me[c] \in Local /\ me[c].key \in Key /\ me[c].entry \in Entry /\ Dated(me[c])
        /\ {"run", "range", "delete", "read", "load", "swap", "gate", "setNow"} \subseteq PCs
    BY DEF TypeOK, Local, Dated, PCs
  <2>1. CASE Read(c) \/ \E k \in Key : ShouldRun(c, k) \/ Reset(c, k)
    <3>1. Locals'
      BY <2>1, <2>0, <1>0, LocalsProceed, LocalsReset DEF ShouldRun, Read
    <3>2. QED
      BY <3>1, <2>1, LocalStep DEF ShouldRun, Reset, Read, history, TypeOK, Past
  <2>2. CASE Gate(c)
    <3>1. CASE Goto(c, "read") /\ UNCHANGED me
      BY <3>1, <2>2, <2>0, LocalsGoto, LocalStep DEF Gate, history, TypeOK, Past
    <3>2. CASE Goto(c, "swap") /\ me' = [me EXCEPT ![c].last = lastSweep]
      <4> DEFINE l == [me[c] EXCEPT !.last = lastSweep]
      <4>1. l \in Local /\ Dated(l)
        BY <1>0, <2>0 DEF Local, Dated, TypeOK, Past
      <4>2. me' = [me EXCEPT ![c] = l]
        BY <3>2 DEF TypeOK
      <4>3. QED
        BY <4>1, <4>2, <3>2, <2>2, <2>0, LocalsKept, LocalStep DEF Gate, history, TypeOK, Past
    <3>3. QED
      BY <2>2, <3>1, <3>2 DEF Gate
  <2>3. CASE Swap(c)
    <3>1. Locals'
      <4>1. CASE Goto(c, "range") /\ me' = [me EXCEPT ![c].todo = Key]
        <5> DEFINE l == [me[c] EXCEPT !.todo = Key]
        <5>1. l \in Local /\ Dated(l)
          BY <2>0 DEF Local, Dated
        <5>2. me' = [me EXCEPT ![c] = l]
          BY <4>1 DEF TypeOK
        <5>3. QED
          BY <5>1, <5>2, <4>1, <2>3, <2>0, LocalsKept DEF Swap
      <4>2. CASE Goto(c, "read") /\ UNCHANGED me
        BY <4>2, <2>3, <2>0, LocalsGoto DEF Swap
      <4>3. QED
        BY <2>3, <4>1, <4>2 DEF Swap
    <3>2. lastSweep' \in Past
      BY <2>3, <2>0 DEF Swap, Dated, TypeOK
    <3>3. QED
      BY <3>1, <3>2, <2>3 DEF Swap, history, TypeOK, Locals, Dated, Past, Known
  <2>4. CASE Visit(c)
    <3>1. Locals'
      <4>1. PICK k \in me[c].todo :
              /\ me' = [me EXCEPT ![c].todo = @ \ {k}, ![c].victim = k]
              /\ Goto(c, IF Idle(c, k) THEN "delete" ELSE "range")
        BY <2>4 DEF Visit
      <4> DEFINE l == [me[c] EXCEPT !.todo = @ \ {k}, !.victim = k]
      <4>2. l \in Local /\ Dated(l)
        BY <2>0 DEF Local, Dated
      <4>3. me' = [me EXCEPT ![c] = l]
        BY <4>1 DEF TypeOK
      <4>4. \E label \in PCs : Goto(c, label)
        BY <4>1, <2>0
      <4>5. QED
        BY <4>2, <4>3, <4>4, <2>4, LocalsKept DEF Visit
    <3>2. QED
      BY <3>1, <2>4, LocalStep DEF Visit, history, TypeOK, Past
  <2>5. CASE Swept(c)
    BY <2>5, <2>0, LocalsGoto, LocalStep DEF Swept, history, TypeOK, Past
  <2>6. CASE Load(c)
    BY <2>6, LoadStep, LocalStep DEF Load
  <2>7. CASE Delete(c)
    <3>1. Locals'
      BY <2>7, <2>0, LocalsGoto DEF Delete
    <3>2. QED
      BY <3>1, <2>7 DEF Delete, history, TypeOK, Locals, Dated, Past, Known
  <2>8. CASE Store(c) \/ LoadOrStore(c) \/ SetNow(c) \/ ResetStore(c)
    <3>1. Locals'
      BY <2>8, <2>0, LocalsAnswer, LocalsReturn DEF Store, LoadOrStore, SetNow, ResetStore, Local
    <3>2. entries' \in [Key -> Entry \cup {NoEntry}]
      BY <2>8, <2>0 DEF Store, LoadOrStore, SetNow, ResetStore, TypeOK
    <3>3. \A k \in Key : entries'[k] \in {entries[k], me[c].entry}
      BY <2>8, <2>0 DEF Store, LoadOrStore, SetNow, ResetStore, TypeOK
    <3>4. UNCHANGED <<config, clock, lastSweep, called>>
      BY <2>8 DEF Store, LoadOrStore, SetNow, ResetStore, history
    <3>5. {ran', before', resetAt'} \subseteq [Key -> Past]
      BY <2>8, <2>0, <1>0
         DEF Store, LoadOrStore, SetNow, ResetStore, Ran, history, TypeOK, Dated, Never
    <3>6. \A k \in Key : Known(k)' => {entries'[k].stamp, entries'[k].lastAccess} \subseteq Past
      BY <3>2, <3>3, <2>0 DEF TypeOK, Known, Dated
    <3>7. QED
      BY <3>1, <3>2, <3>4, <3>5, <3>6 DEF TypeOK, Locals, Dated, Past
  <2>9. CASE Finish(c)
    <3>1. Locals'
      BY <2>9, <2>0, <1>0, LocalsReturn, LocalsPend DEF Finish
    <3>2. ran' \in [Key -> Past] /\ before' \in [Key -> Past] /\ resetAt' \in [Key -> Past]
      BY <2>9, <2>0, <1>0 DEF Finish, Ran, TypeOK, Dated, Never
    <3>3. UNCHANGED <<config, clock, entries, lastSweep, called>>
      BY <2>9 DEF Finish, store
    <3>4. QED
      BY <3>1, <3>2, <3>3 DEF TypeOK, Locals, Dated, Past, Known
  <2>10. QED
    BY <1>c, <2>1, <2>2, <2>3, <2>4, <2>5, <2>6, <2>7, <2>8, <2>9 DEF CallerStep
<1>q. QED
  BY <1>u, <1>t, <1>c DEF Next

--------------------------------------------------------------------------------
(* Only Gate enters "swap", and it has just checked the distance.           *)
LEMMA SweepStep == TypeOK /\ SweepInv /\ [Next]_vars => SweepInv'
<1> SUFFICES ASSUME TypeOK, SweepInv, [Next]_vars PROVE SweepInv'
  OBVIOUS
<1>u. ASSUME UNCHANGED <<pc, me>> PROVE SweepInv'
  BY <1>u DEF SweepInv
<1>c. ASSUME NEW c \in Caller, CallerStep(c) PROVE SweepInv'
  <2>1. \A d \in Caller : d # c => pc'[d] = pc[d] /\ me'[d] = me[d]
    BY <1>c DEF CallerStep, TypeOK, Gate, Swap, Visit, Delete, Swept, Load, Found, NotFound,
                Store, LoadOrStore, Finish, SetNow, ResetStore, ShouldRun, Reset, Read,
                Goto, Return, Proceed, Answer, Pend
  <2>2. CASE Gate(c)
    <3>1. pc'[c] = "swap" => me'[c].now = me[c].now /\ me'[c].last = lastSweep
                             /\ me[c].now - lastSweep >= SweepInterval
      BY <2>2 DEF Gate, Goto, TypeOK, Local
    <3>2. QED
      BY <3>1, <2>1 DEF SweepInv
  <2>3. CASE ~Gate(c)
    <3>1. pc'[c] # "swap"
      BY <2>3, <1>c
         DEF CallerStep, TypeOK, Swap, Visit, Delete, Swept, Load, Found, NotFound,
             Store, LoadOrStore, Finish, SetNow, ResetStore, ShouldRun, Reset, Read,
             Goto, Return, Proceed, Answer, Pend
    <3>2. QED
      BY <3>1, <2>1 DEF SweepInv
  <2>4. QED
    BY <2>2, <2>3
<1>q. QED
  BY <1>u, <1>c DEF Next, Tick, vars

(* The sweep gate moves by at least SweepInterval, and never backwards.     *)
LEMMA SweepMoves ==
  TypeOK /\ SweepInv /\ [Next]_vars
    => lastSweep' = lastSweep \/ lastSweep' - lastSweep >= SweepInterval
<1> SUFFICES ASSUME TypeOK, SweepInv, [Next]_vars, lastSweep' # lastSweep
             PROVE  lastSweep' - lastSweep >= SweepInterval
  OBVIOUS
<1>1. PICK c \in Caller : Swap(c)
  BY DEF Next, vars, Tick, CallerStep, store, history, Gate, Swap, Visit, Delete, Swept, Load,
         Store, LoadOrStore, Finish, SetNow, ResetStore, ShouldRun, Reset, Read
<1>2. lastSweep = me[c].last /\ lastSweep' = me[c].now /\ pc[c] = "swap"
  BY <1>1 DEF Swap
<1>3. QED
  BY <1>2 DEF SweepInv

--------------------------------------------------------------------------------
LEMMA ThrottlingInvariant == Spec => [](TypeOK /\ SweepInv)
<1>1. Init => TypeOK /\ SweepInv
  BY TypeInit
<1>2. TypeOK /\ SweepInv /\ [Next]_vars => (TypeOK /\ SweepInv)'
  BY TypeStep, SweepStep
<1>3. QED
  BY <1>1, <1>2, PTL DEF Spec

(* Type correctness: in particular no stamp, no lastAccess and no sweep is  *)
(* ever dated in the future, with or without a random pre-set stamp         *)
(* (throttling.go:107-117), whatever the interleaving.                      *)
THEOREM TypeCorrect == Spec => []TypeOK
<1>1. TypeOK /\ SweepInv => TypeOK
  OBVIOUS
<1>2. QED
  BY <1>1, ThrottlingInvariant, PTL

(* However many goroutines find the gate open at once, two sweeps of the    *)
(* shared store are evictionSweepInterval apart (throttling.go:157-168).    *)
THEOREM SweepsStayApart == Spec => SweepsApart
<1>1. /\ TypeOK /\ SweepInv /\ [Next]_vars
      => [lastSweep' # lastSweep => lastSweep' - lastSweep >= SweepInterval]_vars
  BY SweepMoves
<1>2. QED
  BY <1>1, ThrottlingInvariant, PTL DEF Spec, SweepsApart

--------------------------------------------------------------------------------
(* What the throttler promises when one goroutine makes all the calls: for  *)
(* any number of keys, any settings, any delays and any clock.              *)

Alone == \A c, d \in Caller : c = d

(* No interval is longer than an entry is kept.                             *)
Patient == \A s \in Settings : s.interval <= TTL

(* EntryInv(k) for a single caller c.                                       *)
Sweeping(c, k) ==
  \/ pc[c] \in {"range", "delete"} /\ k \in me[c].todo
  \/ pc[c] = "delete" /\ k = me[c].victim

At(c, label, k) == pc[c] = label /\ me[c].key = k

ResetFor(c, k) ==
  resetAt[k] # Never /\ clock - resetAt[k] <= TTL =>
    Known(k) /\ (entries[k].stamp = Zero \/ At(c, "run", k))

AccessFor(c, k) ==
  Known(k) =>
    /\ Zero <= entries[k].lastAccess /\ resetAt[k] <= entries[k].lastAccess
    /\ lastSweep - entries[k].lastAccess <= TTL \/ Sweeping(c, k)
    /\ called[k] - entries[k].lastAccess < SweepInterval \/ At(c, "store", k)

OneInv(c) ==
  /\ \A k \in Key : Spaced(k, clock) /\ ResetFor(c, k) /\ AccessFor(c, k)
  /\ CallInv(c)

LEMMA OneNow ==
  \A c \in Caller : Alone => (SequentialInv <=> TypeOK /\ OneInv(c))
BY DEF Alone, SequentialInv, EntryInv, OneInv, Spaced, ResetFor, AccessFor, Sweeping, At

(* The values of the variables are numbers of the past.                     *)
Numbers(c) ==
  /\ clock \in Nat /\ lastSweep \in Int /\ lastSweep <= clock
  /\ me[c].now \in Int /\ me[c].now <= clock /\ me[c].last \in Int
  /\ me[c].key \in Key /\ me[c].victim \in Key /\ me[c].todo \in SUBSET Key
  /\ me[c].allowed \in BOOLEAN
  /\ me[c].entry \in Entry /\ me[c].entry.stamp \in Int /\ me[c].entry.lastAccess \in Int
  /\ \A k \in Key : ran[k] \in Int /\ called[k] \in Int /\ resetAt[k] \in Int
  /\ \A k \in Key : ran[k] <= clock /\ called[k] <= clock /\ resetAt[k] <= clock
  /\ \A k \in Key : Known(k) => entries[k].stamp \in Int /\ entries[k].lastAccess \in Int
  /\ \A k \in Key : config[k].interval \in Int /\ config[k].interval <= TTL
  /\ \A k \in Key : config[k].ensure \in BOOLEAN

LEMMA NumbersNow == ASSUME Patient, TypeOK, NEW c \in Caller PROVE Numbers(c)
<1>1. me[c] \in Local /\ me[c].now \in Past /\ clock \in Nat
  BY DEF TypeOK
<1>2. \A k \in Key : config[k] \in Setting /\ config[k].interval <= TTL
  BY SettingsAssumption DEF TypeOK, Patient
<1>3. \A k \in Key : Known(k) => entries[k].stamp \in Past /\ entries[k].lastAccess \in Past
  BY DEF TypeOK
<1>4. lastSweep \in Past /\ \A k \in Key : ran[k] \in Past /\ called[k] \in Past /\ resetAt[k] \in Past
  BY DEF TypeOK
<1> QED BY <1>1, <1>2, <1>3, <1>4 DEF Numbers, Past, Local, Entry, Setting

LEMMA Constants ==
  /\ SweepInterval \in Nat \ {0} /\ TTL \in Nat /\ Zero \in Int /\ Zero < 0 /\ Never = Zero
BY TimeAssumption DEF Never

LEMMA OneInit == ASSUME Init PROVE SequentialInv
<1>1. \A k \in Key : EntryInv(k)
  BY DEF Init, EntryInv, Spaced, Elapsed, Known
<1>2. \A c \in Caller : CallInv(c)
  BY DEF Init, CallInv
<1> QED BY <1>1, <1>2, TypeInit DEF SequentialInv

--------------------------------------------------------------------------------
(* Each step keeps the invariant.                                           *)

(* A caller moves on to a label about which nothing need be known.          *)
Free == PCs \ {"range", "delete", "load", "store", "loadOrStore", "setNow", "reset", "run"}

LEMMA OneFree ==
  ASSUME NEW c \in Caller, Numbers(c), OneInv(c),
         pc[c] \in Free \/ (pc[c] = "range" /\ me[c].todo = {}),
         pc'[c] \in Free, UNCHANGED <<config, clock, store, history>>
  PROVE  OneInv(c)'
<1> USE DEF store, history
<1>1. CallInv(c)'
  BY DEF CallInv, Free
<1>2. ASSUME NEW k \in Key PROVE Spaced(k, clock)' /\ ResetFor(c, k)' /\ AccessFor(c, k)'
  BY DEF OneInv, Spaced, ResetFor, AccessFor, Sweeping, At, Elapsed, Known, Free
<1> QED BY <1>1, <1>2 DEF OneInv

(* What Load needs to know is so when the clock is read.                    *)
LEMMA OneRead ==
  ASSUME TypeOK, NEW c \in Caller, Numbers(c), OneInv(c), Read(c)
  PROVE  OneInv(c)'
<1>1. PICK k \in Key : k = me[c].key
  BY DEF Numbers
<1>2. /\ pc[c] = "read" /\ pc'[c] = "load" /\ me'[c].key = k /\ me'[c].now = clock
      /\ UNCHANGED <<config, clock, entries, lastSweep, ran, called, resetAt>>
  <2>1. Proceed(c, "load", me[c].key, clock) /\ me[c].key \in Key /\ clock \in Int
    BY DEF Read, Numbers
  <2>2. pc'[c] = "load" /\ me'[c].key = me[c].key /\ me'[c].now = clock
    BY <2>1, Proceeds
  <2> QED BY <1>1, <2>2 DEF Read, store, history
<1>3. /\ Zero <= clock /\ lastSweep <= clock /\ called[k] <= clock
      /\ ran[k] <= clock /\ resetAt[k] <= clock
  BY Constants DEF Numbers
<1>4. Spaced(k, clock)'
  BY <1>2 DEF OneInv, Spaced, Elapsed, Known
<1>5. CallInv(c)'
  BY <1>2, <1>3, <1>4 DEF CallInv, Spaced, Elapsed, Known
<1>6. ASSUME NEW j \in Key PROVE Spaced(j, clock)' /\ ResetFor(c, j)' /\ AccessFor(c, j)'
  BY <1>2 DEF OneInv, Spaced, ResetFor, AccessFor, Sweeping, At, Elapsed, Known
<1> QED BY <1>5, <1>6 DEF OneInv

LEMMA OneTick ==
  ASSUME TypeOK, NEW c \in Caller, Numbers(c), OneInv(c), Tick
  PROVE  OneInv(c)'
<1>1. clock' = clock + 1 /\ UNCHANGED <<config, entries, lastSweep, pc, me, ran, called, resetAt>>
  BY DEF Tick, store, history
<1>2. CallInv(c)'
  BY <1>1 DEF OneInv, CallInv, Spaced, Elapsed, Known
<1>3. ASSUME NEW k \in Key PROVE Spaced(k, clock)' /\ ResetFor(c, k)' /\ AccessFor(c, k)'
  BY <1>1, Constants DEF OneInv, Numbers, Spaced, ResetFor, AccessFor, Sweeping, At, Elapsed, Known
<1> QED BY <1>2, <1>3 DEF OneInv

LEMMA OneSwap ==
  ASSUME TypeOK, NEW c \in Caller, Numbers(c), OneInv(c), Swap(c)
  PROVE  OneInv(c)'
<1>1. CASE lastSweep # me[c].last
  BY <1>1, OneFree DEF TypeOK, Swap, Goto, Free, PCs, store
<1>2. CASE lastSweep = me[c].last
  <2>1. /\ pc[c] = "swap" /\ pc'[c] = "range" /\ lastSweep' = me[c].now
        /\ me'[c].now = me[c].now /\ me'[c].todo = Key
        /\ UNCHANGED <<config, clock, entries, ran, called, resetAt>>
    <3>1. me' = [me EXCEPT ![c].todo = Key] /\ me[c] \in Local
      BY <1>2, CallerAssumption DEF TypeOK, Swap, Goto, Numbers
    <3> QED BY <1>2, <3>1 DEF TypeOK, Swap, Goto, Local, history
  <2>2. CallInv(c)'
    BY <2>1 DEF CallInv
  <2>3. ASSUME NEW k \in Key PROVE Spaced(k, clock)' /\ ResetFor(c, k)' /\ AccessFor(c, k)'
    BY <2>1 DEF OneInv, Spaced, ResetFor, AccessFor, Sweeping, At, Elapsed, Known
  <2> QED BY <2>2, <2>3 DEF OneInv
<1> QED BY <1>1, <1>2

LEMMA OneVisit ==
  ASSUME TypeOK, NEW c \in Caller, Numbers(c), OneInv(c), Visit(c)
  PROVE  OneInv(c)'
<1>1. PICK v \in me[c].todo :
        /\ me' = [me EXCEPT ![c].todo = @ \ {v}, ![c].victim = v]
        /\ Goto(c, IF Idle(c, v) THEN "delete" ELSE "range")
  BY DEF Visit
<1>2. /\ pc[c] = "range" /\ pc'[c] = IF Idle(c, v) THEN "delete" ELSE "range"
      /\ me'[c].now = me[c].now /\ me'[c].todo = me[c].todo \ {v} /\ me'[c].victim = v
      /\ UNCHANGED <<config, clock, entries, lastSweep, ran, called, resetAt>>
  BY <1>1 DEF TypeOK, Visit, Goto, Local, store, history
<1>3. CallInv(c)'
  BY <1>2 DEF OneInv, CallInv, Idle, Known
<1>4. me[c].now = lastSweep
  BY <1>2 DEF OneInv, CallInv
<1>5. ASSUME NEW k \in Key PROVE Spaced(k, clock)' /\ ResetFor(c, k)' /\ AccessFor(c, k)'
  BY <1>2, <1>4, Constants
     DEF OneInv, Numbers, Spaced, ResetFor, AccessFor, Sweeping, At, Elapsed, Known, Idle
<1> QED BY <1>3, <1>5 DEF OneInv

(* What is evicted has neither run nor been reset for longer than TTL.      *)
LEMMA OneDelete ==
  ASSUME TypeOK, NEW c \in Caller, Numbers(c), OneInv(c), Delete(c)
  PROVE  OneInv(c)'
<1> DEFINE v == me[c].victim
<1>1. /\ pc[c] = "delete" /\ pc'[c] = "range" /\ me' = me
      /\ \A k \in Key : entries'[k] = IF k = v THEN NoEntry ELSE entries[k]
      /\ UNCHANGED <<config, clock, lastSweep, ran, called, resetAt>>
  BY DEF TypeOK, Delete, Goto, history
<1>2. Known(v) /\ me[c].now - entries[v].lastAccess > TTL /\ me[c].now = lastSweep /\ v \in Key
  BY <1>1 DEF OneInv, CallInv, Numbers
<1>3. CallInv(c)'
  BY <1>1, <1>2 DEF CallInv
<1>4. ASSUME NEW k \in Key, k # v PROVE Spaced(k, clock)' /\ ResetFor(c, k)' /\ AccessFor(c, k)'
  BY <1>1, <1>4 DEF OneInv, Spaced, ResetFor, AccessFor, Sweeping, At, Elapsed, Known
<1>5. Elapsed(v, clock)
  BY <1>2, Constants DEF OneInv, Numbers, Spaced, Elapsed
<1>6. ~(resetAt[v] # Never /\ clock - resetAt[v] <= TTL)
  BY <1>2, Constants DEF OneInv, Numbers, AccessFor
<1>7. ASSUME NEW k \in Key, k = v PROVE Spaced(k, clock)' /\ ResetFor(c, k)' /\ AccessFor(c, k)'
  BY <1>1, <1>5, <1>6, <1>7 DEF Spaced, ResetFor, AccessFor, Elapsed, Known
<1> QED BY <1>3, <1>4, <1>7 DEF OneInv

LEMMA Pends ==
  ASSUME TypeOK, NEW c \in Caller, NEW label, NEW now, NEW stamp, NEW allowed,
         Pend(c, label, now, stamp, allowed)
  PROVE  /\ pc'[c] = label /\ me'[c].key = me[c].key /\ me'[c].now = now
         /\ me'[c].allowed = allowed
         /\ me'[c].entry.stamp = stamp /\ me'[c].entry.lastAccess = now
<1> DEFINE e == [stamp |-> stamp, lastAccess |-> now]
<1>1. /\ me'[c] = [me[c] EXCEPT !.now = now, !.allowed = allowed, !.entry = e]
      /\ pc'[c] = label
  BY DEF TypeOK, Pend, Goto
<1>2. me[c] \in Local
  BY DEF TypeOK
<1> HIDE DEF e
<1>3. /\ me'[c].key = me[c].key /\ me'[c].now = now
      /\ me'[c].allowed = allowed /\ me'[c].entry = e
  BY <1>1, <1>2 DEF Local
<1> QED BY <1>1, <1>3 DEF e

(* After Load the caller has not stored anything yet.                       *)
LEMMA OneLoaded ==
  ASSUME NEW c \in Caller, Numbers(c), OneInv(c), pc[c] = "load",
         called' = [called EXCEPT ![me[c].key] = me[c].now], TypeOK,
         UNCHANGED <<config, clock, store, ran, resetAt>>,
         CallInv(c)', pc'[c] \in {"idle", "run", "store", "loadOrStore"},
         pc'[c] = "store" => me'[c].key = me[c].key,
         (pc'[c] # "store" /\ Known(me[c].key)) =>
           me[c].now - entries[me[c].key].lastAccess < SweepInterval
  PROVE  OneInv(c)'
<1> USE DEF store
<1>1. \A k \in Key : called'[k] = IF k = me[c].key THEN me[c].now ELSE called[k]
  BY DEF TypeOK
<1>2. ASSUME NEW k \in Key PROVE Spaced(k, clock)'
  BY DEF OneInv, Spaced, Elapsed, Known
<1>3. ASSUME NEW k \in Key PROVE ResetFor(c, k)'
  BY DEF OneInv, ResetFor, At, Known
<1>4. ASSUME NEW k \in Key PROVE AccessFor(c, k)'
  BY <1>1, Constants DEF OneInv, Numbers, AccessFor, Sweeping, At, Known
<1> QED BY <1>2, <1>3, <1>4 DEF OneInv

(* What Load decides to store is dated when the clock was read.             *)
LEMMA LoadPends ==
  ASSUME TypeOK, NEW c \in Caller, Numbers(c), OneInv(c), pc[c] = "load",
         called' = [called EXCEPT ![me[c].key] = me[c].now],
         UNCHANGED <<config, clock, store, ran, resetAt>>,
         NEW label \in {"store", "loadOrStore"}, NEW stamp, NEW allowed \in BOOLEAN,
         Pend(c, label, me[c].now, stamp, allowed),
         label = "store" => \/ Known(me[c].key) /\ stamp = entries[me[c].key].stamp
                            \/ allowed /\ stamp = me[c].now,
         label = "loadOrStore" => ~Known(me[c].key),
         label = "store" /\ allowed =>
           Elapsed(me[c].key, me[c].now) /\ (config[me[c].key].ensure \/ stamp = me[c].now)
  PROVE  CallInv(c)'
<1> USE DEF store
<1>1. PICK k \in Key, now \in Int : k = me[c].key /\ now = me[c].now
  BY DEF Numbers
<1>2. /\ pc'[c] = label /\ me'[c].key = k /\ me'[c].now = now
      /\ me'[c].allowed = allowed
      /\ me'[c].entry.stamp = stamp /\ me'[c].entry.lastAccess = now
  <2>1. Pend(c, label, now, stamp, allowed)
    BY <1>1
  <2> QED BY <1>1, <2>1, Pends
<1>3. /\ Zero <= now /\ lastSweep' <= now /\ called'[k] <= now
      /\ ran'[k] <= now /\ resetAt'[k] <= now
  BY <1>1 DEF OneInv, CallInv, TypeOK
<1>4. Known(k)' = Known(k) /\ entries'[k] = entries[k] /\ config'[k] = config[k]
  BY DEF Known
<1>5. label = "store" /\ allowed => Elapsed(k, now)'
  BY <1>1 DEF Elapsed
<1>6. CASE label = "store"
  BY <1>1, <1>2, <1>3, <1>4, <1>5, <1>6 DEF CallInv, Elapsed
<1>7. CASE label = "loadOrStore"
  BY <1>1, <1>2, <1>3, <1>4, <1>7 DEF CallInv
<1> QED BY <1>6, <1>7

(* A caller that has nothing to do, and one that runs its step.             *)
LEMMA OneIdle == ASSUME NEW c \in Caller, pc'[c] = "idle" PROVE CallInv(c)'
BY DEF CallInv

LEMMA RunsItsKey ==
  ASSUME TypeOK, NEW c \in Caller, Proceed(c, "run", me[c].key, me[c].now)
  PROVE  pc'[c] = "run" /\ me'[c].key = me[c].key /\ me'[c].now = me[c].now
<1>1. me[c].key \in Key /\ me[c].now \in Int
  BY DEF TypeOK, Local
<1> QED BY <1>1, Proceeds

LEMMA OneAllowed ==
  ASSUME TypeOK, NEW c \in Caller, Numbers(c), NEW k \in Key, k = me[c].key,
         Proceed(c, "run", me[c].key, me[c].now), UNCHANGED <<config, ran>>,
         Elapsed(k, me[c].now),
         \/ config[k].ensure
         \/ (/\ Known(k)' /\ me[c].now <= entries'[k].stamp
             /\ me[c].now <= entries'[k].lastAccess)
  PROVE  CallInv(c)'
<1>n. PICK now \in Int : now = me[c].now
  BY DEF Numbers
<1>2. pc'[c] = "run" /\ me'[c].key = k /\ me'[c].now = now
  BY <1>n, RunsItsKey
<1>3. \/ config'[k].ensure
      \/ Known(k)' /\ now <= entries'[k].stamp /\ now <= entries'[k].lastAccess
  BY <1>n DEF Known
<1>4. Elapsed(k, now)'
  BY <1>n DEF Elapsed
<1> QED BY <1>2, <1>3, <1>4 DEF CallInv, Elapsed

LEMMA OneLoad ==
  ASSUME TypeOK, NEW c \in Caller, Numbers(c), OneInv(c), Load(c)
  PROVE  OneInv(c)'
<1> DEFINE k == me[c].key
           now == me[c].now
           entry == entries[k]
           setting == config[k]
           stale == now - entry.stamp > setting.interval
<1>1. /\ pc[c] = "load" /\ k \in Key
      /\ called' = [called EXCEPT ![k] = now]
      /\ UNCHANGED <<config, clock, store, ran, resetAt>>
  BY DEF Load, Numbers
<1>2. Spaced(k, now)
  BY <1>1 DEF OneInv, CallInv
<1>3. (Known(k) /\ stale) => Elapsed(k, now)
  BY <1>1, <1>2 DEF Numbers, Spaced, Elapsed
<1>4. ~Known(k) => Elapsed(k, now)
  BY <1>2 DEF Spaced
<1>5. ASSUME Known(k), Found(c, entry, setting) PROVE OneInv(c)'
  <2>1. CASE stale /\ ~setting.ensure /\ Pend(c, "store", now, now, TRUE)
    <3>1. CallInv(c)'
      BY <1>1, <1>3, <1>5, <2>1, LoadPends
    <3> QED BY <1>1, <2>1, <3>1, Pends, OneLoaded
  <2>2. CASE (stale => setting.ensure) /\ Pend(c, "store", now, entry.stamp, stale)
    <3>0. stale \in BOOLEAN
      OBVIOUS
    <3> HIDE DEF stale
    <3>1. CallInv(c)'
      BY <3>0, <1>1, <1>3, <1>5, <2>2, LoadPends
    <3> QED BY <1>1, <2>2, <3>1, Pends, OneLoaded
  <2>3. CASE /\ stale => setting.ensure
             /\ now - entry.lastAccess < SweepInterval /\ Answer(c, stale)
    <3>1. CASE stale /\ Proceed(c, "run", k, now)
      <4>1. pc'[c] = "run"
        BY <3>1, RunsItsKey
      <4>2. CallInv(c)'
        BY <1>1, <1>3, <1>5, <2>3, <3>1, OneAllowed DEF store
      <4> QED BY <1>1, <2>3, <4>1, <4>2, OneLoaded
    <3>2. CASE Return(c)
      <4>1. pc'[c] = "idle"
        BY <3>2 DEF TypeOK, Return, Goto
      <4> QED BY <1>1, <2>3, <4>1, OneLoaded, OneIdle
    <3> QED BY <2>3, <3>1, <3>2 DEF Answer
  <2> QED BY <1>5, <2>1, <2>2, <2>3 DEF Found
<1>6. ASSUME ~Known(k), NotFound(c, setting) PROVE OneInv(c)'
  <2>1. ASSUME NEW back, Pend(c, "loadOrStore", now, now - back, FALSE)
        PROVE  OneInv(c)'
    <3>1. CallInv(c)'
      BY <1>1, <1>6, <2>1, LoadPends
    <3>2. pc'[c] = "loadOrStore"
      BY <2>1 DEF Pend, Goto, TypeOK
    <3> QED BY <1>1, <1>6, <3>1, <3>2, OneLoaded
  <2>2. CASE Pend(c, "store", now, now, TRUE)
    <3>1. CallInv(c)'
      BY <1>1, <1>4, <1>6, <2>2, LoadPends
    <3> QED BY <1>1, <2>2, <3>1, Pends, OneLoaded
  <2>3. CASE setting.ensure /\ Answer(c, TRUE)
    <3>1. Proceed(c, "run", k, now)
      BY <2>3 DEF Answer
    <3>2. CallInv(c)'
      BY <1>1, <1>4, <1>6, <2>3, <3>1, OneAllowed
    <3> QED BY <1>1, <1>6, <3>1, <3>2, OneLoaded, RunsItsKey
  <2>4. CASE Return(c)
    <3>1. pc'[c] = "idle"
      BY <2>4 DEF TypeOK, Return, Goto
    <3> QED BY <1>1, <1>6, <3>1, OneLoaded, OneIdle
  <2> QED BY <1>6, <2>1, <2>2, <2>3, <2>4 DEF NotFound
<1> QED BY <1>5, <1>6 DEF Load

LEMMA EntriesAreKnown == \A e \in Entry : e # NoEntry
BY EntryAssumption

(* The entry a caller has ready is as recent as all that happened to its    *)
(* key; other keys are as they were.                                        *)
LEMMA OneStored ==
  ASSUME TypeOK, NEW c \in Caller, Numbers(c), OneInv(c),
         pc[c] \in {"store", "loadOrStore", "setNow", "reset"},
         entries' = [entries EXCEPT ![me[c].key] = me[c].entry],
         UNCHANGED <<config, clock, lastSweep, called>>,
         \A k \in Key : k # me[c].key => ran'[k] = ran[k] /\ resetAt'[k] = resetAt[k],
         Zero <= me[c].now, resetAt'[me[c].key] <= me[c].now,
         pc'[c] \in {"idle", "run"}, CallInv(c)',
         \A k \in Key : k = me[c].key => Spaced(k, clock)' /\ ResetFor(c, k)'
  PROVE  OneInv(c)'
<1>1. \A k \in Key : entries'[k] = IF k = me[c].key THEN me[c].entry ELSE entries[k]
  BY DEF TypeOK
<1>2. ASSUME NEW k \in Key, k # me[c].key
      PROVE Spaced(k, clock)' /\ ResetFor(c, k)' /\ AccessFor(c, k)'
  BY <1>1, <1>2 DEF OneInv, Spaced, ResetFor, AccessFor, Sweeping, At, Elapsed, Known
<1>3. ASSUME NEW k \in Key, k = me[c].key
      PROVE Spaced(k, clock)' /\ ResetFor(c, k)' /\ AccessFor(c, k)'
  <2>1. /\ entries'[k].lastAccess = me[c].now
        /\ lastSweep <= me[c].now /\ called[k] <= me[c].now
    BY <1>1, <1>3 DEF OneInv, CallInv
  <2>2. AccessFor(c, k)'
    BY <1>3, <2>1, Constants DEF AccessFor, Sweeping, At, Numbers
  <2>3. Spaced(k, clock)' /\ ResetFor(c, k)'
    BY <1>3
  <2> QED BY <2>2, <2>3
<1> QED BY <1>2, <1>3 DEF OneInv

LEMMA OneStore ==
  ASSUME TypeOK, NEW c \in Caller, Numbers(c), OneInv(c), Store(c)
  PROVE  OneInv(c)'
<1>1. PICK k \in Key : k = me[c].key
  BY DEF Numbers
<1>2. /\ pc[c] = "store" /\ entries' = [entries EXCEPT ![k] = me[c].entry]
      /\ \/ me[c].allowed /\ Proceed(c, "run", me[c].key, me[c].now)
         \/ ~me[c].allowed /\ Return(c)
      /\ UNCHANGED <<config, clock, lastSweep, ran, called, resetAt>>
  BY <1>1 DEF Store, Answer, history
<1>3. entries'[k] = me[c].entry /\ Known(k)'
  BY <1>2, EntriesAreKnown DEF TypeOK, Known, Numbers
<1>4. /\ me[c].entry.lastAccess = me[c].now /\ Zero <= me[c].now
      /\ ran[k] <= me[c].now /\ resetAt[k] <= me[c].now
      /\ \/ Known(k) /\ me[c].entry.stamp = entries[k].stamp
         \/ me[c].allowed /\ me[c].entry.stamp = me[c].now
      /\ me[c].allowed => Elapsed(k, me[c].now)
      /\ me[c].allowed /\ ~config[k].ensure => me[c].entry.stamp = me[c].now
  BY <1>1, <1>2 DEF OneInv, CallInv
<1>0. pc'[c] = IF me[c].allowed THEN "run" ELSE "idle"
  BY <1>2, RunsItsKey DEF Return, Goto, TypeOK
<1>5. CallInv(c)'
  <2>1. CASE ~me[c].allowed
    BY <2>1, <1>0, OneIdle
  <2>2. CASE me[c].allowed
    <3>1. \/ config[k].ensure
          \/ me[c].now <= entries'[k].stamp /\ me[c].now <= entries'[k].lastAccess
      BY <1>3, <1>4, <2>2 DEF Numbers
    <3>2. Proceed(c, "run", me[c].key, me[c].now) /\ Elapsed(k, me[c].now)
      BY <1>2, <1>4, <2>2
    <3> QED BY <1>1, <1>2, <1>3, <3>1, <3>2, OneAllowed
  <2> QED BY <2>1, <2>2
<1>6. Spaced(k, clock)'
  <2>1. CASE me[c].allowed
    <3>1. Elapsed(k, clock)
      BY <1>4, <2>1 DEF Elapsed, Numbers
    <3> QED BY <1>2, <3>1 DEF Spaced, Elapsed
  <2>2. CASE ~me[c].allowed
    BY <1>2, <1>3, <1>4, <2>2 DEF OneInv, Spaced, Elapsed, Known
  <2> QED BY <2>1, <2>2
<1>7. ResetFor(c, k)'
  <2>1. me[c].allowed => me'[c].key = k
    BY <1>1, <1>2, RunsItsKey
  <2> QED BY <1>0, <1>1, <1>2, <1>3, <1>4, <2>1 DEF OneInv, ResetFor, At
<1> QED BY <1>0, <1>1, <1>2, <1>4, <1>5, <1>6, <1>7, OneStored

LEMMA OneLoadOrStore ==
  ASSUME TypeOK, NEW c \in Caller, Numbers(c), OneInv(c), LoadOrStore(c)
  PROVE  OneInv(c)'
<1>1. PICK k \in Key : k = me[c].key
  BY DEF Numbers
<1>2. pc[c] = "loadOrStore" /\ ~Known(k) /\ Zero <= me[c].now /\ resetAt[k] <= me[c].now
  BY <1>1 DEF LoadOrStore, OneInv, CallInv
<1>3. /\ entries' = [entries EXCEPT ![k] = me[c].entry] /\ pc'[c] = "idle"
      /\ UNCHANGED <<config, clock, lastSweep, ran, called, resetAt>>
  BY <1>1, <1>2 DEF TypeOK, LoadOrStore, Goto, Return, history
<1>4. CallInv(c)'
  BY <1>3 DEF CallInv
<1>5. Spaced(k, clock)' /\ ResetFor(c, k)'
  BY <1>2, <1>3 DEF OneInv, Spaced, ResetFor, Elapsed
<1> QED BY <1>1, <1>2, <1>3, <1>4, <1>5, OneStored

LEMMA SetPends ==
  ASSUME TypeOK, NEW c \in Caller, Pend(c, "setNow", clock, clock, TRUE)
  PROVE  /\ pc'[c] = "setNow" /\ me'[c].key = me[c].key /\ me'[c].now = clock
         /\ me'[c].entry.stamp = clock /\ me'[c].entry.lastAccess = clock
<1> DEFINE label == "setNow"
           t == TRUE
<1>1. Pend(c, label, clock, clock, t)
  OBVIOUS
<1> HIDE DEF label, t
<1>2. /\ pc'[c] = label /\ me'[c].key = me[c].key /\ me'[c].now = clock
      /\ me'[c].entry.stamp = clock /\ me'[c].entry.lastAccess = clock
  BY <1>1, Pends
<1> QED BY <1>2 DEF label

LEMMA OneFinish ==
  ASSUME TypeOK, NEW c \in Caller, Numbers(c), OneInv(c), Finish(c)
  PROVE  OneInv(c)'
<1>1. PICK k \in Key : k = me[c].key
  BY DEF Numbers
<1>2. /\ pc[c] = "run" /\ UNCHANGED <<config, clock, entries, lastSweep, called>>
      /\ \A j \in Key : resetAt'[j] = IF j = k THEN Never ELSE resetAt[j]
      /\ \A j \in Key : j # k => ran'[j] = ran[j]
  BY <1>1 DEF TypeOK, Finish, Ran, store
<1>3. ~config[k].ensure =>
        Known(k) /\ me[c].now <= entries[k].stamp /\ me[c].now <= entries[k].lastAccess
  BY <1>1, <1>2 DEF OneInv, CallInv
<1>4. CASE Return(c) /\ IF config[k].ensure THEN UNCHANGED <<ran, before>> ELSE Ran(k, me[c].now)
  <2>1. pc'[c] = "idle" /\ ran'[k] = IF config[k].ensure THEN ran[k] ELSE me[c].now
    BY <1>4 DEF TypeOK, Return, Goto, Ran
  <2>2. CallInv(c)'
    BY <2>1 DEF CallInv
  <2>3. ASSUME NEW j \in Key PROVE Spaced(j, clock)'
    BY <1>2, <1>3, <2>1 DEF OneInv, Spaced, Elapsed, Known
  <2>4. ASSUME NEW j \in Key PROVE ResetFor(c, j)' /\ AccessFor(c, j)'
    BY <1>1, <1>2, <2>1, Constants DEF OneInv, ResetFor, AccessFor, Sweeping, At, Known
  <2> QED BY <2>2, <2>3, <2>4 DEF OneInv
<1>5. CASE config[k].ensure /\ Pend(c, "setNow", clock, clock, TRUE) /\ UNCHANGED <<ran, before>>
  <2>1. /\ pc'[c] = "setNow" /\ me'[c].key = k /\ me'[c].now = clock
        /\ me'[c].entry.stamp = clock /\ me'[c].entry.lastAccess = clock
    <3>1. /\ pc'[c] = "setNow" /\ me'[c].key = me[c].key /\ me'[c].now = clock
          /\ me'[c].entry.stamp = clock /\ me'[c].entry.lastAccess = clock
      BY <1>5, SetPends
    <3> QED BY <1>1, <3>1
  <2>2. /\ Zero <= clock /\ lastSweep' <= clock /\ called'[k] <= clock
        /\ ran'[k] <= clock /\ resetAt'[k] <= clock
    BY <1>2, <1>5, Constants DEF Numbers, TypeOK
  <2>3. CallInv(c)'
    BY <1>2, <2>1, <2>2 DEF CallInv
  <2>4. ASSUME NEW j \in Key PROVE Spaced(j, clock)'
    BY <1>2, <1>5 DEF OneInv, Spaced, Elapsed, Known
  <2>5. ASSUME NEW j \in Key PROVE ResetFor(c, j)' /\ AccessFor(c, j)'
    BY <1>1, <1>2, <2>1, Constants DEF OneInv, ResetFor, AccessFor, Sweeping, At, Known
  <2> QED BY <2>3, <2>4, <2>5 DEF OneInv
<1> QED BY <1>1, <1>4, <1>5 DEF Finish

(* SetNow and Reset store what they date now.                               *)
LEMMA OneSet ==
  ASSUME TypeOK, NEW c \in Caller, Numbers(c), OneInv(c), SetNow(c) \/ ResetStore(c)
  PROVE  OneInv(c)'
<1>1. PICK k \in Key : k = me[c].key
  BY DEF Numbers
<1>2. /\ pc[c] \in {"setNow", "reset"} /\ pc'[c] = "idle"
      /\ entries' = [entries EXCEPT ![k] = me[c].entry]
      /\ UNCHANGED <<config, clock, lastSweep, called>>
      /\ \A j \in Key : j # k => ran'[j] = ran[j] /\ resetAt'[j] = resetAt[j]
      /\ \/ pc[c] = "setNow" /\ ran'[k] = me[c].entry.stamp /\ resetAt'[k] = resetAt[k]
         \/ pc[c] = "reset" /\ ran'[k] = Never /\ resetAt'[k] = me[c].now
  BY <1>1 DEF TypeOK, SetNow, ResetStore, Ran, Goto, Return
<1>3. entries'[k] = me[c].entry /\ Known(k)'
  BY <1>2, EntriesAreKnown DEF TypeOK, Known, Numbers
<1>4. /\ me[c].entry.lastAccess = me[c].now /\ Zero <= me[c].now /\ resetAt[k] <= me[c].now
      /\ pc[c] = "setNow" => me[c].entry.stamp = me[c].now /\ resetAt[k] = Never
      /\ pc[c] = "reset" => me[c].entry.stamp = Zero
  BY <1>1, <1>2 DEF OneInv, CallInv
<1>5. CallInv(c)'
  BY <1>2 DEF CallInv
<1>6. resetAt'[k] <= me[c].now
  BY <1>2, <1>4 DEF Numbers
<1>7. Spaced(k, clock)'
  BY <1>2, <1>3, <1>4 DEF Spaced, Elapsed, Numbers
<1>8. ResetFor(c, k)'
  BY <1>2, <1>3, <1>4 DEF ResetFor
<1> QED BY <1>1, <1>2, <1>4, <1>5, <1>6, <1>7, <1>8, OneStored

LEMMA OneReset ==
  ASSUME TypeOK, NEW c \in Caller, Numbers(c), OneInv(c), NEW k \in Key, Reset(c, k)
  PROVE  OneInv(c)'
<1>1. pc[c] = "idle" /\ pc'[c] = "reset" /\ UNCHANGED <<config, clock, store, history>>
  BY DEF TypeOK, Reset, Goto
<1>2. /\ me'[c].key = k /\ me'[c].now = clock
      /\ me'[c].entry.stamp = Zero /\ me'[c].entry.lastAccess = clock
  BY LocalsReset
<1>3. /\ Zero <= clock /\ lastSweep' <= clock /\ called'[k] <= clock
      /\ ran'[k] <= clock /\ resetAt'[k] <= clock
  BY <1>1, Constants DEF Numbers, store, history
<1>4. CallInv(c)'
  BY <1>1, <1>2, <1>3 DEF CallInv
<1>5. ASSUME NEW j \in Key PROVE Spaced(j, clock)' /\ ResetFor(c, j)' /\ AccessFor(c, j)'
  BY <1>1
     DEF OneInv, Spaced, ResetFor, AccessFor, Sweeping, At, Elapsed, Known, store, history
<1> QED BY <1>4, <1>5 DEF OneInv

LEMMA OneCall ==
  ASSUME TypeOK, NEW c \in Caller, Numbers(c), OneInv(c), CallerStep(c)
  PROVE  OneInv(c)'
<1>1. CASE Gate(c) \/ Swept(c) \/ \E k \in Key : ShouldRun(c, k)
  <2>1. /\ pc[c] \in Free \/ (pc[c] = "range" /\ me[c].todo = {})
        /\ pc'[c] \in Free /\ UNCHANGED <<config, clock, store, history>>
    BY <1>1, Proceeds DEF TypeOK, Gate, Swept, ShouldRun, Goto, Free, PCs
  <2> QED BY <2>1, OneFree
<1>2. CASE Swap(c) \/ Visit(c) \/ Delete(c)
  BY <1>2, OneSwap, OneVisit, OneDelete
<1>3. CASE Read(c) \/ Load(c) \/ Store(c) \/ LoadOrStore(c)
  BY <1>3, OneRead, OneLoad, OneStore, OneLoadOrStore
<1>4. CASE Finish(c) \/ SetNow(c) \/ ResetStore(c) \/ \E k \in Key : Reset(c, k)
  BY <1>4, OneFinish, OneSet, OneReset
<1> QED BY <1>1, <1>2, <1>3, <1>4 DEF CallerStep

LEMMA OneStutter ==
  ASSUME NEW c \in Caller, OneInv(c), UNCHANGED vars
  PROVE  OneInv(c)'
<1> USE DEF vars
<1>1. CallInv(c)'
  BY DEF OneInv, CallInv, Spaced, Elapsed, Known
<1>2. \A k \in Key : Spaced(k, clock)' /\ ResetFor(c, k)' /\ AccessFor(c, k)'
  BY DEF OneInv, Spaced, ResetFor, AccessFor, Sweeping, At, Elapsed, Known
<1> QED BY <1>1, <1>2 DEF OneInv

LEMMA OneNext ==
  ASSUME Alone, Patient, SequentialInv, TypeOK', [Next]_vars, NEW c \in Caller
  PROVE  OneInv(c)'
<1>1. TypeOK /\ OneInv(c) /\ Numbers(c)
  BY OneNow, NumbersNow
<1>2. CASE Tick
  BY <1>1, <1>2, OneTick
<1>3. ASSUME NEW d \in Caller, CallerStep(d) PROVE OneInv(c)'
  BY <1>1, <1>3, OneCall DEF Alone
<1>4. CASE UNCHANGED vars
  BY <1>1, <1>4, OneStutter
<1> QED BY <1>2, <1>3, <1>4 DEF Next

(* Without a caller, only the clock moves.                                  *)
LEMMA NobodyCalls ==
  ASSUME SequentialInv, TypeOK', [Next]_vars, Caller = {}
  PROVE  SequentialInv'
<1>1. CASE Tick
  <2>1. clock' = clock + 1 /\ UNCHANGED <<config, entries, lastSweep, pc, me, ran, called, resetAt>>
    BY <1>1 DEF Tick, store, history
  <2>2. ASSUME NEW k \in Key PROVE EntryInv(k)'
    <3>1. EntryInv(k) /\ config[k].interval \in Int /\ clock \in Int
          /\ ran[k] \in Int /\ resetAt[k] \in Int
      BY SettingsAssumption DEF SequentialInv, TypeOK, Past, Setting
    <3> QED BY <2>1, <3>1, Constants DEF EntryInv, Spaced, Elapsed, Known
  <2> QED BY <2>2 DEF SequentialInv
<1>2. CASE UNCHANGED vars
  BY <1>2 DEF vars, SequentialInv, EntryInv, Spaced, Elapsed, Known
<1> QED BY <1>1, <1>2 DEF Next

LEMMA OneLater ==
  (\A c \in Caller : Alone => (SequentialInv <=> TypeOK /\ OneInv(c)))'
BY OneNow, PTL

(* The inductive invariant of a throttler that one goroutine calls.         *)
THEOREM Sequential == ASSUME Alone, Patient PROVE Spec => []SequentialInv
<1>1. Init => SequentialInv
  BY OneInit
<1>2. TypeOK /\ TypeOK' /\ SequentialInv /\ [Next]_vars => SequentialInv'
  <2> SUFFICES ASSUME TypeOK', SequentialInv, [Next]_vars PROVE SequentialInv'
    OBVIOUS
  <2>1. CASE Caller = {}
    BY <2>1, NobodyCalls
  <2>2. ASSUME NEW c \in Caller PROVE SequentialInv'
    BY OneNext, OneLater DEF Alone
  <2> QED BY <2>1, <2>2
<1> QED BY <1>1, <1>2, TypeCorrect, PTL DEF Spec

(* A step never runs before its interval has passed since it last ran, if   *)
(* it was not reset, although entries are evicted and refreshed             *)
(* (throttling.go:73-119, 155-176).                                         *)
THEOREM IntervalHolds == ASSUME Alone, Patient PROVE Spec => []IntervalRespected
<1>1. SequentialInv => IntervalRespected
  BY DEF SequentialInv, CallInv, Elapsed, IntervalRespected
<1> QED BY <1>1, Sequential, PTL

(* A sweep that is over has left no entry that was idle when it began       *)
(* (throttling.go:170-175).                                                 *)
THEOREM SweepsComplete == ASSUME Alone, Patient PROVE Spec => []SweepComplete
<1>1. SequentialInv => SweepComplete
  BY DEF SequentialInv, EntryInv, SweepComplete
<1> QED BY <1>1, Sequential, PTL

(* Until its step runs, a key that was reset stays so for as long as an     *)
(* entry may sit unread (throttling.go:136-140).                            *)
THEOREM ResetsHold == ASSUME Alone, Patient PROVE Spec => []ResetHolds
<1>1. SequentialInv => ResetHolds
  BY DEF SequentialInv, EntryInv, ResetHolds
<1> QED BY <1>1, Sequential, PTL

(* Only Delete forgets a key.                                               *)
LEMMA DeleteForgets ==
  ASSUME TypeOK, Next, NEW k \in Key, Known(k), entries'[k] = NoEntry
  PROVE  \E c \in Caller : Delete(c) /\ me[c].victim = k
<1>1. \A c \in Caller : me[c].entry \in Entry
  BY DEF TypeOK, Local
<1>2. PICK c \in Caller : entries' # entries /\ CallerStep(c)
  BY DEF Next, Tick, store, Known
<1>3. Delete(c)
  BY <1>1, <1>2, EntriesAreKnown
     DEF TypeOK, Known, CallerStep, store, history, Gate, Swap, Visit, Swept, Load, Store,
         LoadOrStore, Finish, SetNow, ResetStore, ShouldRun, Reset, Read
<1>4. me[c].victim = k
  BY <1>3 DEF Delete, TypeOK, Known
<1> QED BY <1>3, <1>4

LEMMA IdleIsEvicted ==
  ASSUME Alone, Patient, SequentialInv, Next,
         NEW k \in Key, Known(k), entries'[k] = NoEntry
  PROVE  clock - called[k] > TTL - SweepInterval /\ clock - resetAt[k] > TTL
<1>1. PICK c \in Caller : Delete(c) /\ me[c].victim = k
  BY DeleteForgets DEF SequentialInv
<1>2. OneInv(c) /\ Numbers(c) /\ pc[c] = "delete"
  BY <1>1, OneNow, NumbersNow DEF Delete, SequentialInv
<1>3. me[c].now - entries[k].lastAccess > TTL
  BY <1>1, <1>2 DEF OneInv, CallInv
<1>4. clock - called[k] > TTL - SweepInterval
  BY <1>2, <1>3, Constants DEF OneInv, AccessFor, At, Numbers
<1>5. clock - resetAt[k] > TTL
  BY <1>2, <1>3, Constants DEF OneInv, AccessFor, Numbers
<1> QED BY <1>4, <1>5

(* A key in use or reset of late is not evicted (throttling.go:31-38).      *)
THEOREM IdleEvicted == ASSUME Alone, Patient PROVE Spec => OnlyIdleEvicted
<1>1. SequentialInv /\ [Next]_vars =>
        [\A k \in Key : Known(k) /\ entries'[k] = NoEntry =>
           /\ clock - called[k] > TTL - SweepInterval
           /\ clock - resetAt[k] > TTL]_vars
  BY IdleIsEvicted
<1> QED BY <1>1, Sequential, PTL DEF Spec, OnlyIdleEvicted
--------------------------------------------------------------------------------
(* Throttler is implemented: what a call has found out is still so when it  *)
(* stores, since it is the only one and does not take long.                 *)

Brief == Delay <= 1 /\ \A s \in Settings : Delay <= s.interval

AskInv(c) ==
  LET k == me[c].key
      now == me[c].now
      stamp == me[c].entry.stamp
  IN /\ pc[c] \notin {"idle", "run"} => clock - now <= Delay
     /\ pc[c] = "store" =>
          /\ me[c].allowed => IF Known(k) THEN clock - entries[k].stamp > config[k].interval
                                          ELSE ~config[k].preset
          /\ config[k].ensure => Known(k) /\ stamp = entries[k].stamp
     /\ pc[c] = "loadOrStore" => config[k].preset /\ now - stamp < config[k].interval
     /\ pc[c] = "setNow" => config[k].ensure

AsksWell == \A c \in Caller : AskInv(c)

LEMMA Brevity == Delay \in Nat
BY TimeAssumption

LEMMA AskTick ==
  ASSUME TypeOK, NEW c \in Caller, Numbers(c), AskInv(c), Tick
  PROVE  AskInv(c)'
<1>1. /\ clock' = clock + 1 /\ UNCHANGED <<config, entries, pc, me>>
      /\ pc[c] \in {"idle", "run"} \/ clock - me[c].now < Delay
  BY DEF Tick, store
<1>2. me[c].key \in Key
  BY DEF Numbers
<1>3. \A k \in Key : Known(k)' <=> Known(k)
  BY <1>1 DEF Known
<1>4. pc[c] \notin {"idle", "run"} => clock' - me[c].now <= Delay
  BY <1>1, Brevity DEF Numbers
<1>5. \A k \in Key : Known(k) /\ clock - entries[k].stamp > config[k].interval =>
                       clock' - entries[k].stamp > config[k].interval
  BY <1>1 DEF Numbers
<1> QED BY <1>1, <1>2, <1>3, <1>4, <1>5 DEF AskInv

(* A call that has not looked at its key, or has nothing to store.          *)
LEMMA AskQuiet ==
  ASSUME NEW c \in Caller, Numbers(c), AskInv(c), UNCHANGED clock,
         pc'[c] \notin {"store", "loadOrStore", "setNow"},
         \/ pc'[c] \in {"idle", "run"}
         \/ me'[c].now = clock
         \/ me'[c].now = me[c].now /\ pc[c] \notin {"idle", "run"}
  PROVE  AskInv(c)'
BY Brevity DEF AskInv, Numbers

LEMMA AskLoad ==
  ASSUME TypeOK, NEW c \in Caller, Numbers(c), AskInv(c), Load(c)
  PROVE  AskInv(c)'
<1> DEFINE k == me[c].key
           entry == entries[k]
           setting == config[k]
           now == me[c].now
           stale == now - entry.stamp > setting.interval
<1>1. /\ pc[c] = "load" /\ k \in Key
      /\ UNCHANGED <<config, clock, entries>> /\ \A j : Known(j)' <=> Known(j)
  BY DEF Load, Numbers, Known, store
<1>0. clock - now <= Delay
  BY <1>1 DEF AskInv
<1>2. ASSUME pc'[c] \in {"idle", "run"} PROVE AskInv(c)'
  BY <1>1, <1>2, AskQuiet
<1>a. ASSUME NEW allowed, Answer(c, allowed) PROVE AskInv(c)'
  <2>1. pc'[c] \in {"idle", "run"}
    BY <1>a, RunsItsKey DEF TypeOK, Answer, Goto, Return
  <2> QED BY <2>1, <1>2
<1>s. Known(k) /\ stale => clock - entry.stamp > setting.interval
  BY <1>1 DEF Numbers
<1>3. ASSUME NEW stamp, NEW allowed \in BOOLEAN, Pend(c, "store", now, stamp, allowed),
             allowed => IF Known(k) THEN stale ELSE ~setting.preset,
             setting.ensure => Known(k) /\ stamp = entry.stamp
      PROVE  AskInv(c)'
  <2>1. /\ pc'[c] = "store" /\ me'[c].key = k /\ me'[c].now = now
        /\ me'[c].allowed = allowed /\ me'[c].entry.stamp = stamp
    BY <1>3, Pends
  <2> QED BY <1>0, <1>1, <1>3, <1>s, <2>1 DEF AskInv
<1>4. ASSUME Known(k), Found(c, entry, setting) PROVE AskInv(c)'
  <2>1. CASE stale /\ ~setting.ensure /\ Pend(c, "store", now, now, TRUE)
    BY <1>3, <1>4, <2>1
  <2>2. CASE (stale => setting.ensure) /\ Pend(c, "store", now, entry.stamp, stale)
    <3>0. stale \in BOOLEAN
      OBVIOUS
    <3> QED BY <1>3, <1>4, <2>2, <3>0
  <2>3. CASE Answer(c, stale)
    BY <1>a, <2>3
  <2> QED BY <1>4, <2>1, <2>2, <2>3 DEF Found
<1>5. ASSUME ~Known(k), NotFound(c, setting) PROVE AskInv(c)'
  <2>1. ASSUME setting.preset, NEW back \in 0..setting.interval,
               (back + 1) * Millisecond <= setting.interval,
               Pend(c, "loadOrStore", now, now - back, FALSE)
        PROVE  AskInv(c)'
    <3> DEFINE stamp == now - back
               label == "loadOrStore"
               no == FALSE
    <3>0. setting.interval \in Nat
      BY <1>1, SettingsAssumption DEF TypeOK, Setting
    <3>1. now - stamp < setting.interval
      BY <2>1, <3>0, DrawnWithin DEF Numbers
    <3>2. Pend(c, label, now, stamp, no)
      BY <2>1
    <3> HIDE DEF stamp, label, no
    <3>3. /\ pc'[c] = label /\ me'[c].key = k /\ me'[c].now = now
          /\ me'[c].entry.stamp = stamp
      BY <3>2, Pends
    <3> QED BY <1>0, <1>1, <2>1, <3>1, <3>3 DEF AskInv, label
  <2>2. CASE ~setting.preset /\ ~setting.ensure /\ Pend(c, "store", now, now, TRUE)
    BY <1>3, <1>5, <2>2
  <2>3. CASE Answer(c, TRUE)
    BY <1>a, <2>3
  <2>4. CASE Return(c)
    BY <1>2, <2>4 DEF TypeOK, Return, Goto
  <2> QED BY <1>5, <2>1, <2>2, <2>3, <2>4 DEF NotFound
<1> QED BY <1>4, <1>5 DEF Load

LEMMA AskCall ==
  ASSUME TypeOK, NEW c \in Caller, Numbers(c), AskInv(c), CallerStep(c)
  PROVE  AskInv(c)'
<1>1. CASE Gate(c)
  <2>1. UNCHANGED clock /\ pc[c] = "gate" /\ pc'[c] \in {"read", "swap"}
    BY <1>1 DEF TypeOK, Gate, Goto
  <2>2. me'[c].now \in {me[c].now, clock}
    <3>1. CASE UNCHANGED me
      BY <3>1
    <3>2. CASE me' = [me EXCEPT ![c].last = lastSweep]
      BY <3>2 DEF TypeOK, Local
    <3> QED BY <1>1, <3>1, <3>2 DEF Gate
  <2> QED BY <2>1, <2>2, AskQuiet
<1>2. CASE Swap(c) \/ Visit(c) \/ Delete(c) \/ Swept(c)
  <2>1. UNCHANGED clock /\ pc[c] \in {"swap", "range", "delete"}
        /\ pc'[c] \in {"range", "delete", "read"}
    BY <1>2 DEF TypeOK, Swap, Visit, Delete, Swept, Goto
  <2>2. me'[c].now = me[c].now
    <3>1. CASE UNCHANGED me
      BY <3>1
    <3>2. CASE me' = [me EXCEPT ![c].todo = Key]
      BY <3>2 DEF TypeOK, Local
    <3>3. ASSUME NEW k, me' = [me EXCEPT ![c].todo = @ \ {k}, ![c].victim = k]
          PROVE  me'[c].now = me[c].now
      BY <3>3 DEF TypeOK, Local
    <3>4. CASE Swap(c)
      BY <3>1, <3>2, <3>4 DEF Swap
    <3>5. CASE Visit(c)
      BY <3>3, <3>5 DEF Visit
    <3>6. CASE Delete(c) \/ Swept(c)
      BY <3>1, <3>6 DEF Delete, Swept
    <3> QED BY <1>2, <3>4, <3>5, <3>6
  <2> QED BY <2>1, <2>2, AskQuiet
<1>3. CASE Read(c) \/ \E k \in Key : ShouldRun(c, k) \/ Reset(c, k)
  <2>1. UNCHANGED clock /\ pc'[c] \in {"gate", "load", "reset"}
    BY <1>3 DEF TypeOK, ShouldRun, Read, Reset, Proceed, Goto
  <2>2. me'[c].now = clock
    BY <1>3, BlankIsLocal, LocalsReset DEF TypeOK, ShouldRun, Read, Proceed, Local
  <2> QED BY <2>1, <2>2, AskQuiet
<1>4. CASE Store(c) \/ LoadOrStore(c) \/ SetNow(c) \/ ResetStore(c)
  <2>1. UNCHANGED clock /\ pc'[c] \in {"idle", "run"}
    BY <1>4 DEF TypeOK, Store, LoadOrStore, SetNow, ResetStore, Answer, Proceed, Goto, Return
  <2> QED BY <2>1, AskQuiet
<1>5. CASE Finish(c)
  <2>1. UNCHANGED <<clock, config>>
    BY <1>5 DEF Finish
  <2>2. CASE Return(c)
    BY <2>1, <2>2, AskQuiet DEF TypeOK, Return, Goto
  <2>3. CASE config[me[c].key].ensure /\ Pend(c, "setNow", clock, clock, TRUE)
    <3>1. pc'[c] = "setNow" /\ me'[c].key = me[c].key /\ me'[c].now = clock
      BY <2>3, SetPends
    <3> QED BY <2>1, <2>3, <3>1, Brevity DEF AskInv, Numbers
  <2> QED BY <1>5, <2>2, <2>3 DEF Finish
<1> QED BY <1>1, <1>2, <1>3, <1>4, <1>5, AskLoad DEF CallerStep

LEMMA AskNext ==
  ASSUME Alone, Patient, SequentialInv, AsksWell, [Next]_vars
  PROVE  AsksWell'
<1> SUFFICES ASSUME NEW c \in Caller PROVE AskInv(c)'
  BY DEF AsksWell
<1>1. TypeOK /\ Numbers(c) /\ AskInv(c)
  BY NumbersNow DEF SequentialInv, AsksWell
<1>2. CASE Tick
  BY <1>1, <1>2, AskTick
<1>3. ASSUME NEW d \in Caller, CallerStep(d) PROVE AskInv(c)'
  BY <1>1, <1>3, AskCall DEF Alone
<1>4. CASE UNCHANGED vars
  BY <1>1, <1>4 DEF vars, AskInv, Known
<1> QED BY <1>2, <1>3, <1>4 DEF Next

--------------------------------------------------------------------------------
(* What the accesses of a call do to the window of its key.                 *)

Windows == [k \in Key |-> Window(k)]

Implements == Contract!Next \/ UNCHANGED <<config, Windows, Granted>>

(* The pairs granted to a caller that is the only one.                      *)
GrantedTo(c) == IF pc[c] \in {"run", "setNow"} THEN {<<c, me[c].key>>} ELSE {}

LEMMA GrantedIs == \A c \in Caller : Alone => Granted = GrantedTo(c)
BY DEF Alone, Granted, GrantedTo

LEMMA GrantedIsLater == (\A c \in Caller : Alone => Granted = GrantedTo(c))'
BY GrantedIs, PTL

LEMMA WindowsKept ==
  ASSUME UNCHANGED <<config, clock, entries>>
  PROVE  Windows' = Windows
BY DEF Windows, Window, Known

LEMMA WindowValues ==
  ASSUME NEW k \in Key
  PROVE  /\ Windows[k] = Window(k) /\ Windows[k] \in {"absent", "recent", "elapsed"}
         /\ Windows[k] = "absent" <=> ~Known(k)
         /\ Windows[k] = "recent" <=> Known(k) /\ ~(clock - entries[k].stamp > config[k].interval)
         /\ Windows[k] = "elapsed" <=> Known(k) /\ clock - entries[k].stamp > config[k].interval
<1>1. Windows[k] = Window(k)
  BY DEF Windows
<1>2. CASE ~Known(k)
  BY <1>1, <1>2 DEF Window
<1>3. CASE Known(k) /\ clock - entries[k].stamp > config[k].interval
  BY <1>1, <1>3 DEF Window
<1>4. CASE Known(k) /\ ~(clock - entries[k].stamp > config[k].interval)
  BY <1>1, <1>4 DEF Window
<1> QED BY <1>2, <1>3, <1>4

(* The window of the one key that is stored.                                *)
LEMMA WindowStored ==
  ASSUME TypeOK, NEW k \in Key, NEW e, entries' = [entries EXCEPT ![k] = e],
         UNCHANGED <<config, clock>>
  PROVE  /\ e = NoEntry => Windows' = [Windows EXCEPT ![k] = "absent"]
         /\ e # NoEntry /\ clock - e.stamp > config[k].interval =>
              Windows' = [Windows EXCEPT ![k] = "elapsed"]
         /\ e # NoEntry /\ ~(clock - e.stamp > config[k].interval) =>
              Windows' = [Windows EXCEPT ![k] = "recent"]
<1>1. entries'[k] = e /\ \A j \in Key : j # k => entries'[j] = entries[j]
  BY DEF TypeOK
<1>2. ASSUME NEW j \in Key, j # k PROVE Window(j)' = Window(j)
  BY <1>1, <1>2 DEF Window, Known
<1>3. ASSUME NEW w, Window(k)' = w PROVE Windows' = [Windows EXCEPT ![k] = w]
  BY <1>2, <1>3 DEF Windows
<1>4. /\ e = NoEntry => Window(k)' = "absent"
      /\ e # NoEntry /\ clock - e.stamp > config[k].interval => Window(k)' = "elapsed"
      /\ e # NoEntry /\ ~(clock - e.stamp > config[k].interval) => Window(k)' = "recent"
  BY <1>1 DEF Window, Known
<1> QED BY <1>3, <1>4

LEMMA TickImplements ==
  ASSUME TypeOK, Patient, Tick
  PROVE  Implements
<1>1. clock' = clock + 1 /\ clock \in Nat /\ UNCHANGED <<config, entries, pc, me>>
  BY DEF Tick, TypeOK, store
<1>2. Granted' = Granted
  BY <1>1 DEF Granted
<1> DEFINE K == {k \in Key : Window(k)' = "elapsed"}
<1>3. ASSUME NEW k \in Key
      PROVE  Window(k)' = IF k \in K /\ Windows[k] = "recent" THEN "elapsed" ELSE Windows[k]
  <2>1. Known(k)' <=> Known(k)
    BY <1>1 DEF Known
  <2>2. Known(k) => entries[k].stamp \in Int
    BY DEF TypeOK, Past
  <2>3. config[k].interval \in Int
    BY SettingsAssumption DEF TypeOK, Setting
  <2>4. Windows[k] = "elapsed" => Window(k)' = "elapsed"
    BY <1>1, <2>1, <2>2, <2>3, WindowValues DEF Window
  <2>5. Windows[k] = "absent" => Window(k)' = "absent"
    BY <2>1, WindowValues DEF Window
  <2>6. Windows[k] = "recent" => Window(k)' \in {"recent", "elapsed"}
    BY <2>1, WindowValues DEF Window
  <2> QED BY <2>4, <2>5, <2>6, WindowValues
<1>4. Contract!Lapse(K)
  BY <1>2, <1>3 DEF Contract!Lapse, Windows
<1>5. K \in SUBSET Key
  OBVIOUS
<1> HIDE DEF K
<1> QED BY <1>1, <1>4, <1>5 DEF Implements, Contract!Next

(* A step that neither stores nor lets a step run.                          *)
LEMMA QuietImplements ==
  ASSUME Alone, NEW c \in Caller, UNCHANGED <<config, clock, entries>>,
         pc[c] \notin {"run", "setNow"}, pc'[c] \notin {"run", "setNow"}
  PROVE  Implements
<1>1. Granted' = Granted
  BY GrantedIs, GrantedIsLater DEF GrantedTo
<1> QED BY <1>1, WindowsKept DEF Implements

(* The step of c is allowed to run.                                         *)
LEMMA AllowImplements ==
  ASSUME Alone, NEW c \in Caller, NEW k \in Key, k = me[c].key, me'[c].key = k,
         pc[c] \notin {"run", "setNow"}, pc'[c] = "run", UNCHANGED config,
         Windows[k] # "recent", Windows[k] = "absent" => ~config[k].preset,
         IF config[k].ensure THEN Windows' = Windows
                             ELSE Windows' = [Windows EXCEPT ![k] = "recent"]
  PROVE  Implements
<1>1. Granted = {} /\ Granted' = {<<c, k>>}
  BY GrantedIs, GrantedIsLater DEF GrantedTo
<1>2. Contract!Allow(c, k)
  BY <1>1 DEF Contract!Allow, Contract!Becomes, Windows
<1> QED BY <1>2 DEF Implements, Contract!Next

LEMMA LoadImplements ==
  ASSUME Alone, TypeOK, NEW c \in Caller, Numbers(c), Load(c)
  PROVE  Implements
<1>1. PICK k \in Key : k = me[c].key
  BY DEF Numbers
<1> DEFINE now == me[c].now
           stale == now - entries[k].stamp > config[k].interval
<1>2. pc[c] = "load" /\ UNCHANGED <<config, clock, entries>>
  BY DEF Load, store
<1>3. ASSUME NEW label \in {"store", "loadOrStore"}, NEW stamp, NEW allowed,
             Pend(c, label, now, stamp, allowed)
      PROVE  Implements
  <2>1. pc'[c] = label
    BY <1>3 DEF Pend, Goto, TypeOK
  <2> QED BY <1>2, <2>1, QuietImplements
<1>4. ASSUME Return(c) PROVE Implements
  <2>1. pc'[c] = "idle"
    BY <1>4 DEF TypeOK, Return, Goto
  <2> QED BY <1>2, <2>1, QuietImplements
<1>5. ASSUME Answer(c, TRUE), config[k].ensure,
             IF Known(k) THEN stale ELSE ~config[k].preset
      PROVE  Implements
  <2>1. pc'[c] = "run" /\ me'[c].key = k
    BY <1>1, <1>5, RunsItsKey DEF Answer
  <2>2. Windows' = Windows
    BY <1>2, WindowsKept
  <2>3. Windows[k] # "recent" /\ (Windows[k] = "absent" => ~config[k].preset)
    <3>1. Known(k) => clock - entries[k].stamp > config[k].interval
      BY <1>5 DEF Numbers
    <3> QED BY <1>5, <3>1, WindowValues
  <2> QED BY <1>1, <1>2, <1>5, <2>1, <2>2, <2>3, AllowImplements
<1>6. ASSUME Known(k), Found(c, entries[k], config[k]) PROVE Implements
  <2>1. CASE stale
    BY <1>3, <1>5, <1>6, <2>1 DEF Found
  <2>2. CASE ~stale
    <3>1. stale = FALSE
      BY <2>2
    <3>2. \/ Pend(c, "store", now, entries[k].stamp, stale)
          \/ Answer(c, stale)
      BY <1>6, <2>2 DEF Found
    <3>3. CASE Pend(c, "store", now, entries[k].stamp, stale)
      BY <1>3, <3>3
    <3>4. CASE Answer(c, stale)
      BY <1>4, <3>1, <3>4 DEF Answer
    <3> QED BY <3>2, <3>3, <3>4
  <2> QED BY <2>1, <2>2
<1>7. ASSUME ~Known(k), NotFound(c, config[k]) PROVE Implements
  BY <1>3, <1>4, <1>5, <1>7 DEF NotFound
<1> QED BY <1>1, <1>6, <1>7 DEF Load

LEMMA StoreImplements ==
  ASSUME Alone, Brief, TypeOK, NEW c \in Caller, Numbers(c), OneInv(c), AskInv(c), Store(c)
  PROVE  Implements
<1>1. PICK k \in Key : k = me[c].key
  BY DEF Numbers
<1>2. /\ pc[c] = "store" /\ entries' = [entries EXCEPT ![k] = me[c].entry]
      /\ UNCHANGED <<config, clock>> /\ me[c].entry # NoEntry
  BY <1>1, EntriesAreKnown DEF Store, Numbers
<1>3. /\ config[k].interval \in Nat /\ config[k].ensure \in BOOLEAN
      /\ Delay <= config[k].interval
  BY SettingsAssumption DEF TypeOK, Setting, Brief
<1>4. clock - me[c].now <= Delay
  BY <1>2 DEF AskInv
<1>5. CASE me[c].allowed
  <2>1. pc'[c] = "run" /\ me'[c].key = k
    BY <1>1, <1>2, <1>5, RunsItsKey DEF Store, Answer
  <2>2. IF Known(k) THEN clock - entries[k].stamp > config[k].interval ELSE ~config[k].preset
    BY <1>1, <1>2, <1>5 DEF AskInv
  <2>3. Windows[k] # "recent" /\ (Windows[k] = "absent" => ~config[k].preset)
    BY <2>2, WindowValues
  <2>4. CASE config[k].ensure
    <3>1. Known(k) /\ me[c].entry.stamp = entries[k].stamp
      BY <1>1, <1>2, <2>4 DEF AskInv
    <3>2. Windows[k] = "elapsed"
      BY <2>2, <3>1, WindowValues
    <3>3. Windows' = [Windows EXCEPT ![k] = "elapsed"]
      BY <1>2, <2>2, <3>1, WindowStored
    <3>4. Windows' = Windows
      BY <3>2, <3>3 DEF Windows
    <3> QED BY <1>1, <1>2, <2>1, <2>3, <2>4, <3>4, AllowImplements
  <2>5. CASE ~config[k].ensure
    <3>1. me[c].entry.stamp = me[c].now
      BY <1>1, <1>2, <1>5, <2>5 DEF OneInv, CallInv
    <3>2. ~(clock - me[c].entry.stamp > config[k].interval)
      BY <1>3, <1>4, <3>1, Brevity DEF Numbers
    <3>3. Windows' = [Windows EXCEPT ![k] = "recent"]
      BY <1>2, <3>2, WindowStored
    <3> QED BY <1>1, <1>2, <2>1, <2>3, <2>5, <3>3, AllowImplements
  <2> QED BY <1>3, <2>4, <2>5
<1>6. CASE ~me[c].allowed
  <2>1. pc'[c] = "idle"
    BY <1>6 DEF TypeOK, Store, Answer, Return, Goto
  <2>2. Known(k) /\ me[c].entry.stamp = entries[k].stamp
    BY <1>1, <1>2, <1>6 DEF OneInv, CallInv
  <2>3. Windows' = [Windows EXCEPT ![k] = Windows[k]]
    BY <1>2, <2>2, WindowStored, WindowValues
  <2>4. Windows' = Windows
    BY <2>3 DEF Windows
  <2>5. Granted' = Granted
    BY <1>2, <2>1, GrantedIs, GrantedIsLater DEF GrantedTo
  <2> QED BY <1>2, <2>4, <2>5 DEF Implements
<1> QED BY <1>5, <1>6

LEMMA LoadOrStoreImplements ==
  ASSUME Alone, Brief, TypeOK, NEW c \in Caller, Numbers(c), OneInv(c), AskInv(c), LoadOrStore(c)
  PROVE  Implements
<1>1. PICK k \in Key : k = me[c].key
  BY DEF Numbers
<1>2. /\ pc[c] = "loadOrStore" /\ ~Known(k) /\ UNCHANGED <<config, clock>>
      /\ entries' = [entries EXCEPT ![k] = me[c].entry] /\ me[c].entry # NoEntry
      /\ pc'[c] = "idle"
  BY <1>1, EntriesAreKnown DEF LoadOrStore, OneInv, CallInv, Numbers, Return, Goto, TypeOK
<1>3. config[k].preset /\ me[c].now - me[c].entry.stamp < config[k].interval
  BY <1>1, <1>2 DEF AskInv
<1>4. clock - me[c].now <= 1
  BY <1>2, Brevity DEF AskInv, Numbers, Brief
<1>5. ~(clock - me[c].entry.stamp > config[k].interval)
  BY <1>3, <1>4 DEF Numbers
<1>6. Windows' = [Windows EXCEPT ![k] = "recent"]
  BY <1>2, <1>5, WindowStored
<1>7. Windows[k] = "absent" /\ Granted' = Granted
  BY <1>2, WindowValues, GrantedIs, GrantedIsLater DEF GrantedTo
<1>8. Contract!Preset(k)
  BY <1>3, <1>6, <1>7 DEF Contract!Preset, Contract!Becomes, Windows
<1> QED BY <1>2, <1>8 DEF Implements, Contract!Next

LEMMA FinishImplements ==
  ASSUME Alone, TypeOK, NEW c \in Caller, Numbers(c), Finish(c)
  PROVE  Implements
<1>1. PICK k \in Key : k = me[c].key
  BY DEF Numbers
<1>2. pc[c] = "run" /\ UNCHANGED <<config, clock, entries>> /\ Windows' = Windows
  BY WindowsKept DEF Finish, store
<1>3. Granted = {<<c, k>>}
  BY <1>1, <1>2, GrantedIs DEF GrantedTo
<1>4. CASE Return(c)
  <2>1. Granted' = {}
    BY <1>4, GrantedIsLater DEF GrantedTo, TypeOK, Return, Goto
  <2>2. Contract!Finish(c, k)
    BY <1>2, <1>3, <2>1 DEF Contract!Finish, Windows
  <2> QED BY <1>2, <2>2 DEF Implements, Contract!Next
<1>5. CASE Pend(c, "setNow", clock, clock, TRUE)
  <2>1. pc'[c] = "setNow" /\ me'[c].key = k
    BY <1>1, <1>5, SetPends
  <2>2. Granted' = Granted
    BY <1>3, <2>1, GrantedIsLater DEF GrantedTo
  <2> QED BY <1>2, <2>2 DEF Implements
<1> QED BY <1>4, <1>5 DEF Finish

LEMMA SetImplements ==
  ASSUME Alone, Brief, TypeOK, NEW c \in Caller, Numbers(c), OneInv(c), AskInv(c),
         SetNow(c) \/ ResetStore(c)
  PROVE  Implements
<1>1. PICK k \in Key : k = me[c].key
  BY DEF Numbers
<1>2. /\ UNCHANGED <<config, clock>> /\ pc'[c] = "idle"
      /\ entries' = [entries EXCEPT ![k] = me[c].entry] /\ me[c].entry # NoEntry
  BY <1>1, EntriesAreKnown DEF SetNow, ResetStore, Numbers, Return, Goto, TypeOK
<1>3. config[k].interval \in Nat /\ config[k].interval < -Zero /\ Delay <= config[k].interval
  BY SettingsAssumption, TimeAssumption DEF TypeOK, Setting, Brief
<1>4. Granted' = {}
  BY <1>2, GrantedIsLater DEF GrantedTo
<1>5. CASE SetNow(c)
  <2>1. pc[c] = "setNow"
    BY <1>5 DEF SetNow
  <2>2. config[k].ensure /\ me[c].entry.stamp = me[c].now /\ clock - me[c].now <= Delay
    BY <1>1, <2>1 DEF AskInv, OneInv, CallInv
  <2>3. Windows' = [Windows EXCEPT ![k] = "recent"]
    <3>1. ~(clock - me[c].entry.stamp > config[k].interval)
      BY <1>3, <2>2, Brevity DEF Numbers
    <3> QED BY <1>2, <3>1, WindowStored
  <2>4. Granted = {<<c, k>>}
    BY <1>1, <2>1, GrantedIs DEF GrantedTo
  <2>5. Contract!Finish(c, k)
    BY <1>4, <2>2, <2>3, <2>4 DEF Contract!Finish, Contract!Becomes, Windows
  <2> QED BY <1>2, <2>5 DEF Implements, Contract!Next
<1>6. CASE ResetStore(c)
  <2>1. pc[c] = "reset"
    BY <1>6 DEF ResetStore
  <2>2. me[c].entry.stamp = Zero
    BY <2>1 DEF OneInv, CallInv
  <2>3. Windows' = [Windows EXCEPT ![k] = "elapsed"]
    <3>1. clock - me[c].entry.stamp > config[k].interval
      BY <1>3, <2>2, Constants DEF Numbers
    <3> QED BY <1>2, <3>1, WindowStored
  <2>4. Granted = {}
    BY <2>1, GrantedIs DEF GrantedTo
  <2>5. Contract!Reset(k)
    BY <1>4, <2>3, <2>4 DEF Contract!Reset, Contract!Becomes, Windows
  <2> QED BY <1>2, <2>5 DEF Implements, Contract!Next
<1> QED BY <1>5, <1>6

LEMMA DeleteImplements ==
  ASSUME Alone, TypeOK, NEW c \in Caller, Numbers(c), Delete(c)
  PROVE  Implements
<1>1. PICK k \in Key : k = me[c].victim
  BY DEF Numbers
<1>2. /\ pc[c] = "delete" /\ pc'[c] = "range" /\ UNCHANGED <<config, clock>>
      /\ entries' = [entries EXCEPT ![k] = NoEntry]
  BY <1>1 DEF Delete, Goto, TypeOK
<1>3. Windows' = [Windows EXCEPT ![k] = "absent"]
  BY <1>2, WindowStored
<1>4. Granted' = Granted
  BY <1>2, GrantedIs, GrantedIsLater DEF GrantedTo
<1>5. Contract!Evict(k)
  BY <1>3, <1>4 DEF Contract!Evict, Contract!Becomes, Windows
<1> QED BY <1>2, <1>5 DEF Implements, Contract!Next

LEMMA CallImplements ==
  ASSUME Alone, Brief, TypeOK, NEW c \in Caller, Numbers(c), OneInv(c), AskInv(c), CallerStep(c)
  PROVE  Implements
<1>1. CASE \/ Gate(c) \/ Swap(c) \/ Visit(c) \/ Swept(c) \/ Read(c)
           \/ \E k \in Key : ShouldRun(c, k) \/ Reset(c, k)
  <2>1. /\ UNCHANGED <<config, clock, entries>>
        /\ pc[c] \notin {"run", "setNow"} /\ pc'[c] \notin {"run", "setNow"}
    BY <1>1 DEF TypeOK, Gate, Swap, Visit, Swept, ShouldRun, Read, Reset, Proceed, Goto, store
  <2> QED BY <2>1, QuietImplements
<1> QED
  BY <1>1, LoadImplements, StoreImplements, LoadOrStoreImplements, FinishImplements,
     SetImplements, DeleteImplements DEF CallerStep

LEMMA NextImplements ==
  ASSUME Alone, Patient, Brief, SequentialInv, AsksWell, [Next]_vars
  PROVE  Implements
<1>1. TypeOK
  BY DEF SequentialInv
<1>2. CASE Tick
  BY <1>1, <1>2, TickImplements
<1>3. ASSUME NEW c \in Caller, CallerStep(c) PROVE Implements
  <2>1. OneInv(c) /\ Numbers(c) /\ AskInv(c)
    BY <1>1, OneNow, NumbersNow DEF AsksWell
  <2> QED BY <1>1, <1>3, <2>1, CallImplements
<1>4. CASE UNCHANGED vars
  <2>1. Granted' = Granted /\ Windows' = Windows
    BY <1>4, WindowsKept DEF vars, Granted
  <2> QED BY <1>4, <2>1 DEF vars, Implements
<1> QED BY <1>2, <1>3, <1>4 DEF Next

LEMMA InitImplements == Init => AsksWell /\ Contract!Init
<1> SUFFICES ASSUME Init PROVE AsksWell /\ Contract!Init
  OBVIOUS
<1>1. \A c \in Caller : pc[c] = "idle"
  BY DEF Init
<1>2. \A k \in Key : Window(k) = "absent"
  BY DEF Init, Window, Known
<1>3. Granted = {}
  BY <1>1 DEF Granted
<1>4. AsksWell
  BY <1>1 DEF AsksWell, AskInv
<1> QED BY <1>2, <1>3, <1>4 DEF Init, Contract!Init

(* Used by one goroutine whose calls take at most one unit, and no longer   *)
(* than an interval, and for intervals up to the TTL, the throttler is the  *)
(* one of the engine: each question is answered at one moment, whatever the *)
(* sweep evicts and however often stamps and accesses are refreshed         *)
(* (throttling.go:79-176).                                                  *)
THEOREM ImplementsThrottler == ASSUME Alone, Patient, Brief PROVE Spec => ThrottlerSpec
<1>1. Init => AsksWell /\ Contract!Init
  BY InitImplements
<1>2. SequentialInv /\ AsksWell /\ [Next]_vars => AsksWell'
  BY AskNext
<1>3. SequentialInv /\ AsksWell /\ [Next]_vars => [Contract!Next]_<<config, Windows, Granted>>
  BY NextImplements DEF Implements
<1> QED
  BY <1>1, <1>2, <1>3, Sequential, PTL
     DEF Spec, ThrottlerSpec, Contract!Spec, Contract!vars, Windows

--------------------------------------------------------------------------------
(* Intervals among any number of goroutines, each with keys of its own: the *)
(* entries of a key are written by its owner and deleted by anybody.        *)

Owned == \A k \in Key : \A c, d \in Users[k] \cup Resetters[k] : c = d

(* An entry is kept for longer than an interval and a call.                 *)
Kept == \A s \in Settings : s.interval + Delay <= TTL

(* A call does not take as long as a sweep waits for the next.              *)
Swift == Delay < SweepInterval

(* The values of the variables are numbers of the past.                     *)
Figures(k) ==
  /\ clock \in Int /\ ran[k] \in Int /\ before[k] \in Int /\ config[k].interval \in Int
  /\ Delay \in Int /\ TTL \in Int /\ Zero \in Int /\ Zero < 0
  /\ ran[k] <= clock /\ 0 <= clock /\ 0 <= Delay /\ 0 <= config[k].interval
  /\ config[k].interval + Delay <= TTL
  /\ Known(k) => /\ entries[k].stamp \in Int
                 /\ entries[k].lastAccess \in Int /\ entries[k].lastAccess <= clock

Owns(c) ==
  /\ me[c].key \in Key /\ me[c].victim \in Key /\ me[c].allowed \in BOOLEAN
  /\ me[c].now \in Int /\ me[c].now <= clock
  /\ me[c].entry \in Entry
  /\ me[c].entry.stamp \in Int /\ me[c].entry.lastAccess \in Int

LEMMA Figure == ASSUME Kept, TypeOK, NEW k \in Key PROVE Figures(k)
<1>1. config[k] \in Settings /\ config[k].interval \in Nat
  BY SettingsAssumption DEF TypeOK, Setting
<1>2. Delay \in Nat /\ TTL \in Nat /\ Zero \in Int /\ Zero < 0
  BY TimeAssumption
<1>3. clock \in Nat /\ ran[k] \in Past /\ before[k] \in Past
  BY DEF TypeOK
<1>4. Known(k) => entries[k].stamp \in Past /\ entries[k].lastAccess \in Past
  BY DEF TypeOK
<1> QED BY <1>1, <1>2, <1>3, <1>4 DEF Figures, Past, Kept

LEMMA Possessions == ASSUME TypeOK, NEW c \in Caller PROVE Owns(c)
<1>1. me[c] \in Local /\ me[c].now \in Past
  BY DEF TypeOK
<1> QED BY <1>1 DEF Owns, Local, Entry, Past

(* TwiceInv, with the key of a caller named.                                *)
Twofold ==
  /\ \A k \in Key : KeyInv(k, clock) /\ RecordInv(k)
  /\ \A c \in Caller : TimelyInv(c)
  /\ \A c \in Caller : \A k \in Key : k = me[c].key => OwnerInv(c, k)

LEMMA TwiceIsTwofold == ASSUME TypeOK PROVE TwiceInv <=> Twofold
<1>1. \A c \in Caller : me[c].key \in Key
  BY DEF TypeOK, Local
<1> QED BY <1>1 DEF TwiceInv, Twofold

--------------------------------------------------------------------------------
(* Clocks, owners and sweeps: every step of a caller.                       *)
LEMMA CallerAlone ==
  ASSUME TypeOK, NEW c \in Caller, CallerStep(c)
  PROVE  /\ UNCHANGED <<config, clock>>
         /\ \A d \in Caller : d # c => pc'[d] = pc[d] /\ me'[d] = me[d]
BY DEF CallerStep, TypeOK, Gate, Swap, Visit, Delete, Swept, Load, Found, NotFound,
       Store, LoadOrStore, Finish, SetNow, ResetStore, ShouldRun, Reset, Read,
       Goto, Return, Proceed, Answer, Pend

LEMMA Returns ==
  ASSUME TypeOK, NEW c \in Caller, Return(c)
  PROVE  pc'[c] = "idle" /\ me'[c].now = 0
BY BlankIsLocal DEF Return, Goto, TypeOK

(* The step leaves the sweep alone, and the caller keeps its time or reads  *)
(* the clock anew.                                                          *)
LEMMA TimelyQuiet ==
  ASSUME TypeOK, NEW c \in Caller, TimelyInv(c), UNCHANGED clock,
         pc'[c] \in PCs \ {"range", "delete"},
         \/ pc'[c] = "idle" /\ me'[c].now = 0
         \/ /\ me'[c].key = me[c].key /\ pc[c] # "idle"
            /\ \/ me'[c].now = clock
               \/ me'[c].now = me[c].now /\ (pc[c] # "run" \/ pc'[c] = "run")
         \/ me'[c].now = clock /\ c \in Users[me'[c].key] \cup Resetters[me'[c].key]
  PROVE  TimelyInv(c)'
<1>1. clock \in Nat /\ Delay \in Nat
  BY TimeAssumption DEF TypeOK
<1> QED BY <1>1 DEF TimelyInv

LEMMA TimelyLoad ==
  ASSUME TypeOK, NEW c \in Caller, Load(c)
  PROVE  /\ pc'[c] \in {"idle", "run", "store", "loadOrStore"} /\ pc[c] = "load"
         /\ \/ pc'[c] = "idle" /\ me'[c].now = 0
            \/ me'[c].key = me[c].key /\ me'[c].now = me[c].now
<1> DEFINE k == me[c].key
           now == me[c].now
<1>1. ASSUME NEW label \in {"store", "loadOrStore"}, NEW stamp, NEW allowed,
             Pend(c, label, now, stamp, allowed)
      PROVE  pc'[c] = label /\ me'[c].key = k /\ me'[c].now = now
  BY <1>1, Pends
<1>2. ASSUME NEW allowed, Answer(c, allowed)
      PROVE  \/ pc'[c] = "idle" /\ me'[c].now = 0
             \/ pc'[c] = "run" /\ me'[c].key = k /\ me'[c].now = now
  BY <1>2, RunsItsKey, Returns DEF Answer
<1>3. CASE Return(c)
  BY <1>3, Returns DEF Load
<1>4. \/ \E label \in {"store", "loadOrStore"} : \E stamp, allowed : Pend(c, label, now, stamp, allowed)
      \/ \E allowed : Answer(c, allowed)
      \/ Return(c)
  BY DEF Load, Found, NotFound
<1> QED BY <1>1, <1>2, <1>3, <1>4 DEF Load

LEMMA TimelyOwn ==
  ASSUME TypeOK, NEW c \in Caller, TimelyInv(c), CallerStep(c), ~Swap(c), ~Visit(c), ~Delete(c)
  PROVE  TimelyInv(c)'
<1>1. UNCHANGED clock /\ clock \in Int /\ me[c].now \in Int /\ me[c] \in Local
  BY CallerAlone, Possessions DEF TypeOK, Owns
<1>2. ASSUME NEW k \in Key, ShouldRun(c, k) \/ Reset(c, k) PROVE TimelyInv(c)'
  <2>1. pc'[c] \in {"gate", "reset"} /\ me'[c].key = k /\ me'[c].now = clock
    <3>1. CASE ShouldRun(c, k)
      BY <1>1, <3>1, Proceeds DEF ShouldRun
    <3>2. CASE Reset(c, k)
      <4>1. pc'[c] = "reset"
        BY <3>2 DEF Reset, Goto, TypeOK
      <4> QED BY <3>2, <4>1, LocalsReset
    <3> QED BY <1>2, <3>1, <3>2
  <2>2. c \in Users[k] \cup Resetters[k]
    BY <1>2 DEF ShouldRun, Reset
  <2> QED BY <1>1, <2>1, <2>2, TimelyQuiet DEF PCs
<1>3. CASE Gate(c) \/ Swept(c)
  <2>1. /\ pc[c] \in {"gate", "range"} /\ pc'[c] \in {"swap", "read"}
        /\ me'[c].key = me[c].key /\ me'[c].now = me[c].now
    BY <1>1, <1>3 DEF Gate, Swept, Goto, TypeOK, Local
  <2> QED BY <1>1, <2>1, TimelyQuiet DEF PCs
<1>4. CASE Read(c)
  <2>1. pc[c] = "read" /\ pc'[c] = "load" /\ me'[c].key = me[c].key /\ me'[c].now = clock
    BY <1>1, <1>4, Proceeds DEF Read, Local
  <2> QED BY <1>1, <2>1, TimelyQuiet DEF PCs
<1>5. CASE Load(c)
  BY <1>1, <1>5, TimelyLoad, TimelyQuiet DEF PCs
<1>6. CASE Store(c)
  <2>1. /\ pc[c] = "store" /\ pc'[c] \in {"idle", "run"}
        /\ \/ pc'[c] = "idle" /\ me'[c].now = 0
           \/ me'[c].key = me[c].key /\ me'[c].now = me[c].now
    BY <1>6, RunsItsKey, Returns DEF Store, Answer
  <2> QED BY <1>1, <2>1, TimelyQuiet DEF PCs
<1>7. CASE LoadOrStore(c) \/ SetNow(c) \/ ResetStore(c)
  <2>1. pc'[c] = "idle" /\ me'[c].now = 0
    BY <1>7, Returns DEF LoadOrStore, SetNow, ResetStore
  <2> QED BY <1>1, <2>1, TimelyQuiet DEF PCs
<1>8. CASE Finish(c)
  <2>1. \/ pc'[c] = "idle" /\ me'[c].now = 0
        \/ pc'[c] = "setNow" /\ me'[c].key = me[c].key /\ me'[c].now = clock
    BY <1>8, SetPends, Returns DEF Finish
  <2>2. pc[c] = "run"
    BY <1>8 DEF Finish
  <2> QED BY <1>1, <2>1, <2>2, TimelyQuiet DEF PCs
<1> QED BY <1>2, <1>3, <1>4, <1>5, <1>6, <1>7, <1>8 DEF CallerStep

(* One sweep at a time: a sweep does not last until the gate opens again.   *)
LEMMA TimelySweep ==
  ASSUME Swift, TypeOK, SweepInv, \A d \in Caller : TimelyInv(d),
         NEW c \in Caller, Swap(c) \/ Visit(c) \/ Delete(c)
  PROVE  \A d \in Caller : TimelyInv(d)'
<1>0. me[c] \in Local
  BY DEF TypeOK
<1>1. /\ UNCHANGED clock /\ me'[c].key = me[c].key /\ me'[c].now = me[c].now
      /\ \A d \in Caller : d # c => pc'[d] = pc[d] /\ me'[d] = me[d]
  <2>1. UNCHANGED clock /\ \A d \in Caller : d # c => pc'[d] = pc[d] /\ me'[d] = me[d]
    BY CallerAlone DEF CallerStep
  <2>2. CASE Visit(c)
    <3>1. PICK k : me'[c] = [me[c] EXCEPT !.todo = @ \ {k}, !.victim = k]
      BY <2>2 DEF Visit, TypeOK
    <3> QED BY <1>0, <2>1, <3>1 DEF Local
  <2>3. CASE Swap(c) \/ Delete(c)
    <3>1. me'[c] = me[c] \/ me'[c] = [me[c] EXCEPT !.todo = Key]
      BY <2>3 DEF Swap, Delete, TypeOK
    <3> QED BY <1>0, <2>1, <3>1 DEF Local
  <2> QED BY <2>2, <2>3
<1>2. pc[c] \in {"swap", "range", "delete"} /\ pc'[c] \in {"range", "delete", "read"}
  BY DEF Swap, Visit, Delete, Goto, TypeOK
<1>3. CASE Visit(c) \/ Delete(c)
  <2>1. pc[c] \in {"range", "delete"} /\ UNCHANGED lastSweep /\ pc'[c] \in {"range", "delete"}
    BY <1>3 DEF Visit, Delete, store, Goto, TypeOK
  <2> QED BY <1>1, <2>1 DEF TimelyInv
<1>4. CASE Swap(c) /\ lastSweep = me[c].last
  <2>1. lastSweep' = me[c].now /\ me[c].now - lastSweep >= SweepInterval /\ pc'[c] = "range"
    BY <1>4 DEF Swap, SweepInv, Goto, TypeOK
  <2>2. \A d \in Caller : pc[d] \notin {"range", "delete"}
    <3> SUFFICES ASSUME NEW d \in Caller, pc[d] \in {"range", "delete"} PROVE FALSE
      OBVIOUS
    <3>1. me[d].now = lastSweep /\ clock - me[d].now <= Delay
      BY DEF TimelyInv
    <3>2. clock \in Int /\ lastSweep \in Int /\ me[c].now \in Int /\ me[c].now <= clock
      BY Possessions DEF Owns, TypeOK, Past
    <3>3. Delay \in Int /\ SweepInterval \in Int
      BY TimeAssumption
    <3> QED BY <2>1, <3>1, <3>2, <3>3 DEF Swift
  <2> QED BY <1>1, <1>2, <2>1, <2>2 DEF TimelyInv
<1>5. CASE Swap(c) /\ lastSweep # me[c].last
  <2>1. pc[c] = "swap" /\ pc'[c] = "read" /\ UNCHANGED lastSweep
    BY <1>5 DEF Swap, Goto, TypeOK
  <2> QED BY <1>1, <2>1 DEF TimelyInv
<1> QED BY <1>3, <1>4, <1>5

LEMMA TimelyCall ==
  ASSUME Swift, TypeOK, SweepInv, \A d \in Caller : TimelyInv(d), NEW c \in Caller, CallerStep(c)
  PROVE  \A d \in Caller : TimelyInv(d)'
<1>1. CASE Swap(c) \/ Visit(c) \/ Delete(c)
  BY <1>1, TimelySweep
<1>2. CASE ~Swap(c) /\ ~Visit(c) /\ ~Delete(c)
  <2>1. TimelyInv(c)'
    BY <1>2, TimelyOwn
  <2>2. ASSUME NEW d \in Caller, d # c PROVE TimelyInv(d)'
    <3>1. pc'[d] = pc[d] /\ me'[d] = me[d] /\ UNCHANGED clock
      BY <2>2, CallerAlone
    <3>2. UNCHANGED lastSweep
      BY <1>2 DEF CallerStep, store, history, Gate, Swept, Load, Store, LoadOrStore, Finish,
                  SetNow, ResetStore, ShouldRun, Reset, Read
    <3>3. pc'[c] \notin {"range", "delete"}
      BY <1>2, TimelyLoad, Returns
         DEF CallerStep, TypeOK, Gate, Swept, Store, LoadOrStore, Finish, SetNow, ResetStore,
             ShouldRun, Reset, Read, Answer, Proceed, Goto, Pend
    <3> QED BY <2>2, <3>1, <3>2, <3>3, CallerAlone DEF TimelyInv
  <2> QED BY <2>1, <2>2
<1> QED BY <1>1, <1>2

--------------------------------------------------------------------------------
(* What a step does not touch stays as it is.                               *)
Untouched(k) ==
  /\ UNCHANGED <<config, clock>>
  /\ ran'[k] = ran[k] /\ before'[k] = before[k] /\ entries'[k] = entries[k]
  /\ Threatened(k)' <=> Threatened(k)

LEMMA KeyFramed ==
  ASSUME NEW k \in Key, Untouched(k), KeyInv(k, clock), RecordInv(k)
  PROVE  KeyInv(k, clock)' /\ RecordInv(k)'
BY DEF Untouched, KeyInv, RecordInv, Safe, Elapsed, Spread, Known

LEMMA OwnerFramed ==
  ASSUME NEW c \in Caller, NEW k \in Key, Untouched(k), pc'[c] = pc[c], me'[c] = me[c],
         OwnerInv(c, k)
  PROVE  OwnerInv(c, k)'
BY DEF Untouched, OwnerInv, KeyInv, Safe, Elapsed, Spread, Known

(* Only a sweep that stands before a deletion threatens a key.              *)
LEMMA Harmless ==
  ASSUME NEW c \in Caller, \A d \in Caller : d # c => pc'[d] = pc[d] /\ me'[d] = me[d],
         pc[c] # "delete", pc'[c] # "delete", NEW k \in Key
  PROVE  Threatened(k)' <=> Threatened(k)
BY DEF Threatened

(* A step within the keys of c touches nothing of anybody else's.           *)
LEMMA Abroad ==
  ASSUME Owned, TypeOK, Twofold, NEW c \in Caller, CallerStep(c),
         pc[c] # "delete", pc'[c] # "delete",
         NEW k \in Key, k = me[c].key, pc[c] # "idle",
         \A j \in Key : j # k =>
           ran'[j] = ran[j] /\ before'[j] = before[j] /\ entries'[j] = entries[j]
  PROVE  /\ \A j \in Key : j # k => KeyInv(j, clock)' /\ RecordInv(j)'
         /\ \A d \in Caller : d # c => \A j \in Key : j = me'[d].key => OwnerInv(d, j)'
<1>1. \A j \in Key : j # k => Untouched(j)
  BY CallerAlone, Harmless DEF Untouched
<1>2. ASSUME NEW d \in Caller, d # c, NEW j \in Key, j = me'[d].key PROVE OwnerInv(d, j)'
  <2>1. pc'[d] = pc[d] /\ me'[d] = me[d]
    BY <1>2, CallerAlone
  <2>2. CASE pc[d] = "idle"
    BY <2>1, <2>2 DEF OwnerInv
  <2>3. CASE pc[d] # "idle"
    <3>1. TimelyInv(c) /\ TimelyInv(d) /\ OwnerInv(d, j)
      BY <1>2, <2>1 DEF Twofold
    <3>2. j # k
      BY <1>2, <2>1, <2>3, <3>1 DEF TimelyInv, Owned
    <3> QED BY <1>1, <2>1, <3>1, <3>2, OwnerFramed
  <2> QED BY <2>2, <2>3
<1> QED BY <1>1, <1>2, KeyFramed DEF Twofold

(* A step that touches no key at all.                                       *)
LEMMA Nowhere ==
  ASSUME Owned, TypeOK, Twofold, NEW c \in Caller, CallerStep(c),
         pc[c] # "delete", pc'[c] # "delete", UNCHANGED <<ran, before, entries>>
  PROVE  /\ \A j \in Key : Untouched(j) /\ KeyInv(j, clock)' /\ RecordInv(j)'
         /\ \A d \in Caller : d # c => \A j \in Key : j = me'[d].key => OwnerInv(d, j)'
<1>1. \A j \in Key : Untouched(j)
  BY CallerAlone, Harmless DEF Untouched
<1>2. \A d \in Caller : d # c => \A j \in Key : j = me'[d].key => OwnerInv(d, j)'
  BY <1>1, CallerAlone, OwnerFramed DEF Twofold
<1> QED BY <1>1, <1>2, KeyFramed DEF Twofold

--------------------------------------------------------------------------------
(* The steps up to the map: the caller reads the clock, loads the entry of  *)
(* its key and decides.                                                     *)
LEMMA OwnerQuiet ==
  ASSUME NEW c \in Caller, NEW k \in Key,
         pc'[c] \in {"idle", "gate", "swap", "range", "delete", "read"}
  PROVE  OwnerInv(c, k)'
BY DEF OwnerInv

LEMMA OwnerRead ==
  ASSUME Kept, TypeOK, NEW c \in Caller, NEW k \in Key, k = me[c].key, Read(c),
         Untouched(k), KeyInv(k, clock)
  PROVE  OwnerInv(c, k)'
<1>1. clock \in Int /\ me[c].key \in Key
  BY Possessions DEF TypeOK, Owns
<1>2. pc'[c] = "load" /\ me'[c].now = clock
  BY <1>1, Proceeds DEF Read
<1>3. KeyInv(k, clock)'
  BY DEF KeyInv, Untouched, Safe, Elapsed, Spread, Known
<1>4. ran'[k] <= clock'
  BY Figure DEF Untouched, Figures
<1>5. me'[c].now = clock'
  BY <1>2 DEF Untouched
<1> QED BY <1>2, <1>3, <1>4, <1>5 DEF OwnerInv, KeyInv, Safe, Elapsed

LEMMA OwnerReset ==
  ASSUME Kept, TypeOK, NEW c \in Caller, NEW k \in Key, Reset(c, k), Untouched(k)
  PROVE  me'[c].key = k /\ OwnerInv(c, k)'
<1>1. pc'[c] = "reset"
  BY DEF Reset, Goto, TypeOK
<1>2. me'[c].key = k /\ me'[c].now = clock /\ me'[c].entry.lastAccess = clock
  BY LocalsReset
<1>3. ran'[k] <= clock
  BY Figure DEF Untouched, Figures
<1> QED BY <1>1, <1>2, <1>3 DEF OwnerInv

(* What Load decides to store.                                              *)
LEMMA OwnerPends ==
  ASSUME Kept, TypeOK, NEW c \in Caller, NEW k \in Key, k = me[c].key, Untouched(k),
         pc[c] = "load", OwnerInv(c, k),
         NEW stamp \in Int, NEW allowed \in BOOLEAN,
         Pend(c, "store", me[c].now, stamp, allowed),
         IF allowed THEN Safe(k, me[c].now) /\ (config[k].ensure \/ stamp = me[c].now)
                    ELSE Safe(k, me[c].now) \/ ran[k] <= stamp
  PROVE  OwnerInv(c, k)'
<1>1. PICK now \in Int : now = me[c].now
  BY Possessions DEF Owns
<1>2. /\ pc'[c] = "store" /\ me'[c].now = now /\ me'[c].allowed = allowed
      /\ me'[c].entry.stamp = stamp /\ me'[c].entry.lastAccess = now
  <2>1. Pend(c, "store", now, stamp, allowed)
    BY <1>1
  <2> DEFINE label == "store"
  <2>2. Pend(c, label, now, stamp, allowed)
    BY <2>1
  <2> HIDE DEF label
  <2>3. /\ pc'[c] = label /\ me'[c].now = now /\ me'[c].allowed = allowed
        /\ me'[c].entry.stamp = stamp /\ me'[c].entry.lastAccess = now
    BY <2>2, Pends
  <2> QED BY <2>3 DEF label
<1>3. /\ ran'[k] <= now /\ KeyInv(k, now)'
      /\ Safe(k, now)' <=> Safe(k, now)
  BY <1>1 DEF OwnerInv, Untouched, KeyInv, Safe, Elapsed, Spread, Known
<1>4. IF allowed THEN Safe(k, now)' /\ (config'[k].ensure \/ stamp = now)
                 ELSE Safe(k, now)' \/ ran'[k] <= stamp
  BY <1>1, <1>3 DEF Untouched
<1> QED BY <1>2, <1>3, <1>4 DEF OwnerInv, KeyInv, Safe, Elapsed

(* The step of c is let run without a store; its stamp is set when it ends. *)
LEMMA OwnerAllowed ==
  ASSUME Kept, TypeOK, NEW c \in Caller, NEW k \in Key, k = me[c].key, Untouched(k),
         ran[k] <= me[c].now, config[k].ensure, Safe(k, me[c].now),
         Proceed(c, "run", me[c].key, me[c].now)
  PROVE  OwnerInv(c, k)'
<1>1. PICK now \in Int : now = me[c].now /\ now <= clock
  BY Possessions DEF Owns
<1>2. pc'[c] = "run" /\ me'[c].now = now
  BY <1>1, RunsItsKey
<1>3. Elapsed(k, now)' \/ (Spread(k)' /\ ~Threatened(k)')
  BY <1>1 DEF Safe, Elapsed, Spread, Untouched
<1>4. Elapsed(k, clock)' \/ ~Threatened(k)'
  BY <1>1, <1>3, Figure DEF Elapsed, Untouched, Figures
<1>5. ran'[k] <= now /\ config'[k].ensure
  BY <1>1 DEF Untouched
<1> QED BY <1>2, <1>3, <1>4, <1>5 DEF OwnerInv, Elapsed

LEMMA OwnerLoad ==
  ASSUME Kept, TypeOK, NEW c \in Caller, NEW k \in Key, k = me[c].key, Load(c),
         Untouched(k), OwnerInv(c, k)
  PROVE  OwnerInv(c, k)'
<1> DEFINE now == me[c].now
           entry == entries[k]
           setting == config[k]
           stale == now - entry.stamp > setting.interval
<1>1. /\ pc[c] = "load" /\ now \in Int /\ now <= clock
      /\ ran[k] <= now /\ KeyInv(k, now)
  BY Possessions DEF Load, OwnerInv, Owns
<1>2. ASSUME Known(k), stale PROVE Safe(k, now)
  BY <1>1, <1>2, Figure DEF KeyInv, Safe, Elapsed, Figures
<1>3. Known(k) => Safe(k, now) \/ ran[k] <= entry.stamp
  BY <1>1 DEF KeyInv
<1>4. ~Known(k) => Safe(k, now)
  BY <1>1 DEF KeyInv
<1>5. ASSUME Known(k), Found(c, entry, setting) PROVE OwnerInv(c, k)'
  <2>0. entry.stamp \in Int /\ stale \in BOOLEAN
    BY <1>5, Figure DEF Figures
  <2>1. CASE stale /\ ~setting.ensure /\ Pend(c, "store", now, now, TRUE)
    BY <1>1, <1>2, <1>5, <2>1, OwnerPends
  <2>2. CASE (stale => setting.ensure) /\ Pend(c, "store", now, entry.stamp, stale)
    <3>1. IF stale THEN Safe(k, now) /\ (setting.ensure \/ entry.stamp = now)
                   ELSE Safe(k, now) \/ ran[k] <= entry.stamp
      BY <1>2, <1>3, <1>5, <2>2
    <3> HIDE DEF stale
    <3> QED BY <1>1, <2>0, <2>2, <3>1, OwnerPends
  <2>3. CASE (stale => setting.ensure) /\ Answer(c, stale)
    <3>1. CASE stale /\ Proceed(c, "run", k, now)
      BY <1>1, <1>2, <1>5, <2>3, <3>1, OwnerAllowed
    <3>2. CASE Return(c)
      BY <3>2, Returns, OwnerQuiet
    <3> QED BY <2>3, <3>1, <3>2 DEF Answer
  <2> QED BY <1>5, <2>1, <2>2, <2>3 DEF Found
<1>6. ASSUME ~Known(k), NotFound(c, setting) PROVE OwnerInv(c, k)'
  <2>1. ASSUME NEW back, Pend(c, "loadOrStore", now, now - back, FALSE)
        PROVE  OwnerInv(c, k)'
    <3>1. pc'[c] = "loadOrStore" /\ me'[c].now = now /\ me'[c].entry.lastAccess = now
      <4> DEFINE label == "loadOrStore"
                 allowed == FALSE
                 stamp == now - back
      <4>1. Pend(c, label, now, stamp, allowed)
        BY <2>1
      <4> HIDE DEF label, allowed, stamp
      <4>2. pc'[c] = label /\ me'[c].now = now /\ me'[c].entry.lastAccess = now
        BY <4>1, Pends
      <4> QED BY <4>2 DEF label
    <3>2. ran'[k] <= now
      BY <1>1 DEF Untouched
    <3> QED BY <3>1, <3>2 DEF OwnerInv
  <2>2. CASE Pend(c, "store", now, now, TRUE)
    BY <1>1, <1>4, <1>6, <2>2, OwnerPends
  <2>3. CASE setting.ensure /\ Answer(c, TRUE)
    BY <1>1, <1>4, <1>6, <2>3, OwnerAllowed DEF Answer
  <2>4. CASE Return(c)
    BY <2>4, Returns, OwnerQuiet
  <2> QED BY <1>6, <2>1, <2>2, <2>3, <2>4 DEF NotFound
<1> QED BY <1>5, <1>6 DEF Load

--------------------------------------------------------------------------------
(* The steps on the map, and the run of the step: what they do to the key   *)
(* of their caller.                                                         *)
Kind(k) == KeyInv(k, clock)' /\ RecordInv(k)'

LEMMA OwnerStore ==
  ASSUME Kept, TypeOK, NEW c \in Caller, NEW k \in Key, k = me[c].key, Store(c),
         Threatened(k)' <=> Threatened(k),
         KeyInv(k, clock), RecordInv(k), TimelyInv(c), OwnerInv(c, k)
  PROVE  Kind(k) /\ OwnerInv(c, k)'
<1> DEFINE entry == me[c].entry
<1>1. PICK now \in Int : now = me[c].now /\ now <= clock
  BY Possessions DEF Owns
<1>2. /\ pc[c] = "store" /\ UNCHANGED <<config, clock, ran, before>>
      /\ entries'[k] = entry /\ Known(k)' /\ entry.stamp \in Int
  BY Possessions, EntriesAreKnown DEF Store, history, Known, Owns, TypeOK
<1>3. /\ ran[k] <= now /\ entry.lastAccess = now
      /\ IF me[c].allowed
           THEN Safe(k, now) /\ (config[k].ensure \/ entry.stamp = now)
           ELSE Safe(k, now) \/ ran[k] <= entry.stamp
  BY <1>1, <1>2 DEF OwnerInv
<1>4. Elapsed(k, now) => Elapsed(k, clock)
  BY <1>1, Figure DEF Elapsed, Figures
<1>5. Safe(k, clock) \/ ran[k] <= entry.stamp
  BY <1>1, <1>3, <1>4 DEF Safe
<1>6. Kind(k)
  BY <1>2, <1>3, <1>5 DEF Kind, KeyInv, RecordInv, Safe, Elapsed, Spread
<1>7. CASE Return(c)
  BY <1>6, <1>7, Returns, OwnerQuiet
<1>8. CASE me[c].allowed /\ Proceed(c, "run", me[c].key, me[c].now)
  <2>1. pc'[c] = "run" /\ me'[c].now = now
    BY <1>1, <1>8, RunsItsKey
  <2>2. Elapsed(k, now)' \/ (Spread(k)' /\ ~Threatened(k)')
    BY <1>2, <1>3, <1>8 DEF Safe, Elapsed, Spread
  <2>3. Elapsed(k, clock)' \/ ~Threatened(k)'
    BY <1>2, <1>4, <2>2 DEF Elapsed
  <2>4. /\ ran'[k] <= now /\ Known(k)' /\ now <= entries'[k].lastAccess
        /\ config'[k].ensure \/ now <= entries'[k].stamp
    BY <1>1, <1>2, <1>3, <1>8
  <2>5. OwnerInv(c, k)'
    BY <2>1, <2>2, <2>3, <2>4 DEF OwnerInv, Elapsed
  <2> QED BY <1>6, <2>5
<1> QED BY <1>2, <1>7, <1>8 DEF Store, Answer

LEMMA OwnerLoadOrStore ==
  ASSUME Kept, TypeOK, NEW c \in Caller, NEW k \in Key, k = me[c].key, LoadOrStore(c),
         Threatened(k)' <=> Threatened(k),
         KeyInv(k, clock), RecordInv(k), OwnerInv(c, k)
  PROVE  Kind(k) /\ pc'[c] = "idle"
<1>1. /\ pc[c] = "loadOrStore" /\ UNCHANGED <<config, clock, ran, before>>
      /\ entries'[k] = IF Known(k) THEN entries[k] ELSE me[c].entry
  BY DEF LoadOrStore, history, TypeOK
<1>2. ran[k] <= me[c].entry.lastAccess
  BY <1>1 DEF OwnerInv
<1>3. pc'[c] = "idle"
  BY Returns DEF LoadOrStore
<1> QED BY <1>1, <1>2, <1>3 DEF Kind, KeyInv, RecordInv, Safe, Elapsed, Spread, Known

LEMMA OwnerSetNow ==
  ASSUME Kept, TypeOK, NEW c \in Caller, NEW k \in Key, k = me[c].key, SetNow(c),
         Threatened(k)' <=> Threatened(k), TimelyInv(c), OwnerInv(c, k)
  PROVE  Kind(k) /\ pc'[c] = "idle"
<1>1. PICK now \in Int : now = me[c].now /\ 0 <= now
  BY Possessions DEF Owns, TimelyInv
<1>2. /\ pc[c] = "setNow" /\ UNCHANGED <<config, clock>> /\ entries'[k] = me[c].entry
      /\ ran'[k] = me[c].entry.stamp /\ before'[k] = ran[k] /\ Known(k)'
  BY Possessions, EntriesAreKnown DEF SetNow, Ran, Known, Owns, TypeOK
<1>3. /\ me[c].entry.stamp = now /\ me[c].entry.lastAccess = now /\ ran[k] <= now
      /\ Elapsed(k, now) \/ ~Threatened(k)
  BY <1>1, <1>2 DEF OwnerInv
<1>4. pc'[c] = "idle"
  BY Returns DEF SetNow
<1>5. Spread(k)' <=> Elapsed(k, now)
  BY <1>2, <1>3 DEF Spread, Elapsed
<1>6. ran'[k] # Never
  BY <1>1, <1>2, <1>3, Figure DEF Figures, Never
<1>7. RecordInv(k)'
  BY <1>1, <1>2, <1>3, <1>6 DEF RecordInv
<1>8. KeyInv(k, clock)'
  BY <1>1, <1>2, <1>3, <1>5 DEF KeyInv
<1> QED BY <1>4, <1>7, <1>8 DEF Kind

LEMMA OwnerResetStore ==
  ASSUME Kept, TypeOK, NEW c \in Caller, NEW k \in Key, k = me[c].key, ResetStore(c),
         TimelyInv(c), OwnerInv(c, k)
  PROVE  Kind(k) /\ pc'[c] = "idle"
<1>1. /\ pc[c] = "reset" /\ entries'[k] = me[c].entry
      /\ ran'[k] = Never /\ before'[k] = Never
  BY DEF ResetStore, TypeOK
<1>2. me[c].entry.lastAccess = me[c].now /\ 0 <= me[c].now
  BY <1>1 DEF OwnerInv, TimelyInv
<1>3. Never <= me[c].entry.lastAccess /\ Never <= Never
  BY <1>2, Figure, Possessions DEF Figures, Owns, Never
<1>4. pc'[c] = "idle"
  BY Returns DEF ResetStore
<1> QED BY <1>1, <1>3, <1>4 DEF Kind, KeyInv, RecordInv, Safe, Elapsed

LEMMA OwnerFinish ==
  ASSUME Kept, TypeOK, NEW c \in Caller, NEW k \in Key, k = me[c].key, Finish(c),
         Threatened(k)' <=> Threatened(k),
         KeyInv(k, clock), RecordInv(k), TimelyInv(c), OwnerInv(c, k)
  PROVE  Kind(k) /\ OwnerInv(c, k)'
<1>1. PICK now \in Int : now = me[c].now /\ 0 <= now /\ now <= clock
  BY Possessions DEF Owns, TimelyInv
<1>2. pc[c] = "run" /\ UNCHANGED <<config, clock, entries>>
  BY DEF Finish, store
<1>3. CASE config[k].ensure /\ Return(c) /\ UNCHANGED <<ran, before>>
  <2>1. Kind(k)
    BY <1>2, <1>3 DEF Kind, KeyInv, RecordInv, Safe, Elapsed, Spread, Known
  <2> QED BY <1>3, <2>1, Returns, OwnerQuiet
<1>4. CASE ~config[k].ensure /\ Return(c) /\ Ran(k, now)
  <2>1. ran'[k] = now /\ before'[k] = ran[k]
    BY <1>4 DEF Ran, TypeOK
  <2>2. Spread(k)' <=> Elapsed(k, now)
    BY <1>2, <2>1 DEF Spread, Elapsed
  <2>3. ran'[k] # Never
    BY <1>1, <2>1, Figure DEF Figures, Never
  <2>4. Elapsed(k, clock)' <=> clock - now > config[k].interval
    BY <1>2, <2>1, <2>3 DEF Elapsed
  <2>5. /\ ran[k] <= now
        /\ Known(k) => now <= entries[k].lastAccess
        /\ \/ clock - now > config[k].interval \/ (Known(k) /\ now <= entries[k].stamp)
           \/ (Elapsed(k, now) /\ ~Threatened(k))
        /\ clock - now > config[k].interval \/ Elapsed(k, now) \/ ~Threatened(k)
    BY <1>1, <1>2, <1>4 DEF OwnerInv
  <2>6. Known(k)' <=> Known(k)
    BY <1>2 DEF Known
  <2>7. RecordInv(k)'
    BY <1>2, <2>1, <2>3, <2>5, <2>6 DEF RecordInv
  <2>8. KeyInv(k, clock)'
    BY <1>2, <2>1, <2>2, <2>4, <2>5, <2>6 DEF KeyInv, Safe
  <2> QED BY <1>4, <2>7, <2>8, Returns, OwnerQuiet DEF Kind
<1>5. CASE config[k].ensure /\ Pend(c, "setNow", clock, clock, TRUE) /\ UNCHANGED <<ran, before>>
  <2>1. Kind(k)
    BY <1>2, <1>5 DEF Kind, KeyInv, RecordInv, Safe, Elapsed, Spread, Known
  <2>2. /\ pc'[c] = "setNow" /\ me'[c].now = clock
        /\ me'[c].entry.stamp = clock /\ me'[c].entry.lastAccess = clock
    BY <1>5, SetPends
  <2>3. Elapsed(k, clock)' \/ ~Threatened(k)'
    BY <1>2, <1>5 DEF OwnerInv, Elapsed
  <2>4. ran'[k] <= clock
    BY <1>5, Figure DEF Figures
  <2>5. OwnerInv(c, k)'
    BY <1>2, <2>2, <2>3, <2>4 DEF OwnerInv, Elapsed
  <2> QED BY <2>1, <2>5
<1> QED BY <1>1, <1>3, <1>4, <1>5 DEF Finish

--------------------------------------------------------------------------------
(* The sweep of somebody else. What it finds idle has not run for longer    *)
(* than an interval and a call.                                             *)
LEMMA IdleIsOver ==
  ASSUME Kept, TypeOK, NEW c \in Caller, NEW v \in Key, Idle(c, v), RecordInv(v)
  PROVE  /\ \A t \in Int : clock - t <= Delay => Elapsed(v, t)
         /\ \A t \in Int : t <= entries[v].lastAccess => clock - t > config[v].interval
<1>1. /\ Known(v) /\ me[c].now - entries[v].lastAccess > TTL /\ me[c].now <= clock
      /\ me[c].now \in Int /\ ran[v] <= entries[v].lastAccess
  BY Possessions DEF Idle, RecordInv, Owns
<1> QED BY <1>1, Figure DEF Figures, Elapsed

(* The owner of a key does not mind that it is about to be deleted.         *)
LEMMA OwnerThreatened ==
  ASSUME Kept, TypeOK, NEW d \in Caller, NEW v \in Key, v = me[d].key,
         pc'[d] = pc[d], me'[d] = me[d], UNCHANGED <<config, clock, entries, ran, before>>,
         \A t \in Int : clock - t <= Delay => Elapsed(v, t),
         \A t \in Int : Known(v) /\ t <= entries[v].lastAccess => clock - t > config[v].interval,
         Known(v), TimelyInv(d), OwnerInv(d, v)
  PROVE  OwnerInv(d, v)'
<1>1. PICK now \in Int : now = me[d].now
  BY Possessions DEF Owns
<1>2. pc[d] \notin {"idle", "run"} => Elapsed(v, now)'
  BY <1>1 DEF TimelyInv, Elapsed
<1>3. Known(v)' <=> Known(v)
  BY DEF Known
<1>4. Elapsed(v, clock)'
  <2>1. Elapsed(v, clock)
    BY Figure DEF Figures
  <2> QED BY <2>1 DEF Elapsed
<1>5. CASE pc[d] = "run"
  <2>1. config[v].ensure \/ clock - now > config[v].interval
    BY <1>1, <1>5 DEF OwnerInv
  <2> QED BY <1>1, <1>3, <1>4, <1>5, <2>1 DEF OwnerInv, Elapsed, Spread
<1>6. CASE pc[d] # "run"
  <2>1. me'[d].now = now
    BY <1>1
  <2>2. pc'[d] \in {"load", "store", "setNow"} => Elapsed(v, now)'
    BY <1>2
  <2> QED BY <1>1, <1>3, <1>6, <2>1, <2>2 DEF OwnerInv, KeyInv, Safe, Elapsed
<1> QED BY <1>5, <1>6

LEMMA VisitThreatens ==
  ASSUME Kept, TypeOK, Twofold, NEW c \in Caller, NEW v \in Key, Visit(c), Idle(c, v),
         pc'[c] = "delete", me'[c].victim = v
  PROVE  /\ \A k \in Key : Kind(k)
         /\ \A d \in Caller : d # c => \A k \in Key : k = me'[d].key => OwnerInv(d, k)'
<1>1. /\ pc[c] = "range" /\ UNCHANGED <<config, clock, entries, ran, before>>
      /\ \A d \in Caller : d # c => pc'[d] = pc[d] /\ me'[d] = me[d]
  BY DEF Visit, store, history, Goto, TypeOK
<1>2. \A d \in Caller : d # c => pc[d] # "delete"
  BY <1>1 DEF Twofold, TimelyInv
<1>3. ASSUME NEW k \in Key, k # v PROVE Untouched(k)
  BY <1>1, <1>2, <1>3 DEF Untouched, Threatened
<1>4. /\ Known(v) /\ \A t \in Int : clock - t <= Delay => Elapsed(v, t)
      /\ \A t \in Int : Known(v) /\ t <= entries[v].lastAccess => clock - t > config[v].interval
  BY IdleIsOver DEF Twofold, Idle
<1>5. Kind(v)
  <2>1. Elapsed(v, clock)'
    <3>1. Elapsed(v, clock)
      BY <1>4, Figure DEF Figures
    <3> QED BY <1>1, <3>1 DEF Elapsed
  <2>2. RecordInv(v)'
    BY <1>1 DEF Twofold, RecordInv, Known
  <2> QED BY <2>1, <2>2 DEF Kind, KeyInv, Safe
<1>6. ASSUME NEW d \in Caller, d # c, NEW k \in Key, k = me'[d].key PROVE OwnerInv(d, k)'
  <2>1. pc'[d] = pc[d] /\ me'[d] = me[d] /\ OwnerInv(d, k) /\ TimelyInv(d)
    BY <1>1, <1>6 DEF Twofold
  <2>2. CASE k # v
    BY <1>3, <2>1, <2>2, OwnerFramed
  <2>3. CASE k = v
    BY <1>1, <1>4, <1>6, <2>1, <2>3, OwnerThreatened
  <2> QED BY <2>2, <2>3
<1> QED BY <1>3, <1>5, <1>6, KeyFramed DEF Twofold, Kind

(* Nor that it is deleted: nobody else sweeps and threatens it again.       *)
LEMMA OwnerDeleted ==
  ASSUME Kept, TypeOK, NEW d \in Caller, NEW v \in Key, v = me[d].key,
         pc'[d] = pc[d], me'[d] = me[d], UNCHANGED <<config, clock, ran, before>>,
         ~Known(v)', Threatened(v), ~Threatened(v)', OwnerInv(d, v)
  PROVE  OwnerInv(d, v)'
<1>1. PICK now \in Int : now = me[d].now
  BY Possessions DEF Owns
<1>2. /\ Elapsed(v, now)' <=> Elapsed(v, now)
      /\ Elapsed(v, clock)' <=> Elapsed(v, clock)
      /\ Spread(v)' <=> Spread(v)
  BY DEF Elapsed, Spread
<1>3. CASE pc[d] \in {"load", "store"}
  <2>1. /\ KeyInv(v, now) /\ ran[v] <= now
        /\ pc[d] = "store" =>
             /\ me[d].entry.lastAccess = now
             /\ IF me[d].allowed
                  THEN Safe(v, now) /\ (config[v].ensure \/ me[d].entry.stamp = now)
                  ELSE Safe(v, now) \/ ran[v] <= me[d].entry.stamp
    BY <1>1, <1>3 DEF OwnerInv
  <2>2. Elapsed(v, now)' \/ Spread(v)'
    BY <1>2, <2>1 DEF KeyInv
  <2>3. Safe(v, now)'
    BY <2>2 DEF Safe, Elapsed
  <2>4. KeyInv(v, now)'
    BY <2>2, <2>3 DEF KeyInv, Elapsed
  <2> QED BY <1>1, <1>3, <2>1, <2>3, <2>4 DEF OwnerInv, KeyInv, Safe, Elapsed
<1>4. CASE pc[d] = "run"
  BY <1>1, <1>2, <1>4 DEF OwnerInv, Elapsed, Spread
<1>5. CASE pc[d] \notin {"load", "store", "run"}
  BY <1>1, <1>2, <1>5 DEF OwnerInv, Elapsed
<1> QED BY <1>3, <1>4, <1>5

LEMMA DeleteSpares ==
  ASSUME Kept, TypeOK, Twofold, NEW c \in Caller, Delete(c)
  PROVE  /\ \A k \in Key : Kind(k)
         /\ \A d \in Caller : d # c => \A k \in Key : k = me'[d].key => OwnerInv(d, k)'
<1>0. PICK v \in Key : v = me[c].victim
  BY Possessions DEF Owns
<1>1. /\ pc[c] = "delete" /\ pc'[c] = "range" /\ UNCHANGED <<config, clock, ran, before>>
      /\ entries' = [entries EXCEPT ![v] = NoEntry]
      /\ \A d \in Caller : d # c => pc'[d] = pc[d] /\ me'[d] = me[d]
  BY <1>0 DEF Delete, history, Goto, TypeOK
<1>2. \A d \in Caller : d # c => pc[d] # "delete"
  BY <1>1 DEF Twofold, TimelyInv
<1>3. ASSUME NEW k \in Key, k # v PROVE Untouched(k)
  BY <1>0, <1>1, <1>2, <1>3 DEF Untouched, Threatened, TypeOK
<1>4. Threatened(v) /\ ~Threatened(v)' /\ ~Known(v)'
  BY <1>0, <1>1, <1>2 DEF Threatened, Known, TypeOK
<1>5. Kind(v)
  <2>1. KeyInv(v, clock) /\ RecordInv(v)
    BY DEF Twofold
  <2>2. Elapsed(v, clock)' \/ Spread(v)'
    BY <1>1, <1>4, <2>1 DEF KeyInv, Elapsed, Spread
  <2>3. RecordInv(v)'
    BY <1>1, <1>4, <2>1 DEF RecordInv
  <2> QED BY <1>4, <2>2, <2>3 DEF Kind, KeyInv, Safe
<1>6. ASSUME NEW d \in Caller, d # c, NEW k \in Key, k = me'[d].key PROVE OwnerInv(d, k)'
  <2>1. pc'[d] = pc[d] /\ me'[d] = me[d] /\ OwnerInv(d, k)
    BY <1>1, <1>6 DEF Twofold
  <2>2. CASE k # v
    BY <1>3, <2>1, <2>2, OwnerFramed
  <2>3. CASE k = v
    BY <1>1, <1>4, <1>6, <2>1, <2>3, OwnerDeleted
  <2> QED BY <2>2, <2>3
<1> QED BY <1>3, <1>5, <1>6, KeyFramed DEF Twofold, Kind

--------------------------------------------------------------------------------
LEMMA TwiceTick ==
  ASSUME Kept, TypeOK, Twofold, Tick
  PROVE  Twofold'
<1>1. /\ clock' = clock + 1 /\ UNCHANGED <<config, entries, lastSweep, pc, me, ran, before>>
      /\ \A c \in Caller : pc[c] \in {"idle", "run"} \/ clock - me[c].now < Delay
  BY DEF Tick, store, history
<1>2. \A k \in Key : Threatened(k)' <=> Threatened(k)
  BY <1>1 DEF Threatened
<1>3. ASSUME NEW k \in Key PROVE KeyInv(k, clock)' /\ RecordInv(k)'
  <2>1. KeyInv(k, clock) /\ RecordInv(k)
    BY DEF Twofold
  <2>2. Elapsed(k, clock) => Elapsed(k, clock)'
    BY <1>1, Figure DEF Elapsed, Figures
  <2> QED BY <1>1, <1>2, <2>1, <2>2 DEF KeyInv, RecordInv, Safe, Spread, Known
<1>4. ASSUME NEW c \in Caller PROVE TimelyInv(c)'
  <2>1. TimelyInv(c) /\ Owns(c) /\ clock \in Int /\ Delay \in Int
    BY Possessions, TimeAssumption DEF Twofold, TypeOK
  <2> QED BY <1>1, <2>1 DEF TimelyInv, Owns
<1>5. ASSUME NEW c \in Caller, NEW k \in Key, k = me'[c].key PROVE OwnerInv(c, k)'
  <2>1. OwnerInv(c, k)
    BY <1>1, <1>5 DEF Twofold
  <2>2. PICK now \in Int : now = me[c].now
    BY Possessions DEF Owns
  <2>3. /\ Elapsed(k, clock) => Elapsed(k, clock)'
        /\ clock - now > config[k].interval => clock' - now > config'[k].interval
    BY <1>1, Figure DEF Elapsed, Figures
  <2>4. CASE pc[c] = "run"
    <3>1. Elapsed(k, now)' <=> Elapsed(k, now)
      BY <1>1 DEF Elapsed
    <3> QED BY <1>1, <1>2, <2>1, <2>2, <2>3, <2>4, <3>1 DEF OwnerInv, Elapsed, Spread, Known
  <2>5. CASE pc[c] # "run"
    BY <1>1, <1>2, <2>1, <2>5 DEF OwnerInv, KeyInv, Safe, Elapsed, Spread, Known
  <2> QED BY <2>4, <2>5
<1> QED BY <1>3, <1>4, <1>5 DEF Twofold

(* The steps of a caller on its own key.                                    *)
LEMMA TwiceAtHome ==
  ASSUME Owned, Kept, TypeOK, Twofold, NEW c \in Caller,
         Store(c) \/ LoadOrStore(c) \/ Finish(c) \/ SetNow(c) \/ ResetStore(c)
  PROVE  /\ \A k \in Key : Kind(k)
         /\ \A d \in Caller : \A k \in Key : k = me'[d].key => OwnerInv(d, k)'
<1>0. PICK k \in Key : k = me[c].key
  BY Possessions DEF Owns
<1>1. /\ CallerStep(c) /\ pc[c] \notin {"idle", "delete"}
      /\ \A j \in Key : j # k =>
           ran'[j] = ran[j] /\ before'[j] = before[j] /\ entries'[j] = entries[j]
  BY <1>0 DEF CallerStep, Store, LoadOrStore, Finish, SetNow, ResetStore, Ran, store, history, TypeOK
<1>2. \/ pc'[c] = "idle"
      \/ pc'[c] \in {"run", "setNow"} /\ me'[c].key = k
  BY <1>0, Returns, RunsItsKey, SetPends
     DEF Store, LoadOrStore, Finish, SetNow, ResetStore, Answer
<1>3. Threatened(k)' <=> Threatened(k)
  BY <1>1, <1>2, Harmless, CallerAlone
<1>4. KeyInv(k, clock) /\ RecordInv(k) /\ TimelyInv(c) /\ OwnerInv(c, k)
  BY <1>0 DEF Twofold
<1>5. Kind(k) /\ (OwnerInv(c, k)' \/ pc'[c] = "idle")
  BY <1>0, <1>3, <1>4, OwnerStore, OwnerLoadOrStore, OwnerFinish, OwnerSetNow, OwnerResetStore
<1>6. /\ \A j \in Key : j # k => Kind(j)
      /\ \A d \in Caller : d # c => \A j \in Key : j = me'[d].key => OwnerInv(d, j)'
  BY <1>0, <1>1, <1>2, Abroad DEF Kind
<1>7. \A j \in Key : j = me'[c].key => OwnerInv(c, j)'
  BY <1>2, <1>5, OwnerQuiet
<1> QED BY <1>5, <1>6, <1>7

(* The steps that change nothing but the caller, and the gate.              *)
LEMMA TwiceElsewhere ==
  ASSUME Owned, Kept, TypeOK, Twofold, NEW c \in Caller, CallerStep(c), ~Delete(c),
         ~(Store(c) \/ LoadOrStore(c) \/ Finish(c) \/ SetNow(c) \/ ResetStore(c)),
         pc[c] # "delete", pc'[c] # "delete"
  PROVE  /\ \A k \in Key : Kind(k)
         /\ \A d \in Caller : \A k \in Key : k = me'[d].key => OwnerInv(d, k)'
<1>1. UNCHANGED <<ran, before, entries>>
  BY DEF CallerStep, store, history, Gate, Swap, Visit, Swept, Load, ShouldRun, Reset, Read
<1>2. /\ \A k \in Key : Untouched(k) /\ Kind(k)
      /\ \A d \in Caller : d # c => \A k \in Key : k = me'[d].key => OwnerInv(d, k)'
  BY <1>1, Nowhere DEF Kind
<1>3. ASSUME NEW k \in Key, k = me'[c].key PROVE OwnerInv(c, k)'
  <2>0. me[c].key \in Key /\ me[c].now \in Int /\ clock \in Int
    BY Possessions DEF Owns, TypeOK
  <2>1. CASE Gate(c) \/ Swap(c) \/ Visit(c) \/ Swept(c) \/ \E j \in Key : ShouldRun(c, j)
    <3>1. pc'[c] \in {"gate", "swap", "range", "read"}
      BY <2>1 DEF Gate, Swap, Visit, Swept, ShouldRun, Proceed, Goto, TypeOK
    <3> QED BY <3>1, OwnerQuiet
  <2>2. CASE Read(c)
    <3>1. me'[c].key = me[c].key
      BY <2>0, <2>2, Proceeds DEF Read
    <3>2. k = me[c].key
      BY <1>3, <3>1
    <3> QED BY <1>2, <2>2, <3>2, OwnerRead DEF Twofold
  <2>3. ASSUME NEW j \in Key, Reset(c, j) PROVE OwnerInv(c, k)'
    <3>1. me'[c].key = j /\ OwnerInv(c, j)'
      BY <1>2, <2>3, OwnerReset
    <3>2. k = j
      BY <1>3, <3>1
    <3> QED BY <3>1, <3>2
  <2>4. CASE Load(c)
    <3>1. CASE pc'[c] = "idle"
      BY <3>1, OwnerQuiet
    <3>2. CASE pc'[c] # "idle"
      <4>1. k = me[c].key
        BY <1>3, <2>4, <3>2, TimelyLoad
      <4> QED BY <1>2, <2>4, <4>1, OwnerLoad DEF Twofold
    <3> QED BY <3>1, <3>2
  <2> QED BY <2>1, <2>2, <2>3, <2>4 DEF CallerStep
<1> QED BY <1>2, <1>3

LEMMA TwiceCall ==
  ASSUME Owned, Kept, Swift, TypeOK, SweepInv, Twofold, NEW c \in Caller, CallerStep(c)
  PROVE  Twofold'
<1>1. \A d \in Caller : TimelyInv(d)'
  BY TimelyCall DEF Twofold
<1>2. /\ \A k \in Key : Kind(k)
      /\ \A d \in Caller : \A k \in Key : k = me'[d].key => OwnerInv(d, k)'
  <2>1. CASE Store(c) \/ LoadOrStore(c) \/ Finish(c) \/ SetNow(c) \/ ResetStore(c)
    BY <2>1, TwiceAtHome
  <2>2. CASE Delete(c)
    <3>1. pc'[c] = "range"
      BY <2>2 DEF Delete, Goto, TypeOK
    <3> QED BY <2>2, <3>1, DeleteSpares, OwnerQuiet
  <2>3. CASE ~(Store(c) \/ LoadOrStore(c) \/ Finish(c) \/ SetNow(c) \/ ResetStore(c)) /\ ~Delete(c)
    <3>1. pc[c] # "delete"
      BY <2>3 DEF CallerStep, Gate, Swap, Visit, Swept, Load, ShouldRun, Reset, Read
    <3>2. CASE pc'[c] # "delete"
      BY <2>3, <3>1, <3>2, TwiceElsewhere
    <3>3. CASE pc'[c] = "delete"
      <4>1. Visit(c)
        BY <2>3, <3>3, TimelyLoad
           DEF CallerStep, Gate, Swap, Swept, ShouldRun, Reset, Read, Proceed, Goto, TypeOK
      <4>2. PICK v \in Key : Idle(c, v) /\ me'[c].victim = v
        <5>1. PICK v \in me[c].todo :
                /\ me' = [me EXCEPT ![c].todo = @ \ {v}, ![c].victim = v]
                /\ Goto(c, IF Idle(c, v) THEN "delete" ELSE "range")
          BY <4>1 DEF Visit
        <5>2. me[c] \in Local /\ v \in Key
          BY <5>1 DEF TypeOK, Local
        <5>3. Idle(c, v)
          BY <3>3, <5>1 DEF Goto, TypeOK
        <5>4. me'[c] = [me[c] EXCEPT !.todo = @ \ {v}, !.victim = v]
          BY <5>1 DEF TypeOK
        <5>5. me'[c].victim = v
          BY <5>2, <5>4 DEF Local
        <5> QED BY <5>2, <5>3, <5>5
      <4> QED BY <3>3, <4>1, <4>2, VisitThreatens, OwnerQuiet
    <3> QED BY <3>2, <3>3
  <2> QED BY <2>1, <2>2, <2>3
<1> QED BY <1>1, <1>2 DEF Twofold, Kind

(* Goroutines that have their keys to themselves, in whatever order their   *)
(* accesses fall and whichever of them sweeps: a sweep may take the entry   *)
(* of a run away, and that of the next one only when their interval is over *)
(* (throttling.go:79-122, 155-176).                                         *)
THEOREM Twice == ASSUME Owned, Kept, Swift PROVE Spec => []TwiceInv
<1>1. Init => Twofold
  <2> SUFFICES ASSUME Init PROVE Twofold
    OBVIOUS
  <2>1. ASSUME NEW k \in Key PROVE KeyInv(k, clock) /\ RecordInv(k)
    BY TimeAssumption DEF Init, KeyInv, RecordInv, Safe, Elapsed, Known, Never
  <2>2. ASSUME NEW c \in Caller PROVE TimelyInv(c) /\ \A k \in Key : OwnerInv(c, k)
    BY BlankIsLocal DEF Init, TimelyInv, OwnerInv
  <2> QED BY <2>1, <2>2 DEF Twofold
<1>2. TypeOK /\ SweepInv /\ Twofold /\ [Next]_vars => Twofold'
  <2> SUFFICES ASSUME TypeOK, SweepInv, Twofold, [Next]_vars PROVE Twofold'
    OBVIOUS
  <2>1. CASE UNCHANGED vars
    BY <2>1 DEF vars, Twofold, KeyInv, RecordInv, TimelyInv, OwnerInv, Safe, Elapsed, Spread,
                Threatened, Known
  <2> QED BY <2>1, TwiceTick, TwiceCall DEF Next
<1>3. TypeOK /\ Twofold => TwiceInv
  BY TwiceIsTwofold
<1> QED BY <1>1, <1>2, <1>3, ThrottlingInvariant, PTL DEF Spec

(* Hence a step whose key has one owner runs at most twice in an interval   *)
(* (throttling.go:79-122).                                                  *)
THEOREM TwiceAtMost == ASSUME Owned, Kept, Swift PROVE Spec => []NeverThrice
<1>1. TypeOK /\ TwiceInv => NeverThrice
  <2> SUFFICES ASSUME TypeOK, TwiceInv, NEW c \in Caller, NEW k \in Key, k = me[c].key,
                      pc[c] = "run", before[k] # Never
               PROVE  me[c].now - before[k] > config[k].interval
    BY Possessions DEF NeverThrice, Owns
  <2>1. /\ Elapsed(k, me[c].now) \/ Spread(k)
        /\ ran[k] <= me[c].now /\ before[k] <= ran[k] /\ ran[k] # Never
    BY TwiceIsTwofold DEF Twofold, OwnerInv, RecordInv
  <2> QED BY <2>1, Figure, Possessions DEF Elapsed, Spread, Figures, Owns
<1> QED BY <1>1, Twice, TypeCorrect, PTL

================================================================================
