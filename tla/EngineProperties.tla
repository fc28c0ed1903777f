--------------------------- MODULE EngineProperties ----------------------------
(***************************************************************************)
(* What StepsEngine should do, and at the end what its documentation says  *)
(* it does and it does not.                                                *)
(***************************************************************************)
EXTENDS StepsEngine

(* The step failed: an error that its engine does not take for expected.    *)
Fails(s) == IsError(res[s]) /\ ~IsExpected(res[s])

Above(s) == {n \in Node : s \in Subtree[n]}

(* The body of s has been started by its engine and not been dealt with.    *)
InProgress(s) ==
  \E e \in Node :
    /\ s \in Nested(e)
    /\ at[e] \in Positions(e)
    /\ Current(e) = s
    /\ pc[e] \in {"wait", "failing", "confirming", "recording"}

(* p has started s and waits for it.                                        *)
WaitsFor(p, s) ==
  /\ s \in Nested(p)
  /\ \/ pc[p] = "wait" /\ at[p] \in Positions(p) /\ Current(p) = s
     \/ pc[p] = "collecting"

(* A step or goroutine is active only while the engine or parallel step     *)
(* that started it waits for exactly it: RunStep never returns with a       *)
(* goroutine left behind (parallel_steps.go:159-166), and no engine is past *)
(* a step that still runs.                                                  *)
StructuredConcurrency ==
  \A s \in Step : pc[s] # "idle" => \E p \in Node : WaitsFor(p, s)

(* An engine is past a step only if that step did not fail or may continue  *)
(* on error (step_engine.go:288-334), however deep the failure happened.    *)
FailureStopsFlow ==
  \A e \in Node : \A i \in Positions(e) :
    i < at[e] => LET s == flow[e].steps[i] IN Fails(s) => Has(s, "continue")

(* The labels of an engine that is dealing with its current step, and of    *)
(* one that has found its body successful.                                  *)
InStep == {"predicates", "throttle", "launch", "wait", "failing", "callback",
           "confirming", "recording", "completing"}

InSuccess == {"confirming", "recording", "completing"}

ParallelPCs == {"idle", "spawned", "forking", "collecting", "returned"}

(* Why the two above are preserved: an engine inside its loop has a current *)
(* step; a parallel step never enters that loop and only parallel steps     *)
(* fork; and an engine that persists a success got no error from the step.  *)
EngineInv ==
  /\ TypeOK
  /\ \A e \in Node : pc[e] \in InStep => at[e] \in Positions(e)
  /\ \A p \in Node : Kind(p) = "parallel" => at[p] = 1 /\ pc[p] \in ParallelPCs
  /\ \A p \in Node : pc[p] \in {"forking", "collecting"} => Kind(p) = "parallel"
  /\ \A e \in Node : pc[e] \in InSuccess => ~IsError(res[Current(e)])
  /\ StructuredConcurrency
  /\ FailureStopsFlow

(* A run that reports success lost no error on the way up: whatever failed  *)
(* in it, at any depth and on any goroutine, is below a step that may       *)
(* continue on error.                                                       *)
NoSilentFailure ==
  pc[Root] = "returned" /\ ~IsError(res[Root]) =>
    \A s \in Step : Fails(s) => \E t \in Above(s) : Has(t, "continue")

(* x has not been reached in this run; nothing inside p has.                *)
Fresh(x) == pc[x] = "idle" /\ res[x] = Plainly("unset")

FreshInside(p) == \A c \in Nested(p) : Fresh(c)

(* e has its i-th step before it.                                           *)
Ahead(e, i) ==
  \/ i > at[e]
  \/ i = at[e] /\ pc[e] \in {"next", "predicates", "throttle", "launch"}

(* p returned the failure of c, or one of the keeper instead.               *)
PassedOn(p, c) ==
  res[p].base = "update" \/ (res[p].base = res[c].base /\ res[p].layers > 0)

(* A node that is not running has failed if a step right below it has and   *)
(* may not continue on error; and an engine says how.                       *)
Upheld(p) ==
  pc[p] \in {"idle", "returned"} =>
    \A c \in Nested(p) :
      Fails(c) /\ ~Has(c, "continue") =>
        Fails(p) /\ (Kind(p) # "parallel" => PassedOn(p, c))

(* What a node has not reached has not run.                                 *)
UnreachedInside(p) == Fresh(p) \/ pc[p] \in {"spawned", "forking"} => FreshInside(p)

UnreachedAhead(e) ==
  Kind(e) # "parallel" =>
    \A i \in Positions(e) : Ahead(e, i) => Fresh(flow[e].steps[i])

(* What an engine has seen of its current step, and what a result tells.    *)
Witnessed(n) ==
  /\ pc[n] \in {"failing", "callback"} => Fails(Current(n))
  /\ pc[n] = "returned" => res[n] # Plainly("unset")
  /\ pc[n] = "executing" => Kind(n) = "simple"
  /\ n = Root /\ pc[n] = "idle" => res[n] = Plainly("unset")
  /\ n \in Step /\ res[n] # Plainly("unset") => \E p \in Node : n \in Nested(p)

(* Why no failure is lost on the way up: every node passes on the failures  *)
(* right below it, and what it has not reached cannot have failed.          *)
UpholdInv ==
  /\ EngineInv
  /\ \A n \in Node : Upheld(n) /\ UnreachedInside(n) /\ UnreachedAhead(n) /\ Witnessed(n)

(* Engine e has left its i-th step: it is past it, or returns its outcome.  *)
Left(e, i) ==
  LET s == flow[e].steps[i]
  IN \/ i < at[e]
     \/ /\ i = at[e] /\ pc[e] = "returned" /\ Kind(e) # "parallel"
        /\ \/ Fails(s) /\ res[e] = Wrap(res[s])
           \/ ~Fails(s) /\ res[e] = Plainly("nil")

(* A state that is not also that of a dynamic step around s, which says in  *)
(* the end what became of the dynamic step (step_engine.go:340).            *)
Unshared(s) == StateOf(s) = flow[s].state

(* The keeper holds what s returned, and OnFail has been called if s failed. *)
Recorded(s) ==
  /\ res[s].base = "nil" => stored[StateOf(s)] = "succeeded"
  /\ Fails(s) => stored[StateOf(s)] = "failed" /\ s \in cleaned

(* Whichever way an engine leaves a tracked step, going on, finishing or    *)
(* stopping, the keeper holds what the step returned, and OnFail has been   *)
(* called if it failed, even when the keeper reports errors                 *)
(* (step_engine.go:299-366).                                                *)
OutcomeIsPersisted ==
  \A e \in Node : \A i \in Positions(e) :
    Left(e, i) =>
      LET s == flow[e].steps[i]
      IN Tracked(s) /\ Unshared(s) => Recorded(s)

(* An engine gets past a tracked step that it has no reason to pass over    *)
(* only when the keeper holds its success or it has just failed and may     *)
(* continue: what a crash, a failed write or a failure interrupted, in this *)
(* run or an earlier one, is run again before anything behind it            *)
(* (step_engine.go:226-366, step.go:119-136).                               *)
NothingIsPassedOver ==
  \A e \in Node : \A i \in Positions(e) :
    i < at[e] =>
      LET s == flow[e].steps[i]
      IN Tracked(s) /\ Unshared(s) /\ ~Has(s, "predicate") /\ ~Has(s, "throttled") =>
           stored[StateOf(s)] = "succeeded" \/ IsError(res[s])

(* Why it is so: what an engine has found out about its current step, and   *)
(* persisted, still holds when it leaves the step.                          *)
DealtWith(e, s) ==
  LET kept == Tracked(s) /\ Unshared(s)
  IN /\ pc[e] \in {"failing", "callback"} => Fails(s)
     /\ pc[e] = "callback" /\ kept => stored[StateOf(s)] = "failed"
     /\ pc[e] = "completing" /\ kept => stored[StateOf(s)] = "succeeded"
     /\ pc[e] = "recording" => Tracked(s)

OutcomeInv ==
  /\ EngineInv
  /\ OutcomeIsPersisted
  /\ \A e \in Node : DealtWith(e, Current(e))
  /\ \A s \in Node : pc[s] = "executing" => Kind(s) = "simple"

(* No two steps share a state, but a dynamic step and the one inside it.    *)
SeparateStates ==
  \A s, t \in Step :
    /\ Tracked(s) /\ Unshared(s) /\ Tracked(t)
    /\ StateOf(s) = StateOf(t)
    => t \in Nested(s) \cup {s}

(* The stamp of an EnsureStepSuccess step is renewed only when the step has *)
(* succeeded and its success is persisted, so that a crash between the two  *)
(* never leaves a step throttled that did not run to the end                *)
(* (step_engine.go:337-376).                                                *)
StampedAfterSuccess ==
  [][\A s \in Step :
       /\ Has(s, "ensure") /\ ~Has(s, "preset")
       /\ window[flow[s].key] # "recent" /\ window'[flow[s].key] = "recent"
       => res[s].base = "nil" /\ (Tracked(s) => stored[StateOf(s)] = "succeeded")]_vars

(* Why it is so, where steps share neither states nor the key of such a     *)
(* step: who answers an engine has run, and what the engine has found       *)
(* successful still is.                                                     *)
Answers(s) ==
  /\ pc[s] # "spawned"
  /\ pc[s] = "returned" => res[s].base \notin {"unset", "skipped"}

Succeeded(e, s) ==
  /\ pc[e] \in InSuccess => res[s].base = "nil"
  /\ pc[e] = "completing" /\ Tracked(s) => stored[StateOf(s)] = "succeeded"

StampInv ==
  \A e \in Node :
    /\ Kind(e) # "parallel" => \A s \in Nested(e) : Answers(s)
    /\ Succeeded(e, Current(e))

OwnKeys ==
  \A s, t \in Step :
    Has(s, "ensure") /\ Has(t, "throttled") /\ flow[s].key = flow[t].key => s = t

(* A function that waits, or a nested engine aborted by a predicate.         *)
AsksForPatience(s) ==
  \/ Kind(s) = "simple" /\ res[s].base = "wait"
  \/ Kind(s) \in {"grouped", "dynamic", "operation"} /\ res[s] = Plainly("aborted")

(* A wait of any step and an abort of any nested engine, not below a        *)
(* parallel step, come out of the engines above as such and are requeued    *)
(* soon, unless a step on the way may continue or the keeper failed         *)
(* (step_engine.go:386-409).                                                *)
WaitIsRequeuedSoon ==
  pc[Root] = "returned" =>
    \A s \in Step :
      /\ AsksForPatience(s)
      /\ \A t \in Above(s) : Kind(t) # "parallel" /\ ~Has(t, "continue")
      => Requeue(res[Root]) = "soon" \/ res[Root].base = "update"

(* GetStep of a dynamic step is called no earlier than the engine that      *)
(* hands down the keeper reaches the outermost step around it: it sees what *)
(* the steps ahead of that one have done (dynamic_step.go:140, 151-159).    *)
GeneratedWhenReached ==
  \A d \in generated, e \in Node : \A i \in Positions(e) :
    /\ e = Root \/ Kind(e) = "operation"
    /\ d \in GeneratedWith(flow[e].steps[i])
    => i <= at[e]

(* The lifecycle of each persisted state.                                   *)
Lifecycle == INSTANCE StepLifecycle
  WITH status <- stored,
       active <- {StateOf(s) : s \in {t \in Step : Tracked(t) /\ InProgress(t)}},
       repeatable <- {StateOf(s) : s \in {t \in Step : Tracked(t) /\ Has(t, "skipCheck")}}

(* Every behaviour of the engine is one of the abstract lifecycle, for      *)
(* flows that give each state name to one step.                             *)
LifecycleSpec == Lifecycle!Spec

(* Why it is so, where reads do not fail: from the look at its state to the  *)
(* end of its execution a step is not closed, and only tracked steps are    *)
(* recorded.                                                                *)
LifecyclePCs == {"predicates", "throttle", "launch", "wait", "failing", "confirming", "recording"}

StaysOpen(e, s) ==
  /\ pc[e] \in LifecyclePCs /\ Tracked(s) => stored[StateOf(s)] # "succeeded" \/ Has(s, "skipCheck")
  /\ pc[e] = "recording" => Tracked(s)

LifecycleInv == EngineInv /\ \A e \in Node : StaysOpen(e, Current(e))

(* Every step that has a state has its own.                                 *)
OneStateEach ==
  \A s, t \in Step : Tracked(s) /\ Tracked(t) /\ StateOf(s) = StateOf(t) => s = t

(* A run that has started returns: nested engines, goroutines and the       *)
(* channel between them block nobody for ever (parallel_steps.go:135-166).  *)
RunReturns == pc[Root] = "next" ~> pc[Root] = "returned"

(* Every function that is called again and again succeeds at last; time     *)
(* passes, and the entry of a step that is reconciled again and again is    *)
(* not evicted.                                                             *)
EventualSuccess ==
  /\ \A s \in Step : SF_vars(/\ ~panicked /\ pc[s] = "executing"
                             /\ Return(s, Plainly("nil"))
                             /\ UNCHANGED <<flow, stored, window, generated, cleaned, panicked>>)
  /\ \A k \in Key : WF_vars(/\ ~panicked /\ window[k] = "recent"
                            /\ window' = [window EXCEPT ![k] = "elapsed"]
                            /\ UNCHANGED <<flow, pc, at, res, stored, generated, cleaned, panicked>>)

KeepsEntries == \A k \in Key : window[k] # "absent" => window'[k] # "absent"

ProgressSpec == Init /\ [][Next /\ KeepsEntries]_vars /\ Fairness /\ EventualSuccess

(* Reconciling again and again brings every step of the flow to its         *)
(* persisted success, and it stays there.                                   *)
Converges ==
  <>[](\A s \in Step : s \in Subtree[Root] /\ Tracked(s) => stored[StateOf(s)] = "succeeded")

--------------------------------------------------------------------------------
(* Sentences of the comments of the engine that its code contradicts.       *)

(* step_engine.go:386 "check if the error is WaitError or AbortError, then  *)
(* return without error, but with 3 seconds wait".                          *)
AbortIsRequeuedSoon ==
  pc[Root] = "returned" /\ res[Root].base = "aborted" => Requeue(res[Root]) = "soon"
================================================================================
