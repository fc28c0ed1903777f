---------------------------- MODULE MCK8sReconciler -----------------------------
(* Flows and predicates for model checking K8sReconciler.                   *)
EXTENDS K8sReconciler, MCStepsEngine

K8sOnly == {"keeper"}

(* a has succeeded, read through the combinators: IsNotFunc of an And that  *)
(* is true unless a has succeeded.                                          *)
MCBuilt ==
  "aDone" :> IsTrueCondition("A")
  @@ "aOpen" :> IsNotTrueCondition("A")
  @@ "given" :> IsNotNil("nilPointer")
  @@ "missing" :> IsNil("nilPointer")
  @@ "named" :> IsEmptyString("name")
  @@ "enabled" :> BoolValue(TRUE)
  @@ "aOpenAndGiven" :> And(<<"aOpen", "given", "enabled">>)
  @@ "notAOpen" :> IsNotFunc("aOpenAndGiven")
  @@ "either" :> Or(<<"missing", "named", "notAOpen">>)

MCPredicateFunc == DOMAIN MCBuilt

MCGuards ==
  b :> <<"aDone">> @@ c :> <<"enabled", "either">>
  @@ [s \in MCStep |-> << >>]

(* The controller of the example.                                           *)
Example == ControllerFlow(<<a, b, c, d>>, a :> "A" @@ b :> "B" @@ c :> "C" @@ d :> "D", k1)

(* A group that may continue on error ahead of two guarded steps, one of    *)
(* which aborts.                                                            *)
GuardedFlows ==
  {Flow(root :> Engine(<<g, b, c>>, K8sOnly)
        @@ g :> Composite("grouped", <<a>>, x, {"continue"})
        @@ a :> Simple("A", {})
        @@ b :> Simple("B", {"predicate"})
        @@ c :> Simple("C", {"predicate", "abort"}))
    : x \in {"none", "G"}}

(* A dynamic step that shares its state with the step it generates, which   *)
(* may continue on error, between two others.                               *)
SharedFlows ==
  {Flow(root :> Engine(<<a, d, c>>, K8sOnly)
        @@ a :> Simple("A", {"continue"})
        @@ d :> Composite("dynamic", <<b>>, "D", {})
        @@ b :> Simple("none", bf)
        @@ c :> Simple("C", {}))
    : bf \in {{}, {"continue"}}}

(* A step that runs in every reconciliation ahead of one that does not; and *)
(* one that may run only so often.                                          *)
RepeatedFlows ==
  {Flow(root :> Engine(<<a, b>>, K8sOnly)
        @@ a :> Simple("A", {"skipCheck"})
        @@ b :> Simple("B", {})),
   Flow(root :> Engine(<<a, b>>, K8s)
        @@ a :> Simple("A", {})
        @@ b :> Simple("B", {"throttled", "ensure"}))}

ReconcilerFlows == {Example} \cup GuardedFlows \cup SharedFlows \cup RepeatedFlows
================================================================================
