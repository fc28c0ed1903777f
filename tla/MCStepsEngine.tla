----------------------------- MODULE MCStepsEngine -----------------------------
(* Flows for model checking StepsEngine.                                    *)
EXTENDS EngineProperties, TLC

CONSTANTS a, b, c, d, g, p, root, k1, k2

MCStep == {a, b, c, d, g, p}
MCKey == {k1, k2}
MCStateName == {"A", "B", "C", "D", "G"}
MCNoState == "none"
AllOutcomes == {"nil", "plain", "wait", "expected"}

Simple(x, flags) ==
  [kind |-> "simple", steps |-> << >>, state |-> x, key |-> k1, flags |-> flags]
Second(x, flags) == [Simple(x, flags) EXCEPT !.key = k2]
Composite(kind, steps, x, flags) ==
  [kind |-> kind, steps |-> steps, state |-> x, key |-> k2, flags |-> flags]
Engine(steps, flags) == Composite("engine", steps, "none", flags)

(* Steps a flow does not use hang nowhere.                                  *)
Flow(tree) ==
  [n \in MCStep \cup {root} |-> IF n \in DOMAIN tree THEN tree[n] ELSE Simple("none", {})]

DB == {"keeper", "running", "throttler"}
K8s == {"keeper", "throttler"}
Keepers == {DB, K8s}

--------------------------------------------------------------------------------
(* Two steps in a row: the first with every option, the second throttled.   *)
FirstFlags == {{"predicate"}, {"predicate", "abort"}, {"continue"}, {"finish"}, {"skipCheck"}}
SecondFlags == {{}, {"throttled"}, {"throttled", "preset"}, {"throttled", "ensure"},
                {"throttled", "ensure", "preset"}}

TwoStepFlows ==
  {Flow(root :> Engine(<<a, b>>, env) @@ a :> Simple("A", f) @@ b :> Second("B", h))
    : env \in Keepers \cup {{"throttler"}}, f \in FirstFlags, h \in SecondFlags}

(* A parallel step over a group and a dynamic step, then a simple step; the *)
(* parallel step in a group that may continue on error, or in none.         *)
ParallelTrees ==
  {g :> Composite("grouped", <<a>>, "G", {}) @@ p :> Composite("parallel", <<g, d>>, "none", {}),
   g :> Composite("grouped", <<p>>, "G", {"continue"})
   @@ p :> Composite("parallel", <<a, d>>, "none", {})}

ParallelFlows ==
  {Flow(root :> Engine(<<IF t[g].steps = <<p>> THEN g ELSE p, c>>, env) @@ t
        @@ d :> Composite("dynamic", <<b>>, "none", {"predicate"})
        @@ a :> Simple("A", {})
        @@ b :> Second("B", bf)
        @@ c :> Simple("C", {}))
    : env \in Keepers, t \in ParallelTrees, bf \in {{}, {"continue"}}}

(* A group around a parallel step, then a dynamic step with State, or one   *)
(* without State that generates the parallel step.                          *)
NestedTrees ==
  {g :> Composite("grouped", <<a, p>>, "G", gf)
   @@ p :> Composite("parallel", ps, "none", {})
   @@ d :> Composite("dynamic", <<b>>, "D", {})
   @@ a :> Simple("A", {})
   @@ b :> Second("none", {})
   @@ c :> Simple("none", {"predicate"})
     : gf \in {{"continue"}, {"predicate", "abort"}}, ps \in {<< >>, <<c>>}}
  \cup
  {g :> Composite("grouped", <<a>>, "G", {})
   @@ d :> Composite("dynamic", <<p>>, "none", {})
   @@ p :> Composite("parallel", <<b, c>>, "none", {})
   @@ a :> Simple("A", {})
   @@ b :> Second("none", {})
   @@ c :> Simple("none", {})}

(* An operation in the middle of a flow, whose engine has no keeper and may *)
(* abort; and ExecuteOperation, whose engine has nothing at all.            *)
OperationFlows ==
  {Flow(root :> Engine(<<g, c>>, env)
        @@ g :> Composite("operation", <<a, d>>, "G", gf)
        @@ a :> Simple("A", {"predicate", "abort"})
        @@ d :> Composite("dynamic", <<b>>, "D", {})
        @@ b :> Simple("B", {})
        @@ c :> Simple("C", {}))
    : env \in Keepers, gf \in {{}, {"continue"}}}
  \cup
  {Flow(root :> Engine(<<g>>, {})
        @@ g :> Composite("operation", <<a, b>>, "none", {})
        @@ a :> Simple("A", {"continue"})
        @@ b :> Second("B", {"throttled"}))}

(* Environments in which the engine panics: a parallel step below a dynamic *)
(* step with State, or run by an engine with a context function, a          *)
(* throttled step with nobody to throttle it, and one with an interval too  *)
(* short to draw a pre-set stamp from.                                      *)
PanickingFlows ==
  {Flow(root :> Engine(<<a, d>>, DB)
        @@ a :> Simple("A", {})
        @@ d :> Composite("dynamic", <<p>>, "D", {})
        @@ p :> Composite("parallel", <<b, c>>, "none", {})),
   Flow(root :> Engine(<<g, b>>, DB \cup {"context"})
        @@ g :> Composite("grouped", <<a, p>>, "G", {"continue"})
        @@ a :> Simple("A", {})
        @@ p :> Composite("parallel", <<c>>, "none", {})
        @@ b :> Simple("B", {})),
   Flow(root :> Engine(<<a, b>>, {"keeper", "running"})
        @@ a :> Simple("A", {"continue"})
        @@ b :> Simple("B", {"throttled", "ensure"})),
   Flow(root :> Engine(<<a, g>>, DB)
        @@ a :> Simple("A", {"continue"})
        @@ g :> Composite("operation", <<b>>, "G", {})
        @@ b :> Second("B", {"throttled", "ensure"})),
   Flow(root :> Engine(<<a, b>>, DB)
        @@ a :> Simple("A", {"continue"})
        @@ b :> Second("B", {"throttled", "preset", "short"}))}

NestedFlows ==
  {Flow(root :> Engine(<<g, d>>, env) @@ t) : env \in Keepers, t \in NestedTrees}
  \cup OperationFlows \cup PanickingFlows

(* Flows small enough for the liveness checks.                              *)
ProgressFlows ==
  {Flow(root :> Engine(<<g, c>>, env)
        @@ g :> Composite("grouped", <<a, b>>, "none", {})
        @@ a :> Simple("A", {})
        @@ b :> Second("B", bf)
        @@ c :> Simple("C", {"continue"}))
    : env \in Keepers, bf \in {{}, {"throttled", "ensure"}, {"throttled", "preset"}}}
  \cup
  {Flow(root :> Engine(<<p, c>>, env)
        @@ p :> Composite("parallel", <<g, d>>, "none", {})
        @@ g :> Composite("grouped", <<a>>, "none", {})
        @@ d :> Composite("dynamic", <<b>>, "D", {})
        @@ a :> Simple("A", {})
        @@ b :> Simple("none", {})
        @@ c :> Simple("C", {"continue"}))
    : env \in Keepers}
--------------------------------------------------------------------------------
(* One flow for each disagreement between the code and what is said of it.  *)
AbortFlows ==
  {Flow(root :> Engine(<<a, b>>, DB)
        @@ a :> Simple("A", {"predicate", "abort"}) @@ b :> Simple("B", {}))}
================================================================================
