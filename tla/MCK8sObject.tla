------------------------------ MODULE MCK8sObject -------------------------------
(* K8sObject for model checking.                                            *)
EXTENDS K8sObject, TLC

CONSTANTS g1, g2, a, b, x

OneGoroutine == [g \in {g1} |-> {a, b}]
OneNameEach == g1 :> {a} @@ g2 :> {b}
MCForeignConditions == {[status |-> "False", reason |-> "Error"]}
MCSuccessReasons == {"Success", "Error"}
================================================================================
