------------------------------ MODULE MCThrottling ------------------------------
(* Instances of Throttling for model checking.                              *)
EXTENDS Throttling, TLC

CONSTANTS c1, c2, k1, k2

With(interval, ensure, preset) ==
  [interval |-> interval, ensure |-> ensure, preset |-> preset]

EveryKind ==
  {With(1, FALSE, FALSE), With(3, FALSE, TRUE), With(3, TRUE, FALSE), With(2, TRUE, TRUE)}
OneMinute == {With(1, FALSE, FALSE), With(1, TRUE, FALSE), With(1, FALSE, TRUE)}
OneInterval == {With(2, FALSE, FALSE)}

OneForAll == [k \in Key |-> Caller]
OneEach == (k1 :> {c1}) @@ (k2 :> {c2})
OneResets == (k1 :> {c1}) @@ (k2 :> {})
FirstOnly == [k \in Key |-> {c1}]
LongAgo == -100
================================================================================
