----------------------------- MODULE PredicateFuncs -----------------------------
(***************************************************************************)
(* The predicates of steps (lifecycle/predicate_func.go).  A PredicateFunc *)
(* is a closure: what it was built from is fixed when the steps are built, *)
(* but the conditions are behind a pointer and are read when the engine    *)
(* calls it.                                                               *)
(***************************************************************************)
EXTENDS Integers, Sequences

CONSTANTS
  PredicateFunc,  \* the closures
  Built           \* what each was built by, and from what

(* An object of type any is "nil" only when it is the nil interface: a nil  *)
(* pointer in it is something.                                              *)
IsTrueCondition(x) == [by |-> "IsTrueCondition", condition |-> x]
IsNotTrueCondition(x) == [by |-> "IsNotTrueCondition", condition |-> x]
Or(ps) == [by |-> "Or", of |-> ps]
And(ps) == [by |-> "And", of |-> ps]
IsNotFunc(p) == [by |-> "IsNotFunc", of |-> <<p>>]
IsNil(obj) == [by |-> "IsNil", obj |-> obj]
IsNotNil(obj) == [by |-> "IsNotNil", obj |-> obj]
IsEmptyString(str) == [by |-> "IsEmptyString", str |-> str]
BoolValue(value) == [by |-> "BoolValue", value |-> value]

(* The closures that one calls.                                             *)
Parts(p) ==
  IF Built[p].by \in {"Or", "And", "IsNotFunc"}
  THEN {Built[p].of[i] : i \in DOMAIN Built[p].of}
  ELSE {}

(* A closure is built of closures that were there before it: none calls     *)
(* itself.                                                                  *)
ASSUME BuiltAssumption ==
  /\ \A p \in PredicateFunc :
       /\ Parts(p) \subseteq PredicateFunc
       /\ Built[p].by = "IsNotFunc" => DOMAIN Built[p].of = {1}
  /\ \A ps \in SUBSET PredicateFunc :
       ps # {} => \E p \in ps : Parts(p) \cap ps = {}

(* What a call of p returns, when true is the set of conditions that are    *)
(* True, meta.IsStatusConditionTrue, and holds says what the closures in it *)
(* return.                                                                  *)
Returns(p, holds, true) ==
  LET built == Built[p]
  IN \/ built.by = "IsTrueCondition" /\ built.condition \in true
     \/ built.by = "IsNotTrueCondition" /\ built.condition \notin true
     \/ built.by = "Or" /\ \E i \in DOMAIN built.of : holds[built.of[i]]
     \/ built.by = "And" /\ \A i \in DOMAIN built.of : holds[built.of[i]]
     \/ built.by = "IsNotFunc" /\ ~holds[built.of[1]]
     \/ built.by = "IsNil" /\ built.obj = "nil"
     \/ built.by = "IsNotNil" /\ built.obj # "nil"
     \/ built.by = "IsEmptyString" /\ built.str = ""
     \/ built.by = "BoolValue" /\ built.value

HoldsGiven(true) ==
  LET holds[p \in PredicateFunc] == Returns(p, holds, true)
  IN holds
================================================================================
