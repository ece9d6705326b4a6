---------------------------- MODULE WeightedCosts ----------------------------
(***************************************************************************)
(* weighted.py: what WeightedCostLimiter charges for a method. Methods are *)
(* taken as _normalize_key leaves them, and weights are whole, as they are *)
(* declared. The defaults and the caller's weights are one table.          *)
(***************************************************************************)
EXTENDS Integers

CONSTANTS
  Methods,           \* the methods that are charged for
  Weights,           \* the table: a function from some of them
  DefaultWeight,     \* what the others weigh
  Multipliers        \* the values of the argument multiplier

ASSUME WeightsAssumption ==
  /\ DOMAIN Weights \subseteq Methods
  /\ \A m \in DOMAIN Weights : Weights[m] \in Nat \ {0}
  /\ DefaultWeight \in Nat \ {0}
  /\ Multipliers \subseteq Nat \ {0}

WeightFor(method) ==
  IF method \in DOMAIN Weights THEN Weights[method] ELSE DefaultWeight

CreditsFor(method, multiplier) == WeightFor(method) * multiplier
==============================================================================
