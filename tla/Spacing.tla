------------------------------- MODULE Spacing -------------------------------
(***************************************************************************)
(* What a spacing limiter promises: a grant comes no sooner after the one  *)
(* before than the interval 1/rate, with the rate of the moment of the     *)
(* grant. The rate may be retuned at any time, the interval that runs      *)
(* included; it never is in the step that grants.                          *)
(***************************************************************************)
EXTENDS Integers

CONSTANTS
  Second,            \* ticks in the unit of time that rates are given for
  MinRate, MaxRate,
  MaxSince           \* time since a grant beyond which nothing changes

VARIABLES since, rate

vars == <<since, rate>>

Rates == MinRate .. MaxRate

Init == since \in 0 .. MaxSince /\ rate \in Rates

Grant == since * rate >= Second /\ since' = 0 /\ UNCHANGED rate

Retune == rate' \in Rates /\ UNCHANGED since

Tick == since' = (IF since < MaxSince THEN since + 1 ELSE since) /\ UNCHANGED rate

Next == Grant \/ Retune \/ Tick

Spec == Init /\ [][Next]_vars
==============================================================================
