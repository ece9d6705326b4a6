------------------------------ MODULE Admission ------------------------------
(***************************************************************************)
(* What a guard promises about the monthly credits. A request is let in    *)
(* only while the credits used are below MaxCredits, it is charged at most *)
(* once and at most MaxCost, when it leaves, and a new window starts from  *)
(* zero. The check is made when a request enters and the charge when it    *)
(* leaves, so used <= MaxCredits is no part of the promise: every request  *)
(* that is still inside may yet be charged (Guard's OvershootBounded).     *)
(***************************************************************************)
EXTENDS Integers

CONSTANTS
  Callers,           \* the threads or tasks that call request
  MaxCredits,        \* the credits of a window
  MaxCost            \* the most that one request charges

VARIABLES inside, used

vars == <<inside, used>>

Init == inside = {} /\ used = 0

\* The credits from which a request counts: a new window may begin with it
Base == {used, 0}

Admit(c) ==
  /\ c \notin inside
  /\ inside' = inside \cup {c}
  /\ \E base \in Base : base < MaxCredits /\ used' = base

\* A request leaves; one that got no answer to pay for charges nothing
Leave(c, cost) ==
  /\ c \in inside
  /\ inside' = inside \ {c}
  /\ \E base \in Base : used' = base + cost

Roll == used' = 0 /\ UNCHANGED inside

Next ==
  \/ \E c \in Callers : Admit(c) \/ \E cost \in 0 .. MaxCost : Leave(c, cost)
  \/ Roll

Spec == Init /\ [][Next]_vars
==============================================================================
