--------------------------- MODULE CircuitBreaker ---------------------------
(***************************************************************************)
(* The state of circuit.py's CircuitBreaker and the attribute updates its  *)
(* methods are made of. No lock guards them: a thread may be preempted     *)
(* between two of them, so the modules that EXTEND this one decide which   *)
(* updates happen in one step. open_until is kept as the time that is left *)
(* until it: 0 stands for a window that is over and for open_until = 0.0,  *)
(* which only the "reset" event tells apart.                               *)
(***************************************************************************)
EXTENDS Integers

CONSTANTS
  FailureThreshold,  \* failures in a row that open the circuit
  OpenSeconds        \* how long they open it

ASSUME CircuitAssumption ==
  /\ FailureThreshold \in Nat \ {0}
  /\ OpenSeconds \in Nat \ {0}

VARIABLES
  failures,          \* failures since the last success or trip
  openFor            \* time left until open_until

circuitVars == <<failures, openFor>>

CircuitInit == failures = 0 /\ openFor = 0

IsOpen == openFor > 0

CountFailure == failures' = failures + 1

\* Mutation of ReachesThreshold: > for >=
ReachesThresholdLate == failures + 1 > FailureThreshold

\* This failure is the one that reaches the threshold
ReachesThreshold == failures + 1 >= FailureThreshold

Trip(seconds) == openFor' = seconds

\* Mutation of ClearStreak: the count is not reset after a trip
ClearStreakForgotten == UNCHANGED failures

ClearStreak == failures' = 0

RecordSuccess == failures' = 0 /\ openFor' = 0

\* time.monotonic() moves on while the circuit is open
Elapse == IsOpen /\ openFor' = openFor - 1
=============================================================================
