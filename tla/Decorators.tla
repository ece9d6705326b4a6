----------------------------- MODULE Decorators -----------------------------
(***************************************************************************)
(* An async function under the three decorators of decorators.py, in the   *)
(* order of README.md:78 (rate_limited, then with_circuit, then            *)
(* with_quota), that several tasks call. The circuit, asyncio's or the     *)
(* other, reports to a PrometheusExporter; the quota has a state file, so  *)
(* that its methods may raise. A task gives way where it awaits its slot   *)
(* of the rate limiter and the answer of the function, and may be          *)
(* cancelled there; the locks of the primitives are never held across an   *)
(* await, so all that is done between is one step. open_until = 0.0 and a  *)
(* window that is over differ here: unreset tells them apart.              *)
(***************************************************************************)
EXTENDS CircuitBreaker, QuotaLimiter, PrometheusExporter, FiniteSets

CONSTANTS
  Tasks,
  Credits            \* the argument credits of with_quota

ASSUME DecoratorsAssumption ==
  /\ IsFiniteSet(Tasks)
  /\ Credits \in Nat

VARIABLES
  unreset,           \* open_until # 0.0
  awaits             \* what each task awaits, "idle" outside the function

breaker == <<circuitVars, unreset, circuitOpen>>
decoratedVars == <<breaker, quotaVars, awaits>>

DecoratedInit ==
  /\ CircuitInit /\ QuotaInit /\ GaugeInit
  /\ unreset = FALSE
  /\ awaits = [t \in Tasks |-> "idle"]

Step(t, from, to) == awaits[t] = from /\ awaits' = [awaits EXCEPT ![t] = to]

-----------------------------------------------------------------------------
\* The primitives, with their events

\* Mutation of ReportFailure: it opens the circuit without trip(), so that the
\* event is missing
ReportFailureSilent ==
  IF ReachesThreshold
    THEN Trip(OpenSeconds) /\ ClearStreak /\ unreset' = TRUE /\ UNCHANGED circuitOpen
    ELSE CountFailure /\ UNCHANGED <<openFor, unreset, circuitOpen>>

\* record_failure
ReportFailure ==
  IF ReachesThreshold
    THEN Trip(OpenSeconds) /\ ClearStreak /\ unreset' = TRUE /\ OnEvent("tripped")
    ELSE CountFailure /\ UNCHANGED <<openFor, unreset, circuitOpen>>

\* Mutation of ReportSuccess: only a streak of failures is worth a "reset"
ReportSuccessAfterFailures ==
  /\ RecordSuccess
  /\ unreset' = FALSE
  /\ IF failures # 0 THEN OnEvent("reset") ELSE UNCHANGED circuitOpen

\* record_success, which says "reset" if there is anything to reset
ReportSuccess ==
  /\ RecordSuccess
  /\ unreset' = FALSE
  /\ IF failures # 0 \/ unreset THEN OnEvent("reset") ELSE UNCHANGED circuitOpen

RollIfNeeded == IF windowOver THEN Roll ELSE UNCHANGED quotaVars

Charge ==
  /\ used' = (IF windowOver THEN 0 ELSE used) + Credits
  /\ windowOver' = FALSE

-----------------------------------------------------------------------------
\* The wrappers, from outside inwards

\* The function is called: rate_limited awaits a slot
Call(t) == Step(t, "idle", "slot") /\ UNCHANGED <<breaker, quotaVars>>

\* The slot is there and with_circuit finds the circuit open: None
TurnedAway(t) ==
  /\ Step(t, "slot", "idle")
  /\ IsOpen
  /\ UNCHANGED <<breaker, quotaVars>>

\* with_quota finds the quota exhausted and returns None, which with_circuit
\* takes for a success
Skip(t) ==
  /\ Step(t, "slot", "idle")
  /\ ~IsOpen
  /\ ~windowOver /\ IsExhausted
  /\ ReportSuccess
  /\ UNCHANGED quotaVars

\* Mutation of Enter: the quota is not asked
EnterUnchecked(t) ==
  /\ Step(t, "slot", "flight")
  /\ ~IsOpen
  /\ RollIfNeeded
  /\ UNCHANGED breaker

\* Both let the task through and the function runs
Enter(t) ==
  /\ Step(t, "slot", "flight")
  /\ ~IsOpen
  /\ windowOver \/ ~IsExhausted
  /\ RollIfNeeded
  /\ UNCHANGED breaker

\* is_exhausted starts a new window and raises as it saves it: a failure
RollRaises(t) ==
  /\ Step(t, "slot", "idle")
  /\ ~IsOpen
  /\ windowOver /\ Roll
  /\ ReportFailure

\* The function returns: charge, then record_success
Succeed(t) ==
  /\ Step(t, "flight", "idle")
  /\ Charge
  /\ ReportSuccess

\* ... and charge raises as it saves the count, or before that the new window it
\* begins: a failure too
ChargeRaises(t) ==
  /\ Step(t, "flight", "idle")
  /\ Charge \/ (windowOver /\ Roll)
  /\ ReportFailure

\* Mutation of Fail: the exception goes past with_circuit, as CancelledError does
FailUncaught(t) ==
  /\ Step(t, "flight", "idle")
  /\ UNCHANGED <<breaker, quotaVars>>

\* The function raises: record_failure, no charge
Fail(t) ==
  /\ Step(t, "flight", "idle")
  /\ ReportFailure
  /\ UNCHANGED quotaVars

\* CancelledError is no Exception: nothing is recorded or charged
CancelCall(t) ==
  /\ Step(t, "slot", "idle") \/ Step(t, "flight", "idle")
  /\ UNCHANGED <<breaker, quotaVars>>

-----------------------------------------------------------------------------

BreakerTick == Elapse /\ UNCHANGED <<failures, unreset, circuitOpen, quotaVars, awaits>>

QuotaWindowEnds == ~windowOver /\ WindowEnds /\ UNCHANGED <<breaker, awaits>>

\* Calls that count as successes, and as failures
Good(t) == Succeed(t) \/ Skip(t)
Bad(t) == Fail(t) \/ ChargeRaises(t) \/ RollRaises(t)

DecoratedNext ==
  \/ \E t \in Tasks :
       Call(t) \/ TurnedAway(t) \/ Enter(t) \/ Good(t) \/ Bad(t) \/ CancelCall(t)
  \/ BreakerTick
  \/ QuotaWindowEnds

DecoratedSpec == DecoratedInit /\ [][DecoratedNext]_decoratedVars

-----------------------------------------------------------------------------

DecoratedTypeOK ==
  /\ failures \in 0 .. FailureThreshold - 1
  /\ openFor \in 0 .. OpenSeconds
  /\ used \in Nat
  /\ windowOver \in BOOLEAN
  /\ circuitOpen \in {0, 1}
  /\ unreset \in BOOLEAN
  /\ awaits \in [Tasks -> {"idle", "slot", "flight"}]

\* The decorators keep the promise of Admission for the calls of the function
\* itself (decorators.py:91-95): it is called only below max_credits, and charged
\* at most once for each call, whatever raises and whoever is cancelled.
InFlight == {t \in Tasks : awaits[t] = "flight"}
Promise == INSTANCE Admission WITH
  Callers <- Tasks, MaxCost <- Credits, inside <- InFlight
AdmissionKept == Promise!Spec

\* The calls under way together overshoot the quota (decorators.py:91, charged at
\* line 94) by less than what one of them is charged for each task.
OvershootBounded ==
  used + Credits * Cardinality(InFlight)
    <= MaxCredits - 1 + Credits * Cardinality(Tasks)

\* While the circuit is open the gauge says so (prometheus.py:59), and no success
\* of a call that was under way takes that back without closing the circuit.
OpenShown == IsOpen => circuitOpen = 1

\* Once calls no longer fail, and as long as some succeed, the gauge comes to say
\* that the circuit is closed, and stays so: also when its window has run out,
\* of which there is no event (circuit.py:33).
GaugeRecovers ==
  /\ <>[][~ \E t \in Tasks : Bad(t)]_decoratedVars
  /\ []<><<\E t \in Tasks : Good(t)>>_decoratedVars
  => <>[](circuitOpen = 0)

\* A function that only fails opens the circuit again and again as long as it is
\* called: neither the successes of calls that with_quota skipped nor the calls
\* that are cancelled meanwhile put that off for ever (decorators.py:57-60).
DeadServiceTrips ==
  /\ <>[][~ \E t \in Tasks : Succeed(t) \/ ChargeRaises(t)]_decoratedVars
  /\ []<><<\E t \in Tasks : Fail(t)>>_decoratedVars
  => []<>IsOpen
=============================================================================
