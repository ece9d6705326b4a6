----------------------------- MODULE AsyncGuard -----------------------------
(***************************************************************************)
(* One AsyncGuard (aio.py) that several tasks of an event loop call        *)
(* request() on. A task gives way only where it awaits something that is   *)
(* not ready: its slot of the rate limiter, the answer of fn, the sleep    *)
(* before a retry. The locks of the circuit breaker and the quota tracker  *)
(* are never held across such an await (on_event is None), so they are     *)
(* never contended and all that a task does between two awaits is one      *)
(* step. At each await the task may be cancelled: CancelledError is no     *)
(* Exception, so request() neither retries nor records anything.           *)
(***************************************************************************)
EXTENDS CircuitBreaker, QuotaLimiter, KeyRotator, FiniteSets

CONSTANTS
  Tasks,
  Retries,           \* the argument retries of every request
  Costs,             \* the values of the argument credits
  MaxCost,           \* and their bound
  ExhaustedSeconds   \* MONTHLY_EXHAUSTION_OPEN_SECONDS

ASSUME AsyncGuardAssumption ==
  /\ IsFiniteSet(Tasks)
  /\ Retries \in Nat
  /\ MaxCost \in Nat
  /\ Costs \subseteq 0 .. MaxCost
  /\ ExhaustedSeconds \in Nat \ {0}

VARIABLES
  pc,                \* what each task awaits, "idle" outside request
  attempt,           \* request's local attempt
  key,               \* the key of the call in flight
  spent,             \* external: keys that have reported max usage
  overtaken          \* history: requests under way when the circuit last opened

vars ==
  <<circuitVars, quotaVars, rotatorVars, pc, attempt, key, spent, overtaken>>

Awaits == {"slot", "flight", "backoff"}

Active == {t \in Tasks : pc[t] # "idle"}

attempts == IF Retries > 1 THEN Retries ELSE 1
LastAttempt(t) == attempt[t] = attempts - 1

Init ==
  /\ CircuitInit /\ QuotaInit /\ RotatorInit
  /\ pc = [t \in Tasks |-> "idle"]
  /\ attempt = [t \in Tasks |-> 0]
  /\ key = [t \in Tasks |-> 0]
  /\ spent = {}
  /\ overtaken = {}

Await(t, what) ==
  /\ pc' = [pc EXCEPT ![t] = what]
  /\ UNCHANGED <<attempt, overtaken>>

Leave(t) ==
  /\ pc' = [pc EXCEPT ![t] = "idle"]
  /\ attempt' = [attempt EXCEPT ![t] = 0]

Return(t) == Leave(t) /\ overtaken' = overtaken \ {t}

RetryOrReturn(t) == IF LastAttempt(t) THEN Return(t) ELSE Await(t, "backoff")

\* trip(seconds), after which the request returns
TripAndReturn(t, seconds) ==
  Trip(seconds) /\ Leave(t) /\ overtaken' = Active \ {t}

RollIfNeeded == IF windowOver THEN Roll ELSE UNCHANGED quotaVars

Charge(credits) ==
  /\ used' = (IF windowOver THEN 0 ELSE used) + credits
  /\ windowOver' = FALSE

-----------------------------------------------------------------------------

\* The checks on entry (line 183). A request that is turned away leaves no trace.
Start(t) ==
  /\ pc[t] = "idle"
  /\ ~IsOpen
  /\ windowOver \/ ~IsExhausted
  /\ RollIfNeeded
  /\ Await(t, "slot")
  /\ UNCHANGED <<circuitVars, rotatorVars, key, spent>>

\* The rate limiter's turn has come: the current key is read and fn called
Call(t) ==
  /\ pc[t] = "slot"
  /\ key' = [key EXCEPT ![t] = index]
  /\ Await(t, "flight")
  /\ UNCHANGED <<circuitVars, quotaVars, rotatorVars, spent>>

Answered(t) ==
  /\ pc[t] = "flight"
  /\ key' = [key EXCEPT ![t] = 0]

\* An exception of fn or a 5xx status
AnswerTransient(t) ==
  /\ Answered(t)
  /\ RetryOrReturn(t)
  /\ UNCHANGED <<circuitVars, quotaVars, rotatorVars, spent>>

\* A 4xx status other than 429
AnswerRefused(t) ==
  /\ Answered(t)
  /\ Return(t)
  /\ UNCHANGED <<circuitVars, quotaVars, rotatorVars, spent>>

\* A 429 that says "max usage reached": rotate() marks the key that is current
\* now, whichever key the call used
AnswerMaxUsage(t) ==
  /\ Answered(t)
  /\ spent' = spent \cup {key[t]}
  /\ \/ RotateToNext /\ Await(t, "slot") /\ UNCHANGED openFor
     \/ RotateFails /\ TripAndReturn(t, ExhaustedSeconds)
  /\ UNCHANGED <<failures, quotaVars>>

\* Mutation of AnswerThrottled: the text of a 429 is not looked at
AnswerThrottledRotates(t) ==
  /\ Answered(t)
  /\ key[t] \notin spent
  /\ \/ RotateToNext /\ Await(t, "slot") /\ UNCHANGED openFor
     \/ RotateFails /\ TripAndReturn(t, ExhaustedSeconds)
  /\ UNCHANGED <<failures, quotaVars, spent>>

\* Any other 429: record_failure, and the test of the circuit after it
AnswerThrottled(t) ==
  /\ Answered(t)
  /\ key[t] \notin spent
  /\ IF ReachesThreshold
       THEN ClearStreak /\ TripAndReturn(t, OpenSeconds)
       ELSE /\ CountFailure
            /\ IF IsOpen THEN Return(t) ELSE RetryOrReturn(t)
            /\ UNCHANGED openFor
  /\ UNCHANGED <<quotaVars, rotatorVars, spent>>

\* record_success and charge
AnswerOk(t) ==
  /\ Answered(t)
  /\ key[t] \notin spent
  /\ RecordSuccess
  /\ \E credits \in Costs : Charge(credits)
  /\ Return(t)
  /\ UNCHANGED <<rotatorVars, spent>>

\* The sleep before a retry is over
Backoff(t) ==
  /\ pc[t] = "backoff"
  /\ pc' = [pc EXCEPT ![t] = "slot"]
  /\ attempt' = [attempt EXCEPT ![t] = attempt[t] + 1]
  /\ UNCHANGED <<circuitVars, quotaVars, rotatorVars, key, spent, overtaken>>

Cancel(t) ==
  /\ pc[t] \in Awaits
  /\ key' = [key EXCEPT ![t] = 0]
  /\ Return(t)
  /\ UNCHANGED <<circuitVars, quotaVars, rotatorVars, spent>>

CircuitTick ==
  /\ Elapse
  /\ UNCHANGED <<failures, quotaVars, rotatorVars, pc, attempt, key, spent, overtaken>>

QuotaWindowEnds ==
  /\ ~windowOver
  /\ WindowEnds
  /\ UNCHANGED <<circuitVars, rotatorVars, pc, attempt, key, spent, overtaken>>

Resume(t) ==
  \/ Call(t) \/ Backoff(t)
  \/ AnswerTransient(t) \/ AnswerRefused(t) \/ AnswerMaxUsage(t)
  \/ AnswerThrottled(t) \/ AnswerOk(t)

Next ==
  \/ \E t \in Tasks : Start(t) \/ Resume(t) \/ Cancel(t)
  \/ CircuitTick
  \/ QuotaWindowEnds

Spec == Init /\ [][Next]_vars

\* fn answers, sleeps end and the rate limiter serves all that wait in turn.
Fairness == \A t \in Tasks : WF_vars(Resume(t))

FairSpec == Spec /\ Fairness

-----------------------------------------------------------------------------
(* Properties.                                                              *)

TypeOK ==
  /\ failures \in 0 .. FailureThreshold - 1
  /\ openFor \in Nat
  /\ used \in Nat
  /\ windowOver \in BOOLEAN
  /\ index \in Keys
  /\ exhausted \subseteq Keys
  /\ pc \in [Tasks -> {"idle"} \cup Awaits]
  /\ attempt \in [Tasks -> 0 .. attempts - 1]
  /\ key \in [Tasks -> Keys]
  /\ spent \subseteq Keys
  /\ overtaken \subseteq Tasks

\* While the circuit is open, every request under way began before it opened,
\* cancelled and restarted requests included (aio.py:183).
OpenAdmitsNobody == IsOpen => Active \subseteq overtaken

\* rotate() marks the key that is current when the answer comes (aio.py:209), not
\* the one that ran out. What that can cost is bounded: a key that has run out is
\* never called again as long as another is unmarked, so it costs at most one
\* mark for every task that was under way with it.
MarksBounded ==
  Cardinality(exhausted) <= Cardinality(Tasks) * Cardinality(spent)

\* The guard keeps the promise of Admission: a task is inside from the checks
\* on entry to its return or cancellation.
Promise == INSTANCE Admission WITH Callers <- Tasks, inside <- Active
AdmissionKept == Promise!Spec

\* Charging after the call (aio.py:232) what was checked before it (aio.py:183),
\* the guard overshoots its quota by less than one full charge per task.
OvershootBounded ==
  used + MaxCost * Cardinality(Active)
    <= MaxCredits - 1 + MaxCost * Cardinality(Tasks)

\* Every request returns or is cancelled, however often keys are rotated.
RequestsReturn == \A t \in Tasks : pc[t] # "idle" ~> pc[t] = "idle"
=============================================================================
