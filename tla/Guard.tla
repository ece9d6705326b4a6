-------------------------------- MODULE Guard --------------------------------
(***************************************************************************)
(* One HeliusGuard (guard.py) that several threads call request() on, with *)
(* the CircuitBreaker, QuotaLimiter and KeyRotator it owns, none of which  *)
(* has a lock. CPython may switch threads at a call and at the end of a    *)
(* loop round, so a step of a thread is the code between two such points;  *)
(* an action is named for the code it runs and pc for the code to come.    *)
(*                                                                         *)
(* fn, the caller's request function, is the environment: it answers in    *)
(* any of the ways request() tells apart. A key whose monthly usage has    *)
(* run out upstream answers "max usage reached" until the next month.      *)
(* The RateLimiter only delays a thread at "slot". on_event is None.       *)
(***************************************************************************)
EXTENDS CircuitBreaker, QuotaLimiter, KeyRotator, FiniteSets

CONSTANTS
  Threads,           \* the threads that call request()
  Retries,           \* the argument retries of every request
  Costs,             \* the values of the argument credits
  MaxCost,           \* and their bound
  ExhaustedSeconds,  \* MONTHLY_EXHAUSTION_OPEN_SECONDS
  MonthsPass         \* whether upstream usage starts afresh in a behaviour

ASSUME GuardAssumption ==
  /\ IsFiniteSet(Threads)
  /\ Retries \in Nat
  /\ MaxCost \in Nat
  /\ Costs \subseteq 0 .. MaxCost
  /\ ExhaustedSeconds \in Nat \ {0}
  /\ MonthsPass \in BOOLEAN

VARIABLES
  pc,                \* what each thread is about to run
  attempt,           \* request's local attempt
  key,               \* the key of the call in flight
  offset,            \* rotate's local offset
  candidate,         \* rotate's local candidate
  spent,             \* external: keys that reported max usage this month
  overtaken,         \* history: requests under way when the circuit last opened
  traffic            \* history: "first_month" or "serial" while requests have
                     \* come one at a time, in the first month or beyond it,
                     \* and "overlapping" once two were under way together

callVars == <<key, offset, candidate, spent>>
history == <<overtaken, traffic>>
vars ==
  <<circuitVars, quotaVars, rotatorVars, pc, attempt, callVars, history>>

Rotating == {"rotate_mark", "rotate_read", "rotate_test"}

\* The control points of a request that the checks of guard.py:42 let in
InRequest ==
  {"slot", "flight", "fail_count", "fail_trip", "fail_clear", "fail_check",
   "backoff", "trip_long", "success", "charge", "charge_roll", "charge_add"}
  \cup Rotating

Checking == {"admit", "admit_roll", "admit_test"}

Inside == {t \in Threads : pc[t] \in InRequest}
Active == {t \in Threads : pc[t] # "idle"}

attempts == IF Retries > 1 THEN Retries ELSE 1
LastAttempt(t) == attempt[t] = attempts - 1

Init ==
  /\ CircuitInit /\ QuotaInit /\ RotatorInit
  /\ pc = [t \in Threads |-> "idle"]
  /\ attempt = [t \in Threads |-> 0]
  /\ key = [t \in Threads |-> 0]
  /\ offset = [t \in Threads |-> 0]
  /\ candidate = [t \in Threads |-> 0]
  /\ spent = {}
  /\ overtaken = {} /\ traffic = "first_month"

At(t, label) == pc[t] = label
Goto(t, label) == pc' = [pc EXCEPT ![t] = label] /\ UNCHANGED history

\* request returns: its locals are gone
Return(t) ==
  /\ pc' = [pc EXCEPT ![t] = "idle"]
  /\ attempt' = [attempt EXCEPT ![t] = 0]
  /\ overtaken' = overtaken \ {t}
  /\ UNCHANGED traffic

Continue(t, label) == Goto(t, label) /\ UNCHANGED attempt

\* _roll_if_needed: others may run after its test and after its reset
RollIfNeeded(t, test, reset, after) ==
  /\ \/ /\ At(t, test)
        /\ Continue(t, IF windowOver THEN reset ELSE after)
        /\ UNCHANGED quotaVars
     \/ At(t, reset) /\ Roll /\ Continue(t, after)
  /\ UNCHANGED <<circuitVars, rotatorVars, callVars>>

-----------------------------------------------------------------------------
(* Being let in: circuit.is_open() and then quota.is_exhausted() (line 42). *)
(* A request that finds the circuit open returns None without a trace.      *)

Arrive(t) ==
  /\ At(t, "idle")
  /\ pc' = [pc EXCEPT ![t] = "admit"]
  /\ traffic' = (IF Active = {} THEN traffic ELSE "overlapping")
  /\ UNCHANGED <<attempt, overtaken>>

\* Mutation of Start: no test of the circuit
StartUnchecked(t) ==
  /\ Arrive(t)
  /\ UNCHANGED <<circuitVars, quotaVars, rotatorVars, callVars>>

Start(t) ==
  /\ ~IsOpen
  /\ Arrive(t)
  /\ UNCHANGED <<circuitVars, quotaVars, rotatorVars, callVars>>

AdmitTest(t) ==
  /\ At(t, "admit_test")
  /\ IF IsExhausted THEN Return(t) ELSE Continue(t, "slot")
  /\ UNCHANGED <<circuitVars, quotaVars, rotatorVars, callVars>>

-----------------------------------------------------------------------------
(* One attempt: a slot of the rate limiter, the current key, the call.      *)

Call(t) ==
  /\ At(t, "slot")
  /\ key' = [key EXCEPT ![t] = index]
  /\ Continue(t, "flight")
  /\ UNCHANGED <<circuitVars, quotaVars, rotatorVars, offset, candidate, spent>>

\* The answer arrives and the call's key is forgotten
Answered(t) ==
  /\ At(t, "flight")
  /\ key' = [key EXCEPT ![t] = 0]
  /\ UNCHANGED <<circuitVars, quotaVars, rotatorVars, offset, candidate>>

RetryOrReturn(t) == IF LastAttempt(t) THEN Return(t) ELSE Continue(t, "backoff")

\* An exception of fn or a 5xx status
AnswerTransient(t) == Answered(t) /\ RetryOrReturn(t) /\ UNCHANGED spent

\* A 4xx status other than 429
AnswerRefused(t) == Answered(t) /\ Return(t) /\ UNCHANGED spent

\* A 429 that says "max usage reached"
AnswerMaxUsage(t) ==
  /\ Answered(t)
  /\ spent' = spent \cup {key[t]}
  /\ Continue(t, "rotate_mark")

\* Mutation of AnswerThrottled: the text of a 429 is not looked at
AnswerThrottledRotates(t) ==
  /\ Answered(t)
  /\ key[t] \notin spent
  /\ Continue(t, "rotate_mark")
  /\ UNCHANGED spent

\* Any other 429
AnswerThrottled(t) ==
  /\ Answered(t)
  /\ key[t] \notin spent
  /\ Continue(t, "fail_count")
  /\ UNCHANGED spent

AnswerOk(t) ==
  /\ Answered(t)
  /\ key[t] \notin spent
  /\ Continue(t, "success")
  /\ UNCHANGED spent

\* The sleep of lines 55, 74 and 81 is over
Backoff(t) ==
  /\ At(t, "backoff")
  /\ attempt' = [attempt EXCEPT ![t] = attempt[t] + 1]
  /\ Goto(t, "slot")
  /\ UNCHANGED <<circuitVars, quotaVars, rotatorVars, callVars>>

-----------------------------------------------------------------------------
(* circuit.record_failure and the test after it (lines 71 to 73).           *)

FailCount(t) ==
  /\ At(t, "fail_count")
  /\ CountFailure
  /\ Continue(t, IF ReachesThreshold THEN "fail_trip" ELSE "fail_check")
  /\ UNCHANGED <<openFor, quotaVars, rotatorVars, callVars>>

FailTrip(t) ==
  /\ At(t, "fail_trip")
  /\ Trip(OpenSeconds)
  /\ pc' = [pc EXCEPT ![t] = "fail_clear"]
  /\ overtaken' = Active
  /\ UNCHANGED <<failures, quotaVars, rotatorVars, attempt, callVars, traffic>>

FailClear(t) ==
  /\ At(t, "fail_clear")
  /\ ClearStreak
  /\ Continue(t, "fail_check")
  /\ UNCHANGED <<openFor, quotaVars, rotatorVars, callVars>>

\* Mutation of FailCheck: the circuit is not tested again before a retry
FailCheckUnchecked(t) ==
  /\ At(t, "fail_check")
  /\ RetryOrReturn(t)
  /\ UNCHANGED <<circuitVars, quotaVars, rotatorVars, callVars>>

FailCheck(t) ==
  /\ At(t, "fail_check")
  /\ IF IsOpen THEN Return(t) ELSE RetryOrReturn(t)
  /\ UNCHANGED <<circuitVars, quotaVars, rotatorVars, callVars>>

-----------------------------------------------------------------------------
(* rotator.rotate and what follows it (lines 66 to 70). A rotation goes     *)
(* round again without spending an attempt.                                 *)

RotateMark(t) ==
  /\ At(t, "rotate_mark")
  /\ MarkCurrent
  /\ offset' = [offset EXCEPT ![t] = 1]
  /\ Continue(t, "rotate_read")
  /\ UNCHANGED <<circuitVars, quotaVars, index, key, candidate, spent>>

RotateRead(t) ==
  /\ At(t, "rotate_read")
  /\ candidate' = [candidate EXCEPT ![t] = Candidate(offset[t])]
  /\ Continue(t, "rotate_test")
  /\ UNCHANGED <<circuitVars, quotaVars, rotatorVars, key, offset, spent>>

\* Mutation of RotateTake: the candidate's mark is not looked at
RotateTakeUnchecked(t) ==
  /\ At(t, "rotate_test")
  /\ index' = candidate[t]
  /\ offset' = [offset EXCEPT ![t] = 0]
  /\ candidate' = [candidate EXCEPT ![t] = 0]
  /\ Continue(t, "slot")
  /\ UNCHANGED <<circuitVars, quotaVars, exhausted, key, spent>>

\* Mutation of RotateTake: self.index is not assigned
RotateTakeInPlace(t) ==
  /\ At(t, "rotate_test")
  /\ candidate[t] \notin exhausted
  /\ offset' = [offset EXCEPT ![t] = 0]
  /\ candidate' = [candidate EXCEPT ![t] = 0]
  /\ Continue(t, "slot")
  /\ UNCHANGED <<circuitVars, quotaVars, rotatorVars, key, spent>>

\* The candidate is taken; the request goes on to its next call
RotateTake(t) ==
  /\ At(t, "rotate_test")
  /\ candidate[t] \notin exhausted
  /\ index' = candidate[t]
  /\ offset' = [offset EXCEPT ![t] = 0]
  /\ candidate' = [candidate EXCEPT ![t] = 0]
  /\ Continue(t, "slot")
  /\ UNCHANGED <<circuitVars, quotaVars, exhausted, key, spent>>

\* The candidate is marked: the next offset, or False after the last one
RotateSkip(t) ==
  /\ At(t, "rotate_test")
  /\ candidate[t] \in exhausted
  /\ candidate' = [candidate EXCEPT ![t] = 0]
  /\ IF offset[t] < NumKeys
       THEN /\ offset' = [offset EXCEPT ![t] = offset[t] + 1]
            /\ Continue(t, "rotate_read")
       ELSE /\ offset' = [offset EXCEPT ![t] = 0]
            /\ Continue(t, "trip_long")
  /\ UNCHANGED <<circuitVars, quotaVars, rotatorVars, key, spent>>

TripLong(t) ==
  /\ At(t, "trip_long")
  /\ Trip(ExhaustedSeconds)
  /\ pc' = [pc EXCEPT ![t] = "idle"]
  /\ attempt' = [attempt EXCEPT ![t] = 0]
  /\ overtaken' = Active \ {t}
  /\ UNCHANGED <<failures, quotaVars, rotatorVars, callVars, traffic>>

-----------------------------------------------------------------------------
(* circuit.record_success and quota.charge (lines 88 to 90).                *)

Success(t) ==
  /\ At(t, "success")
  /\ RecordSuccess
  /\ Continue(t, "charge")
  /\ UNCHANGED <<quotaVars, rotatorVars, callVars>>

ChargeAdd(t) ==
  /\ At(t, "charge_add")
  /\ \E credits \in Costs : AddCharge(credits)
  /\ Return(t)
  /\ UNCHANGED <<circuitVars, rotatorVars, callVars>>

-----------------------------------------------------------------------------
(* Time and the service.                                                    *)

CircuitTick ==
  /\ Elapse
  /\ UNCHANGED <<failures, quotaVars, rotatorVars, pc, attempt, callVars, history>>

\* The local credit window ends (its clock is not the upstream month's)
QuotaWindowEnds ==
  /\ ~windowOver
  /\ WindowEnds
  /\ UNCHANGED <<circuitVars, rotatorVars, pc, attempt, callVars, history>>

\* External: a new month upstream. It finds no request under way.
NewMonth ==
  /\ MonthsPass
  /\ Active = {}
  /\ spent # {}
  /\ spent' = {}
  /\ traffic' = (IF traffic = "overlapping" THEN traffic ELSE "serial")
  /\ UNCHANGED <<circuitVars, quotaVars, rotatorVars, pc, attempt, key, offset,
                 candidate, overtaken>>

Enter(t) ==
  Start(t) \/ AdmitTest(t) \/ RollIfNeeded(t, "admit", "admit_roll", "admit_test")

Attempt(t) ==
  \/ Call(t) \/ Backoff(t)
  \/ AnswerTransient(t) \/ AnswerRefused(t) \/ AnswerMaxUsage(t)
  \/ AnswerThrottled(t) \/ AnswerOk(t)

Fail(t) == FailCount(t) \/ FailTrip(t) \/ FailClear(t) \/ FailCheck(t)

Rotate(t) ==
  RotateMark(t) \/ RotateRead(t) \/ RotateTake(t) \/ RotateSkip(t) \/ TripLong(t)

Succeed(t) ==
  \/ Success(t) \/ ChargeAdd(t)
  \/ RollIfNeeded(t, "charge", "charge_roll", "charge_add")

Step(t) == Enter(t) \/ Attempt(t) \/ Fail(t) \/ Rotate(t) \/ Succeed(t)

Next == (\E t \in Threads : Step(t)) \/ CircuitTick \/ QuotaWindowEnds \/ NewMonth

Spec == Init /\ [][Next]_vars

\* A request under way goes on: the interpreter schedules its thread, fn
\* answers, a sleep ends and the rate limiter serves everyone who waits.
Fairness == \A t \in Threads : WF_vars(Step(t) /\ ~At(t, "idle"))

FairSpec == Spec /\ Fairness

-----------------------------------------------------------------------------
(* Properties.                                                              *)

TypeOK ==
  /\ failures \in Nat
  /\ openFor \in Nat
  /\ used \in Nat
  /\ windowOver \in BOOLEAN
  /\ index \in Keys
  /\ exhausted \subseteq Keys
  /\ pc \in [Threads -> {"idle"} \cup Checking \cup InRequest]
  /\ attempt \in [Threads -> 0 .. attempts - 1]
  /\ key \in [Threads -> Keys]
  /\ offset \in [Threads -> 0 .. NumKeys]
  /\ candidate \in [Threads -> Keys]
  /\ spent \subseteq Keys
  /\ overtaken \subseteq Threads
  /\ traffic \in {"first_month", "serial", "overlapping"}

\* The threads between the count that reaches the threshold and the reset
Tripping == {t \in Threads : pc[t] \in {"fail_trip", "fail_clear"}}

\* record_failure counts, trips and resets in three steps. Whatever runs
\* between them, the count passes the threshold by no more than the threads
\* that are still tripping: no streak at the threshold goes unanswered.
StreakAnswered == failures <= FailureThreshold - 1 + Cardinality(Tripping)

\* While the circuit is open, every request that is under way began before it
\* opened. The only test is the one on entry (guard.py:42), so stragglers of
\* the moment it opened are all that may still call or close it.
OpenAdmitsNobody == IsOpen => Active \subseteq overtaken

\* Unless all keys are marked, the current key is an unmarked one or some
\* thread is in rotate: threads that move index under each other's loops
\* (rotation.py:19-23) never leave the guard on a marked key.
RotationRecovers ==
  index \in exhausted /\ exhausted # Keys =>
    \E t \in Threads : pc[t] \in Rotating

\* The guard keeps the promise of Admission about the monthly credits.
Promise == INSTANCE Admission WITH Callers <- Threads, inside <- Inside
AdmissionKept == Promise!Spec

\* What follows for the credits: charging after the call (guard.py:89) what was
\* checked before it (guard.py:42), the guard overshoots its quota by less than
\* one full charge per thread, the requests under way included.
OvershootBounded ==
  used + MaxCost * Cardinality(Inside)
    <= MaxCredits - 1 + MaxCost * Cardinality(Threads)

\* Every request returns, although a rotation spends no attempt (guard.py:68).
RequestsReturn == \A t \in Threads : ~At(t, "idle") ~> At(t, "idle")

\* The circuit opens for ExhaustedSeconds only when every key has reported
\* that its monthly usage ran out: "rotates keys, then opens a 24h circuit if
\* all keys are exhausted" (screenshots/guard_flow.svg:17). Marks that outlive
\* their month (rotation.py:18), or land on another key than the one that was
\* called, make it do so with keys that work.
LongTripJustified == (\E t \in Threads : At(t, "trip_long")) => spent = Keys

\* It is true as long as the threads have called request one at a time and no
\* new month has come.
SerialTripJustified == traffic = "first_month" => LongTripJustified

\* As long as requests have come one at a time, the guard neither calls, sleeps
\* nor touches the circuit while it is open: the request that opened it returns
\* (guard.py:70 and 72), so no window is cut short and none is replaced by a
\* shorter one. One overlap is enough to end that: a straggler does all of it.
OpenMeansQuiet ==
  traffic # "overlapping" /\ IsOpen =>
    \A t \in Threads : pc[t] \in {"idle", "fail_clear", "fail_check"}

\* As long as requests have come one at a time and in one month, the guard at
\* rest is on a key that has not reported its usage, if there is one.
RestsOnLiveKey ==
  traffic = "first_month" /\ Active = {} /\ spent # Keys => index \notin spent
=============================================================================
