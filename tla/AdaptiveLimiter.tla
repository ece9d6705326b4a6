--------------------------- MODULE AdaptiveLimiter ---------------------------
(***************************************************************************)
(* adaptive.py: AdaptiveLimiter around a RateLimiter, called by threads,   *)
(* and with Cancel AsyncAdaptiveLimiter around an AsyncRateLimiter, called *)
(* by tasks. acquire passes two gates one after the other, each with a     *)
(* lock that is held while its holder sleeps: the wrapped limiter, then    *)
(* one whose interval follows the adaptive rate. Callers report the answer *)
(* they got with on_success or on_429, which take the second lock.         *)
(* Rates are whole numbers; the decrease factor is 1 / DecreaseDivisor.    *)
(* on_event returns.                                                       *)
(***************************************************************************)
EXTENDS RateLimiter, FiniteSets

CONSTANTS
  MinRate, MaxRate,  \* min_rate and max_rate
  DecreaseDivisor,   \* 1 / decrease_factor
  IncreaseStep,      \* increase_step
  SuccessThreshold,  \* success_threshold
  MaxRetryAfter,     \* the longest Retry-After of the service
  Cancellable,       \* whether a caller may be cancelled (asyncio)
  MaxElapsed         \* length of the longest window that is watched

ASSUME AdaptiveAssumption ==
  /\ IsFiniteSet(Callers)
  /\ MinRate \in Nat \ {0} /\ MaxRate \in Nat /\ MinRate <= MaxRate
  /\ DecreaseDivisor \in Nat \ {0, 1}
  /\ IncreaseStep \in Nat \ {0}
  /\ SuccessThreshold \in Nat \ {0}
  /\ MaxRetryAfter \in Nat
  /\ Cancellable \in BOOLEAN
  /\ MaxSince * MinRate >= Second
  /\ MaxElapsed \in Nat

VARIABLES
  rate, successes,   \* the AIMD state
  gateLock,          \* _lock
  sinceGate,         \* time since _last
  sent, elapsed      \* history: acquires that returned in the window that is
                     \* watched, and its length so far

aimd == <<rate, successes>>
gateVars == <<gateLock, sinceGate>>
watch == <<sent, elapsed>>
vars == <<slotVars, pc, left, aimd, gateVars, watch>>

Unwatched == -1

Init ==
  /\ SlotInit
  /\ pc = [c \in Callers |-> "idle"]
  /\ left = [c \in Callers |-> 0]
  /\ rate \in MinRate .. MaxRate
  /\ successes = 0
  /\ gateLock = Nobody /\ sinceGate \in 0 .. MaxSince
  /\ sent = 0 /\ elapsed = Unwatched

-----------------------------------------------------------------------------
\* The AIMD state

Greater(a, b) == IF a >= b THEN a ELSE b
Lesser(a, b) == IF a <= b THEN a ELSE b

CutRate == Greater(MinRate, rate \div DecreaseDivisor)
RaisedRate == Lesser(MaxRate, rate + IncreaseStep)

Register429 == successes' = 0 /\ rate' = CutRate

\* Mutation of RegisterSuccess: a streak that is not over is forgotten
RegisterSuccessForgets ==
  /\ successes' = 0
  /\ rate' = (IF successes + 1 >= SuccessThreshold THEN RaisedRate ELSE rate)

RegisterSuccess ==
  \/ /\ rate >= MaxRate
     /\ successes' = 0 /\ UNCHANGED rate
  \/ /\ rate < MaxRate
     /\ successes + 1 < SuccessThreshold
     /\ successes' = successes + 1 /\ UNCHANGED rate
  \/ /\ rate < MaxRate
     /\ successes + 1 >= SuccessThreshold
     /\ successes' = 0 /\ rate' = RaisedRate

-----------------------------------------------------------------------------
\* acquire

Request(c) ==
  /\ pc[c] = "idle"
  /\ Goto(c, "queued")
  /\ UNCHANGED <<slotVars, left, aimd, gateVars, watch>>

EnterSlot(c) == TakeSlot(c) /\ UNCHANGED <<aimd, gateVars, watch>>

\* The wrapped limiter lets the caller pass, on to the adaptive lock
LeaveSlot(c) == PassSlot(c, "waiting") /\ UNCHANGED <<aimd, gateVars, watch>>

EnterGate(c) ==
  /\ pc[c] = "waiting"
  /\ gateLock = Nobody
  /\ gateLock' = c
  /\ \E ticks \in Waits(sinceGate, rate) : Asleep(c, "pacing", ticks)
  /\ UNCHANGED <<slotVars, aimd, sinceGate, watch>>

\* acquire returns, and the caller uses the service
LeaveGate(c) ==
  /\ pc[c] = "pacing"
  /\ left[c] = 0
  /\ sinceGate' = 0
  /\ gateLock' = Nobody
  /\ Goto(c, "calling")
  /\ sent' = (IF elapsed = Unwatched THEN sent ELSE sent + 1)
  /\ UNCHANGED <<slotVars, left, aimd, elapsed>>

-----------------------------------------------------------------------------
\* Reports

\* The service answers; the caller is about to report that, or has nothing to
Answer(c) ==
  /\ pc[c] = "calling"
  /\ \E label \in {"idle", "succeeded", "throttled"} : Goto(c, label)
  /\ UNCHANGED <<slotVars, left, aimd, gateVars, watch>>

\* on_success, once it has the lock
OnSuccess(c) ==
  /\ pc[c] = "succeeded"
  /\ gateLock = Nobody
  /\ RegisterSuccess
  /\ Goto(c, "idle")
  /\ UNCHANGED <<slotVars, left, gateVars, watch>>

\* Mutation of On429: the rate is cut without the lock
On429Unlocked(c) ==
  /\ pc[c] = "throttled"
  /\ Register429
  /\ \E ticks \in 0 .. MaxRetryAfter : Asleep(c, "pausing", ticks)
  /\ UNCHANGED <<slotVars, gateVars, watch>>

\* on_429, once it has the lock: it gives the lock back before it sleeps for
\* the Retry-After, if there is one
On429(c) ==
  /\ pc[c] = "throttled"
  /\ gateLock = Nobody
  /\ Register429
  /\ \E ticks \in 0 .. MaxRetryAfter : Asleep(c, "pausing", ticks)
  /\ UNCHANGED <<slotVars, gateVars, watch>>

Resume(c) ==
  /\ pc[c] = "pausing"
  /\ left[c] = 0
  /\ Goto(c, "idle")
  /\ UNCHANGED <<slotVars, left, aimd, gateVars, watch>>

-----------------------------------------------------------------------------

Free(lock, c) == IF lock = c THEN Nobody ELSE lock

\* CancelledError where a task awaits: a lock, or a sleep. The gate it was to
\* pass is left as it was, and a 429 it was to report is never registered.
Cancel(c) ==
  /\ Cancellable
  /\ pc[c] \notin {"idle", "calling"}
  /\ Asleep(c, "idle", 0)
  /\ slotLock' = Free(slotLock, c)
  /\ gateLock' = Free(gateLock, c)
  /\ UNCHANGED <<sinceSlot, aimd, sinceGate, watch>>

\* Time passes for the sleepers and for the watch. A caller whose sleep is over
\* may be late to go on.
Tick ==
  /\ sinceSlot' = Later(sinceSlot)
  /\ sinceGate' = Later(sinceGate)
  /\ left' = [c \in Callers |-> Greater(0, left[c] - 1)]
  /\ IF elapsed \in 0 .. MaxElapsed - 1
       THEN elapsed' = elapsed + 1 /\ UNCHANGED sent
       ELSE elapsed' = Unwatched /\ sent' = 0
  /\ UNCHANGED <<slotLock, pc, aimd, gateLock>>

Watch ==
  /\ elapsed = Unwatched
  /\ elapsed' = 0
  /\ UNCHANGED <<slotVars, pc, left, aimd, gateVars, sent>>

Proceed(c) ==
  \/ EnterSlot(c) \/ LeaveSlot(c) \/ EnterGate(c) \/ LeaveGate(c)
  \/ Answer(c) \/ OnSuccess(c) \/ On429(c) \/ Resume(c)

Next ==
  \/ \E c \in Callers : Request(c) \/ Proceed(c) \/ Cancel(c)
  \/ Tick
  \/ Watch

Spec == Init /\ [][Next]_vars

\* Time passes, callers run and the service answers. Neither lock promises a
\* turn to anybody.
Fairness == WF_vars(Tick) /\ \A c \in Callers : WF_vars(Proceed(c))

FairSpec == Spec /\ Fairness

-----------------------------------------------------------------------------

Labels == {"idle", "queued", "spacing", "waiting", "pacing", "calling",
           "succeeded", "throttled", "pausing"}

\* The rate stays within its bounds and the streak below its threshold.
TypeOK ==
  /\ slotLock \in Callers \cup {Nobody} /\ gateLock \in Callers \cup {Nobody}
  /\ sinceSlot \in 0 .. MaxSince /\ sinceGate \in 0 .. MaxSince
  /\ pc \in [Callers -> Labels]
  /\ left \in [Callers -> Nat]
  /\ rate \in MinRate .. MaxRate
  /\ successes \in 0 .. SuccessThreshold - 1
  /\ sent \in Nat
  /\ elapsed \in Nat \cup {Unwatched}

\* Two acquires return no closer together than the interval of the rate at the
\* moment of the second: a cut that is registered binds whoever comes next, also
\* the callers already queued, and none slips through on a sleep computed before
\* it (adaptive.py:144-151).
Paced == INSTANCE Spacing WITH since <- sinceGate
PaceKept == Paced!Spec

\* The wrapped RateLimiter keeps its own spacing under late wake-ups and
\* cancelled sleepers.
Slotted == INSTANCE Spacing WITH since <- sinceSlot, rate <- Rps,
                                 MinRate <- Rps, MaxRate <- Rps
SlotKept == Slotted!Spec

\* The wrapped limiter as a floor (adaptive.py:15-17): not for the gap between
\* two requests, since callers it has spaced bunch up at the second lock and
\* leave it at the adaptive interval, but for their number. A window of any length
\* sees at most one request for each interval of the wrapped limiter begun in it,
\* and one for each caller that was between the two gates.
FloorHolds ==
  elapsed # Unwatched =>
    (sent - 1 - Cardinality(Callers)) * Second <= elapsed * Rps

\* When throttling stops and successes go on, the rate comes back to its ceiling
\* and stays there.
RateRecovers ==
  /\ <>[][~ \E c \in Callers : On429(c)]_vars
  /\ []<><<\E c \in Callers : OnSuccess(c)>>_vars
  => <>[](rate = MaxRate)
==============================================================================
