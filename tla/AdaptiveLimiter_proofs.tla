----------------------- MODULE AdaptiveLimiter_proofs -----------------------
(***************************************************************************)
(* Both gates of AdaptiveLimiter keep their spacing, for every rate, clock *)
(* and number of callers. The argument is the same for the two: a caller   *)
(* that sleeps in a gate holds its lock, and what is left of its sleep and *)
(* the time since the last grant make up an interval of the rate, which no *)
(* one changes while the lock is held. From the first gate's spacing       *)
(* follows what the wrapped limiter is a floor for: each grant moves the   *)
(* window on by an interval.                                               *)
(***************************************************************************)
EXTENDS AdaptiveLimiter, FiniteSetTheorems, TLAPS

LEMMA Products ==
  ASSUME NEW a \in Nat, NEW b \in Nat
  PROVE  /\ a * b \in Nat
         /\ (a + 1) * b = a * b + b
         /\ 0 * b = 0
         /\ b * a = a * b
  OBVIOUS

LEMMA Monotone ==
  ASSUME NEW m \in Nat, NEW a \in Nat, NEW b \in Nat, a <= b
  PROVE  m * a <= m * b
<1>1. PICK d \in Nat : b = a + d
  <2>1. b - a \in Nat /\ b = a + (b - a)
    OBVIOUS
  <2> QED  BY <2>1
<1>2. m * b = m * a + m * d /\ m * d \in Nat /\ m * a \in Nat
  BY <1>1
<1> QED  BY <1>2

LEMMA DivisionBound ==
  ASSUME NEW n \in Nat, NEW d \in Nat \ {0}
  PROVE  n \div d \in 0 .. n
  BY SMTT(30)

LEMMA RateBounds == MinRate \in Nat \ {0} /\ MaxRate \in Nat /\ MinRate <= MaxRate
  BY AdaptiveAssumption

LEMMA CutRateType ==
  ASSUME rate \in MinRate .. MaxRate
  PROVE  CutRate \in MinRate .. MaxRate
<1>1. rate \in Nat /\ DecreaseDivisor \in Nat \ {0}
  BY AdaptiveAssumption
<1>2. rate \div DecreaseDivisor \in 0 .. rate
  BY <1>1, DivisionBound
<1> QED  BY <1>1, <1>2, RateBounds DEF CutRate, Greater

LEMMA RegisterType ==
  ASSUME rate \in MinRate .. MaxRate, successes \in 0 .. SuccessThreshold - 1,
         Register429 \/ RegisterSuccess
  PROVE  rate' \in MinRate .. MaxRate /\ successes' \in 0 .. SuccessThreshold - 1
<1>1. CASE Register429
  BY <1>1, CutRateType, AdaptiveAssumption DEF Register429
<1>2. CASE RegisterSuccess
  BY <1>2, AdaptiveAssumption DEF RegisterSuccess, RaisedRate, Lesser
<1> QED  BY <1>1, <1>2

LEMMA TypeInit == Init => TypeOK
  BY AdaptiveAssumption, RateLimiterAssumption
  DEF Init, TypeOK, SlotInit, Labels, Unwatched

LEMMA TypeStep == TypeOK /\ [Next]_vars => TypeOK'
<1> SUFFICES ASSUME TypeOK, [Next]_vars PROVE TypeOK'
  OBVIOUS
<1>0. MaxSince \in Nat /\ MaxRetryAfter \in Nat
  BY AdaptiveAssumption, RateLimiterAssumption
<1> USE DEF TypeOK, Labels, Goto, slotVars, gateVars, aimd, watch
<1>1. ASSUME NEW c \in Callers, Request(c) PROVE TypeOK'
  BY <1>1 DEF Request
<1>2. ASSUME NEW c \in Callers, EnterSlot(c) PROVE TypeOK'
  BY <1>0, <1>2 DEF EnterSlot, TakeSlot, Asleep, Waits
<1>3. ASSUME NEW c \in Callers, LeaveSlot(c) PROVE TypeOK'
  BY <1>0, <1>3 DEF LeaveSlot, PassSlot
<1>4. ASSUME NEW c \in Callers, EnterGate(c) PROVE TypeOK'
  BY <1>0, <1>4 DEF EnterGate, Asleep, Waits
<1>5. ASSUME NEW c \in Callers, LeaveGate(c) PROVE TypeOK'
  BY <1>0, <1>5 DEF LeaveGate
<1>6. ASSUME NEW c \in Callers, Answer(c) PROVE TypeOK'
  BY <1>6 DEF Answer
<1>7. ASSUME NEW c \in Callers, OnSuccess(c) PROVE TypeOK'
  BY <1>7, RegisterType DEF OnSuccess
<1>8. ASSUME NEW c \in Callers, On429(c) PROVE TypeOK'
  BY <1>0, <1>8, RegisterType DEF On429, Asleep
<1>9. ASSUME NEW c \in Callers, Resume(c) PROVE TypeOK'
  BY <1>9 DEF Resume
<1>10. ASSUME NEW c \in Callers, Cancel(c) PROVE TypeOK'
  BY <1>10 DEF Cancel, Asleep, Free
<1>11. CASE Tick
  BY <1>0, <1>11 DEF Tick, Later, Greater, Unwatched
<1>12. CASE Watch
  BY <1>12 DEF Watch
<1>13. CASE UNCHANGED vars
  BY <1>13 DEF vars
<1> QED  BY <1>1, <1>2, <1>3, <1>4, <1>5, <1>6, <1>7, <1>8, <1>9, <1>10, <1>11,
         <1>12, <1>13 DEF Next, Proceed

\* The variables keep their types; whatever is reported, the rate stays between
\* min_rate and max_rate.
THEOREM TypeTheorem == Spec => []TypeOK
  BY TypeInit, TypeStep, PTL DEF Spec

-----------------------------------------------------------------------------
(* Spacing.                                                                 *)

\* since ticks after a grant, an interval of the rate is over
Over(since, perSecond) == since * perSecond >= Second

\* Whoever sleeps in a gate holds its lock, and has an interval left to sleep
SlotInv ==
  \A c \in Callers :
    pc[c] = "spacing" => slotLock = c /\ Over(sinceSlot + left[c], Rps)

GateInv ==
  \A c \in Callers :
    pc[c] = "pacing" => gateLock = c /\ Over(sinceGate + left[c], rate)

IInv == TypeOK /\ SlotInv /\ GateInv

\* More time, and a higher rate, leave an interval over
LEMMA OverMonotone ==
  ASSUME NEW s \in Nat, NEW t \in Nat, NEW r \in Nat, s <= t, Over(s, r)
  PROVE  Over(t, r)
<1>1. r * s <= r * t /\ r * s = s * r /\ r * t = t * r
  BY Monotone, Products
<1> QED  BY <1>1, RateLimiterAssumption DEF Over

LEMMA OverAtLast ==
  /\ Over(MaxSince, Rps)
  /\ \A r \in MinRate .. MaxRate : Over(MaxSince, r)
<1>1. Over(MaxSince, Rps)
  BY RateLimiterAssumption DEF Over
<1>2. ASSUME NEW r \in MinRate .. MaxRate PROVE Over(MaxSince, r)
  <2>1. MaxSince \in Nat /\ MinRate \in Nat /\ r \in Nat /\ MinRate <= r
    BY RateBounds, RateLimiterAssumption
  <2>2. MaxSince * MinRate <= MaxSince * r /\ MaxSince * r \in Nat
    BY <2>1, Monotone, Products
  <2>3. MaxSince * MinRate >= Second /\ MaxSince * MinRate \in Nat
    BY <2>1, AdaptiveAssumption, Products
  <2> QED  BY <2>2, <2>3, RateLimiterAssumption DEF Over
<1> QED  BY <1>1, <1>2

\* A tick takes from what is left to sleep no more than it adds to the time
LEMMA OverOnTick ==
  ASSUME NEW since \in 0 .. MaxSince, NEW rest \in Nat, NEW r \in Nat,
         Over(since + rest, r), Over(MaxSince, r)
  PROVE  Over(Later(since) + Greater(0, rest - 1), r)
<1>0. MaxSince \in Nat
  BY RateLimiterAssumption
<1>1. CASE since < MaxSince
  <2>1. /\ Later(since) + Greater(0, rest - 1) \in Nat
        /\ since + rest <= Later(since) + Greater(0, rest - 1)
        /\ since + rest \in Nat
    BY <1>0, <1>1 DEF Later, Greater
  <2> QED  BY <2>1, OverMonotone
<1>2. CASE since = MaxSince
  <2>1. /\ Later(since) + Greater(0, rest - 1) \in Nat
        /\ MaxSince <= Later(since) + Greater(0, rest - 1)
    BY <1>0, <1>2 DEF Later, Greater
  <2> QED  BY <1>0, <2>1, OverMonotone
<1> QED  BY <1>0, <1>1, <1>2

LEMMA SlotStep == TypeOK /\ SlotInv /\ [Next]_vars => SlotInv'
<1> SUFFICES ASSUME TypeOK, SlotInv, [Next]_vars,
                    NEW d \in Callers, pc'[d] = "spacing"
             PROVE  slotLock' = d /\ Over(sinceSlot' + left'[d], Rps)
  BY DEF SlotInv, Over
<1>0. /\ pc \in [Callers -> Labels] /\ left \in [Callers -> Nat]
      /\ sinceSlot \in 0 .. MaxSince
      /\ Nobody \notin Callers /\ MaxSince \in Nat /\ Rps \in Nat
      /\ pc[d] = "spacing" => slotLock = d /\ Over(sinceSlot + left[d], Rps)
  BY RateLimiterAssumption DEF TypeOK, SlotInv
<1> USE DEF Goto, slotVars, gateVars, aimd, watch
<1>1. ASSUME NEW c \in Callers, EnterSlot(c)
      PROVE  slotLock' = d /\ Over(sinceSlot' + left'[d], Rps)
  <2>1. d = c
    BY <1>0, <1>1 DEF EnterSlot, TakeSlot, Asleep
  <2> QED  BY <1>0, <1>1, <2>1 DEF EnterSlot, TakeSlot, Asleep, Waits, Over
<1>2. ASSUME NEW c \in Callers, LeaveSlot(c)
      PROVE  slotLock' = d /\ Over(sinceSlot' + left'[d], Rps)
  <2>1. pc[d] = "spacing" /\ d # c /\ slotLock = c
    BY <1>0, <1>2 DEF LeaveSlot, PassSlot, SlotInv
  <2> QED  BY <1>0, <2>1
<1>3. ASSUME NEW c \in Callers, Cancel(c)
      PROVE  slotLock' = d /\ Over(sinceSlot' + left'[d], Rps)
  <2>1. pc[d] = "spacing" /\ d # c
    BY <1>0, <1>3 DEF Cancel, Asleep
  <2> QED  BY <1>0, <1>3, <2>1 DEF Cancel, Asleep, Free
<1>4. CASE Tick
  <2>1. /\ slotLock = d /\ slotLock' = slotLock
        /\ sinceSlot' = Later(sinceSlot) /\ left'[d] = Greater(0, left[d] - 1)
        /\ Over(sinceSlot + left[d], Rps)
    BY <1>0, <1>4 DEF Tick
  <2> QED  BY <1>0, <2>1, OverAtLast, OverOnTick
<1>5. ASSUME NEW c \in Callers,
             \/ Request(c) \/ EnterGate(c) \/ LeaveGate(c) \/ Answer(c)
             \/ OnSuccess(c) \/ On429(c) \/ Resume(c)
      PROVE  slotLock' = d /\ Over(sinceSlot' + left'[d], Rps)
  <2>1. /\ UNCHANGED slotVars /\ pc[d] = "spacing"
        /\ left'[d] = left[d]
    BY <1>0, <1>5 DEF Request, EnterGate, LeaveGate, Answer, OnSuccess, On429,
                      Resume, Asleep
  <2> QED  BY <1>0, <2>1
<1>6. CASE Watch \/ UNCHANGED vars
  BY <1>0, <1>6 DEF Watch, vars
<1> QED  BY <1>1, <1>2, <1>3, <1>4, <1>5, <1>6 DEF Next, Proceed

LEMMA GateStep == TypeOK /\ TypeOK' /\ GateInv /\ [Next]_vars => GateInv'
<1> SUFFICES ASSUME TypeOK, TypeOK', GateInv, [Next]_vars,
                    NEW d \in Callers, pc'[d] = "pacing"
             PROVE  gateLock' = d /\ Over(sinceGate' + left'[d], rate')
  BY DEF GateInv, Over
<1>0. /\ pc \in [Callers -> Labels] /\ left \in [Callers -> Nat]
      /\ sinceGate \in 0 .. MaxSince /\ rate \in Nat /\ rate \in MinRate .. MaxRate
      /\ Nobody \notin Callers /\ MaxSince \in Nat
      /\ pc[d] = "pacing" => gateLock = d /\ Over(sinceGate + left[d], rate)
  BY RateLimiterAssumption, RateBounds DEF TypeOK, GateInv
<1> USE DEF Goto, slotVars, gateVars, aimd, watch
<1>1. ASSUME NEW c \in Callers, EnterGate(c)
      PROVE  gateLock' = d /\ Over(sinceGate' + left'[d], rate')
  <2>1. d = c
    BY <1>0, <1>1 DEF EnterGate, Asleep
  <2> QED  BY <1>0, <1>1, <2>1 DEF EnterGate, Asleep, Waits, Over
<1>2. ASSUME NEW c \in Callers, LeaveGate(c)
      PROVE  gateLock' = d /\ Over(sinceGate' + left'[d], rate')
  <2>1. pc[d] = "pacing" /\ d # c /\ gateLock = c
    BY <1>0, <1>2 DEF LeaveGate, GateInv
  <2> QED  BY <1>0, <2>1
<1>3. ASSUME NEW c \in Callers, OnSuccess(c) \/ On429(c)
      PROVE  gateLock' = d /\ Over(sinceGate' + left'[d], rate')
  <2>1. pc[d] = "pacing" /\ gateLock = Nobody
    BY <1>0, <1>3 DEF OnSuccess, On429, Asleep
  <2> QED  BY <1>0, <2>1
<1>4. ASSUME NEW c \in Callers, Cancel(c)
      PROVE  gateLock' = d /\ Over(sinceGate' + left'[d], rate')
  <2>1. pc[d] = "pacing" /\ d # c
    BY <1>0, <1>4 DEF Cancel, Asleep
  <2> QED  BY <1>0, <1>4, <2>1 DEF Cancel, Asleep, Free
<1>5. CASE Tick
  <2>1. /\ gateLock = d /\ UNCHANGED <<gateLock, rate>>
        /\ sinceGate' = Later(sinceGate) /\ left'[d] = Greater(0, left[d] - 1)
        /\ Over(sinceGate + left[d], rate)
    BY <1>0, <1>5 DEF Tick
  <2> QED  BY <1>0, <2>1, OverAtLast, OverOnTick
<1>6. ASSUME NEW c \in Callers,
             \/ Request(c) \/ EnterSlot(c) \/ LeaveSlot(c) \/ Answer(c) \/ Resume(c)
      PROVE  gateLock' = d /\ Over(sinceGate' + left'[d], rate')
  <2>1. UNCHANGED <<gateVars, rate>> /\ pc[d] = "pacing" /\ left'[d] = left[d]
    BY <1>0, <1>6 DEF Request, EnterSlot, TakeSlot, LeaveSlot, PassSlot, Answer,
                      Resume, Asleep
  <2> QED  BY <1>0, <2>1
<1>7. CASE Watch \/ UNCHANGED vars
  BY <1>0, <1>7 DEF Watch, vars
<1> QED  BY <1>1, <1>2, <1>3, <1>4, <1>5, <1>6, <1>7 DEF Next, Proceed

LEMMA Invariant == Spec => []IInv
<1>1. Init => IInv
  BY TypeInit DEF Init, IInv, SlotInv, GateInv
<1>2. IInv /\ [Next]_vars => IInv'
  BY TypeStep, SlotStep, GateStep DEF IInv
<1> QED  BY <1>1, <1>2, PTL DEF Spec

-----------------------------------------------------------------------------
(* Refinement.                                                              *)

\* RateLimiter keeps its spacing, however late its callers wake up and whoever is
\* cancelled in their sleep.
THEOREM SlotTheorem == Spec => SlotKept
<1>1. Init => Slotted!Init
  BY RateLimiterAssumption DEF Init, SlotInit, Slotted!Init, Slotted!Rates
<1>2. IInv /\ [Next]_vars => [Slotted!Next]_Slotted!vars
  <2> SUFFICES ASSUME IInv, [Next]_vars
               PROVE  Slotted!Next \/ UNCHANGED sinceSlot
    BY DEF Slotted!vars
  <2> USE DEF slotVars
  <2>1. ASSUME NEW c \in Callers, LeaveSlot(c) PROVE Slotted!Grant
    <3>1. left[c] = 0 /\ Over(sinceSlot + left[c], Rps) /\ sinceSlot' = 0
      BY <2>1 DEF LeaveSlot, PassSlot, IInv, SlotInv
    <3>2. sinceSlot \in Nat
      BY RateLimiterAssumption DEF IInv, TypeOK
    <3> QED  BY <3>1, <3>2 DEF Over, Slotted!Grant
  <2>2. CASE Tick
    <3>1. sinceSlot' = Later(sinceSlot)
      BY <2>2 DEF Tick
    <3> QED  BY <3>1 DEF Later, Slotted!Tick, Slotted!Next
  <2>3. ASSUME NEW c \in Callers,
               \/ Request(c) \/ EnterSlot(c) \/ EnterGate(c) \/ LeaveGate(c)
               \/ Answer(c) \/ OnSuccess(c) \/ On429(c) \/ Resume(c) \/ Cancel(c)
        PROVE  UNCHANGED sinceSlot
    BY <2>3 DEF Request, EnterSlot, TakeSlot, EnterGate, LeaveGate, Answer,
                OnSuccess, On429, Resume, Cancel
  <2>4. CASE Watch \/ UNCHANGED vars
    BY <2>4 DEF Watch, vars
  <2> QED  BY <2>1, <2>2, <2>3, <2>4 DEF Next, Proceed, Slotted!Next
<1> QED  BY <1>1, <1>2, Invariant, PTL DEF Spec, SlotKept, Slotted!Spec

\* Two acquires return no closer together than the interval of the adaptive rate
\* at the second: a cut binds the callers that are already queued.
THEOREM PaceTheorem == Spec => PaceKept
<1>1. Init => Paced!Init
  BY DEF Init, Paced!Init, Paced!Rates
<1>2. IInv /\ TypeOK' /\ [Next]_vars => [Paced!Next]_Paced!vars
  <2> SUFFICES ASSUME IInv, TypeOK', [Next]_vars
               PROVE  Paced!Next \/ UNCHANGED <<sinceGate, rate>>
    BY DEF Paced!vars
  <2> USE DEF gateVars, aimd
  <2>1. ASSUME NEW c \in Callers, LeaveGate(c) PROVE Paced!Grant
    <3>1. /\ left[c] = 0 /\ Over(sinceGate + left[c], rate)
          /\ sinceGate' = 0 /\ UNCHANGED rate
      BY <2>1 DEF LeaveGate, IInv, GateInv
    <3>2. sinceGate \in Nat
      BY RateLimiterAssumption DEF IInv, TypeOK
    <3> QED  BY <3>1, <3>2 DEF Over, Paced!Grant
  <2>2. ASSUME NEW c \in Callers, OnSuccess(c) \/ On429(c) PROVE Paced!Retune
    BY <2>2 DEF OnSuccess, On429, Paced!Retune, Paced!Rates, TypeOK
  <2>3. CASE Tick
    <3>1. sinceGate' = Later(sinceGate) /\ UNCHANGED rate
      BY <2>3 DEF Tick
    <3> QED  BY <3>1 DEF Later, Paced!Tick, Paced!Next
  <2>4. ASSUME NEW c \in Callers,
               \/ Request(c) \/ EnterSlot(c) \/ LeaveSlot(c) \/ EnterGate(c)
               \/ Answer(c) \/ Resume(c) \/ Cancel(c)
        PROVE  UNCHANGED <<sinceGate, rate>>
    BY <2>4 DEF Request, EnterSlot, LeaveSlot, EnterGate, Answer, Resume, Cancel
  <2>5. CASE Watch \/ UNCHANGED vars
    BY <2>5 DEF Watch, vars
  <2> QED  BY <2>1, <2>2, <2>3, <2>4, <2>5 DEF Next, Proceed, Paced!Next
<1> QED  BY <1>1, <1>2, Invariant, TypeTheorem, PTL DEF Spec, PaceKept, Paced!Spec

-----------------------------------------------------------------------------
(* The floor. Each of the callers between the gates, and each request of    *)
(* the window, has passed the wrapped limiter; all but those who were       *)
(* between the gates when the window began did so in it.                    *)

Between == {c \in Callers : pc[c] \in {"waiting", "pacing"}}

\* At least so many have passed the wrapped limiter in the window
Passed == sent + Cardinality(Between) - Cardinality(Callers)

\* k grants, the last of them since ago, fit in a window
Fits(k, since, window) == k <= 0 \/ (k - 1) * Second + since * Rps <= window * Rps

FloorInv ==
  /\ elapsed # Unwatched => Fits(Passed, sinceSlot, elapsed)
  /\ elapsed = Unwatched => sent = 0

LEMMA NoMoreThanNone ==
  ASSUME NEW m \in Int, m <= 0, NEW s \in Nat
  PROVE  m * s <= 0 /\ m * s \in Int
  OBVIOUS

LEMMA FitsFewer ==
  ASSUME NEW k \in Int, NEW n \in Int, n <= k, NEW s \in Nat, NEW w \in Nat, Fits(k, s, w)
  PROVE  Fits(n, s, w)
<1>0. Second \in Nat /\ s * Rps \in Nat /\ w * Rps \in Nat
  BY RateLimiterAssumption, Products
<1>1. CASE n > 0
  <2>1. n - 1 \in Nat /\ k - 1 \in Nat /\ n - 1 <= k - 1
    BY <1>1
  <2>2. /\ (n - 1) * Second <= (k - 1) * Second
        /\ (n - 1) * Second \in Nat /\ (k - 1) * Second \in Nat
    BY <1>0, <2>1, Monotone, Products
  <2>3. (k - 1) * Second + s * Rps <= w * Rps
    BY <1>1 DEF Fits
  <2> QED  BY <1>0, <2>2, <2>3 DEF Fits
<1> QED  BY <1>1 DEF Fits

LEMMA FitsOnGrant ==
  ASSUME NEW k \in Int, NEW s \in Nat, NEW w \in Nat, Fits(k, s, w), Over(s, Rps)
  PROVE  Fits(k + 1, 0, w)
<1>0. Second \in Nat /\ s * Rps \in Nat /\ w * Rps \in Nat /\ 0 * Rps = 0
  BY RateLimiterAssumption, Products
<1>1. CASE k > 0
  <2>1. (k - 1) * Second \in Nat /\ k * Second = (k - 1) * Second + Second
    <3>1. k - 1 \in Nat /\ k = (k - 1) + 1
      BY <1>1
    <3> QED  BY <1>0, <3>1, Products
  <2>2. (k - 1) * Second + s * Rps <= w * Rps
    BY <1>1 DEF Fits
  <2>3. (k + 1) - 1 = k
    OBVIOUS
  <2> QED  BY <1>0, <2>1, <2>2, <2>3 DEF Fits, Over
<1>2. CASE k = 0
  <2>1. (k + 1) - 1 = 0 /\ 0 * Second = 0
    BY <1>0, <1>2, Products
  <2> QED  BY <1>0, <2>1 DEF Fits
<1>3. CASE k < 0
  BY <1>3 DEF Fits
<1> QED  BY <1>1, <1>2, <1>3

LEMMA FitsOnTick ==
  ASSUME NEW k \in Int, NEW s \in Nat, NEW w \in Nat, Fits(k, s, w)
  PROVE  Fits(k, Later(s), w + 1)
<1>0. /\ Second \in Nat /\ Rps \in Nat /\ s * Rps \in Nat /\ w * Rps \in Nat
      /\ (s + 1) * Rps = s * Rps + Rps /\ (w + 1) * Rps = w * Rps + Rps
  BY RateLimiterAssumption, Products
<1>1. CASE k > 0
  <2>1. (k - 1) * Second \in Nat
    <3>1. k - 1 \in Nat
      BY <1>1
    <3> QED  BY <1>0, <3>1, Products
  <2>2. (k - 1) * Second + s * Rps <= w * Rps
    BY <1>1 DEF Fits
  <2>3. Later(s) * Rps \in {s * Rps, s * Rps + Rps}
    BY <1>0 DEF Later
  <2> QED  BY <1>0, <2>1, <2>2, <2>3 DEF Fits
<1> QED  BY <1>1 DEF Fits

\* How a step of one caller changes the number of those between the gates
LEMMA BetweenFinite ==
  /\ Cardinality(Callers) \in Nat
  /\ IsFiniteSet(Between) /\ Cardinality(Between) \in 0 .. Cardinality(Callers)
<1>1. Between \subseteq Callers
  BY DEF Between
<1> QED  BY <1>1, AdaptiveAssumption, FS_Subset, FS_CardinalityType

LEMMA BetweenStep ==
  ASSUME TypeOK, NEW c \in Callers, NEW label, pc' = [pc EXCEPT ![c] = label]
  PROVE  Cardinality(Between') = Cardinality(Between)
           + (IF label \in {"waiting", "pacing"} THEN 1 ELSE 0)
           - (IF pc[c] \in {"waiting", "pacing"} THEN 1 ELSE 0)
<1>0. pc \in [Callers -> Labels] /\ IsFiniteSet(Between) /\ Cardinality(Between) \in Nat
  BY BetweenFinite DEF TypeOK
<1>1. CASE label \in {"waiting", "pacing"} /\ c \notin Between
  <2>1. Between' = Between \cup {c}
    BY <1>0, <1>1 DEF Between
  <2> QED  BY <1>0, <1>1, <2>1, FS_AddElement DEF Between
<1>2. CASE label \notin {"waiting", "pacing"} /\ c \in Between
  <2>1. Between' = Between \ {c}
    BY <1>0, <1>2 DEF Between
  <2>2. Cardinality(Between \ {c}) = Cardinality(Between) - 1
    BY <1>0, <1>2, FS_RemoveElement
  <2>3. pc[c] \in {"waiting", "pacing"}
    BY <1>2 DEF Between
  <2> QED  BY <1>0, <1>2, <2>1, <2>2, <2>3
<1>3. CASE label \in {"waiting", "pacing"} <=> c \in Between
  <2>1. Between' = Between
    BY <1>0, <1>3 DEF Between
  <2> QED  BY <1>0, <1>3, <2>1 DEF Between
<1> QED  BY <1>1, <1>2, <1>3

LEMMA UnwatchedStep ==
  ASSUME FloorInv, [Next]_vars, elapsed' = Unwatched
  PROVE  sent' = 0
<1>1. \/ elapsed = Unwatched /\ UNCHANGED sent
      \/ Tick
      \/ \E c \in Callers : LeaveGate(c)
  BY DEF Next, Proceed, Request, EnterSlot, TakeSlot, LeaveSlot, PassSlot, EnterGate, Answer,
         OnSuccess, On429, Resume, Cancel, Watch, watch, vars, Unwatched
<1> QED  BY <1>1 DEF FloorInv, Tick, LeaveGate, Unwatched

LEMMA FloorStep == IInv /\ FloorInv /\ [Next]_vars => FloorInv'
<1> SUFFICES ASSUME IInv, FloorInv, [Next]_vars, elapsed' # Unwatched
             PROVE  Fits(Passed', sinceSlot', elapsed')
  BY UnwatchedStep DEF FloorInv, Fits
<1>0. /\ Cardinality(Callers) \in Nat /\ Cardinality(Between) \in Nat /\ sent \in Nat
      /\ Passed \in Int /\ sinceSlot \in Nat /\ elapsed \in Nat \cup {Unwatched}
      /\ TypeOK /\ MaxSince \in Nat /\ MaxElapsed \in Nat
  BY BetweenFinite, RateLimiterAssumption, AdaptiveAssumption DEF IInv, TypeOK, Passed
<1>00. elapsed # Unwatched => elapsed \in Nat /\ Fits(Passed, sinceSlot, elapsed)
  BY <1>0 DEF FloorInv
<1> USE DEF watch, slotVars
\* A caller's step that neither grants nor begins a window lets nobody pass
<1>1. ASSUME NEW c \in Callers,
             \/ Request(c) \/ EnterSlot(c) \/ EnterGate(c) \/ LeaveGate(c)
             \/ Answer(c) \/ OnSuccess(c) \/ On429(c) \/ Resume(c) \/ Cancel(c)
      PROVE  Fits(Passed', sinceSlot', elapsed')
  <2>1. UNCHANGED <<sinceSlot, elapsed>>
    BY <1>1 DEF Request, EnterSlot, TakeSlot, EnterGate, LeaveGate, Answer, OnSuccess,
                On429, Resume, Cancel
  <2>2. Passed' \in Int /\ Passed' <= Passed
    <3>1. ASSUME Request(c) \/ EnterSlot(c) \/ Answer(c) \/ OnSuccess(c) \/ On429(c)
                   \/ Resume(c) \/ EnterGate(c)
          PROVE  Cardinality(Between') = Cardinality(Between) /\ sent' = sent
      <4>1. PICK label :
              /\ pc' = [pc EXCEPT ![c] = label]
              /\ label \in {"waiting", "pacing"} <=> pc[c] \in {"waiting", "pacing"}
        BY <3>1 DEF Request, EnterSlot, TakeSlot, Answer, OnSuccess, On429, Resume,
                    EnterGate, Goto, Asleep
      <4>2. sent' = sent
        BY <3>1 DEF Request, EnterSlot, Answer, OnSuccess, On429, Resume, EnterGate
      <4>3. Cardinality(Between') = Cardinality(Between)
              + (IF label \in {"waiting", "pacing"} THEN 1 ELSE 0)
              - (IF pc[c] \in {"waiting", "pacing"} THEN 1 ELSE 0)
        BY <1>0, <4>1, BetweenStep
      <4> QED  BY <1>0, <4>1, <4>2, <4>3
    <3>2. ASSUME LeaveGate(c)
          PROVE  Cardinality(Between') = Cardinality(Between) - 1 /\ sent' = sent + 1
      <4>1. /\ pc[c] = "pacing" /\ pc' = [pc EXCEPT ![c] = "calling"]
            /\ sent' = sent + 1
        BY <1>0, <2>1, <3>2 DEF LeaveGate, Goto
      <4>2. Cardinality(Between') = Cardinality(Between)
              + (IF "calling" \in {"waiting", "pacing"} THEN 1 ELSE 0)
              - (IF pc[c] \in {"waiting", "pacing"} THEN 1 ELSE 0)
        BY <1>0, <4>1, BetweenStep
      <4> QED  BY <1>0, <4>1, <4>2
    <3>3. ASSUME Cancel(c)
          PROVE  /\ Cardinality(Between') \in {Cardinality(Between), Cardinality(Between) - 1}
                 /\ sent' = sent
      <4>1. pc' = [pc EXCEPT ![c] = "idle"] /\ sent' = sent
        BY <3>3 DEF Cancel, Asleep, Goto
      <4>2. Cardinality(Between') = Cardinality(Between)
              + (IF "idle" \in {"waiting", "pacing"} THEN 1 ELSE 0)
              - (IF pc[c] \in {"waiting", "pacing"} THEN 1 ELSE 0)
        BY <1>0, <4>1, BetweenStep
      <4> QED  BY <1>0, <4>1, <4>2
    <3> QED  BY <1>0, <1>1, <3>1, <3>2, <3>3 DEF Passed
  <2> QED  BY <1>0, <1>00, <2>1, <2>2, FitsFewer
<1>2. ASSUME NEW c \in Callers, LeaveSlot(c)
      PROVE  Fits(Passed', sinceSlot', elapsed')
  <2>1. /\ pc[c] = "spacing" /\ pc' = [pc EXCEPT ![c] = "waiting"]
        /\ left[c] = 0 /\ sinceSlot' = 0 /\ UNCHANGED watch
    BY <1>2 DEF LeaveSlot, PassSlot, Goto
  <2>2. Over(sinceSlot, Rps)
    <3>1. Over(sinceSlot + left[c], Rps)
      BY <2>1 DEF IInv, SlotInv
    <3> QED  BY <1>0, <2>1, <3>1 DEF Over
  <2>3. Cardinality(Between') = Cardinality(Between) + 1
    <3>1. Cardinality(Between') = Cardinality(Between)
            + (IF "waiting" \in {"waiting", "pacing"} THEN 1 ELSE 0)
            - (IF pc[c] \in {"waiting", "pacing"} THEN 1 ELSE 0)
      BY <1>0, <2>1, BetweenStep
    <3> QED  BY <1>0, <2>1, <3>1
  <2>4. Passed' = Passed + 1
    BY <1>0, <2>1, <2>3 DEF Passed
  <2> QED  BY <1>0, <1>00, <2>1, <2>2, <2>4, FitsOnGrant
<1>3. CASE Tick
  <2>1. /\ elapsed # Unwatched /\ elapsed' = elapsed + 1 /\ UNCHANGED <<sent, pc>>
        /\ sinceSlot' = Later(sinceSlot)
    BY <1>0, <1>3 DEF Tick, Unwatched
  <2>2. Passed' = Passed
    BY <2>1 DEF Passed, Between
  <2> QED  BY <1>0, <1>00, <2>1, <2>2, FitsOnTick
<1>4. CASE Watch
  <2>1. sent' = sent /\ elapsed = Unwatched /\ elapsed' = 0 /\ UNCHANGED <<sinceSlot, pc>>
    BY <1>4 DEF Watch
  <2>2. Between' = Between /\ sent' = 0
    BY <2>1 DEF Between, FloorInv
  <2>3. Passed' <= 0
    BY <1>0, <2>2, BetweenFinite DEF Passed
  <2> QED  BY <2>3 DEF Fits
<1>5. CASE UNCHANGED vars
  <2>1. UNCHANGED <<sent, elapsed, sinceSlot, pc>>
    BY <1>5 DEF vars
  <2>2. Passed' = Passed
    BY <2>1 DEF Passed, Between
  <2> QED  BY <1>00, <2>1, <2>2
<1> QED  BY <1>1, <1>2, <1>3, <1>4, <1>5 DEF Next, Proceed

\* The wrapped limiter bounds the requests of every window (adaptive.py:15-17): one
\* for each of its intervals begun in it, and one for each caller between the gates.
THEOREM FloorTheorem == Spec => []FloorHolds
<1>1. Init => FloorInv
  BY DEF Init, FloorInv
<1>2. IInv /\ FloorInv => FloorHolds
  <2> SUFFICES ASSUME IInv, FloorInv, elapsed # Unwatched
               PROVE  (sent - 1 - Cardinality(Callers)) * Second <= elapsed * Rps
    BY DEF FloorHolds
  <2> DEFINE n == sent - Cardinality(Callers)
  <2>1. /\ n \in Int /\ Passed \in Int /\ n <= Passed
        /\ sinceSlot \in Nat /\ elapsed \in Nat
    BY BetweenFinite, RateLimiterAssumption DEF IInv, TypeOK, Passed
  <2>2. Fits(n, sinceSlot, elapsed)
    BY <2>1, FitsFewer DEF FloorInv
  <2>3. /\ sent - 1 - Cardinality(Callers) = n - 1
        /\ Second \in Nat /\ sinceSlot * Rps \in Nat /\ elapsed * Rps \in Nat
    BY <2>1, BetweenFinite, RateLimiterAssumption, Products DEF IInv, TypeOK
  <2>4. CASE n <= 0
    <3>1. (n - 1) * Second <= 0 /\ (n - 1) * Second \in Int
      BY <2>1, <2>3, <2>4, NoMoreThanNone
    <3> QED  BY <2>1, <2>3, <3>1
  <2>5. CASE n > 0
    <3>1. (n - 1) * Second + sinceSlot * Rps <= elapsed * Rps
      BY <2>1, <2>2, <2>5 DEF Fits
    <3>2. (n - 1) * Second \in Nat
      <4>1. n - 1 \in Nat
        BY <2>1, <2>5
      <4> QED  BY <4>1, <2>3, Products
    <3> QED  BY <2>3, <3>1, <3>2
  <2> QED  BY <2>1, <2>4, <2>5
<1> QED  BY <1>1, <1>2, FloorStep, Invariant, PTL DEF Spec, IInv
==============================================================================
