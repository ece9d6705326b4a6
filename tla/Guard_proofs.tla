---------------------------- MODULE Guard_proofs ----------------------------
(***************************************************************************)
(* Theorems about Guard for any number of threads, keys and credits.       *)
(***************************************************************************)
EXTENDS Guard, FiniteSetTheorems, TLAPS

LEMMA Monotone ==
  ASSUME NEW m \in Nat, NEW a \in Nat, NEW b \in Nat, a <= b
  PROVE  m * a <= m * b
<1>1. PICK d \in Nat : b = a + d
  <2>1. b - a \in Nat /\ b = a + (b - a)
    OBVIOUS
  <2> QED  BY <2>1
<1>2. m * b = m * a + m * d /\ m * d \in Nat /\ m * a \in Nat
  BY <1>1
<1> QED  BY <1>2

LEMMA BelowQuota ==
  ASSUME NEW u \in Nat, NEW d \in Nat, NEW m \in Nat, NEW q \in Nat,
         u <= q - 1, d <= m
  PROVE  u + d <= q - 1 + m
  OBVIOUS

\* What a set of callers may still be charged
LEMMA Outstanding ==
  ASSUME NEW S \in SUBSET Threads
  PROVE  /\ MaxCost * Cardinality(S) \in Nat
         /\ MaxCost * Cardinality(Threads) \in Nat
         /\ MaxCost * Cardinality(S) <= MaxCost * Cardinality(Threads)
         /\ \A t \in S :
              MaxCost * Cardinality(S \ {t}) = MaxCost * Cardinality(S) - MaxCost
<1> DEFINE n == Cardinality(S)
<1>1. IsFiniteSet(S) /\ n \in Nat /\ Cardinality(Threads) \in Nat
      /\ n <= Cardinality(Threads) /\ MaxCost \in Nat
  BY GuardAssumption, FS_Subset, FS_CardinalityType
<1>2. MaxCost * n <= MaxCost * Cardinality(Threads)
  BY <1>1, Monotone
<1>3. ASSUME NEW t \in S PROVE MaxCost * Cardinality(S \ {t}) = MaxCost * n - MaxCost
  <2>1. Cardinality(S \ {t}) = n - 1
    BY <1>1, FS_RemoveElement
  <2> HIDE DEF n
  <2> QED  BY <1>1, <2>1
<1> QED  BY <1>1, <1>2, <1>3

-----------------------------------------------------------------------------
(* Types. A thread only sleeps before a retry that is left to it.           *)

SleepsBeforeRetry ==
  \A t \in Threads : At(t, "backoff") => ~LastAttempt(t)

TypeInv == TypeOK /\ SleepsBeforeRetry

LEMMA AttemptsType == attempts \in Nat /\ attempts >= 1
  BY GuardAssumption DEF attempts

LEMMA CandidateType ==
  ASSUME NEW i \in Keys, NEW o \in Nat
  PROVE  (i + o) % NumKeys \in Keys
<1>1. i \in Nat /\ i + o \in Nat /\ NumKeys \in Nat /\ NumKeys > 0
  BY KeysAssumption DEF Keys
<1> QED  BY <1>1, KeysAssumption DEF Keys

LEMMA TypeInit == Init => TypeInv
<1> SUFFICES ASSUME Init PROVE TypeInv
  OBVIOUS
<1>1. 0 \in Keys /\ 0 \in 0 .. attempts - 1 /\ 0 \in 0 .. NumKeys
  BY AttemptsType, KeysAssumption DEF Keys
<1>2. TypeOK
  BY <1>1 DEF Init, TypeOK, CircuitInit, QuotaInit, RotatorInit
<1>3. SleepsBeforeRetry
  BY DEF Init, SleepsBeforeRetry, At
<1> QED  BY <1>2, <1>3 DEF TypeInv

LEMMA TypeRoll ==
  ASSUME TypeInv, NEW t \in Threads, NEW test,
         NEW reset \in (Checking \cup InRequest) \ {"backoff"},
         NEW after \in (Checking \cup InRequest) \ {"backoff"},
         RollIfNeeded(t, test, reset, after)
  PROVE  TypeInv'
<1> USE AttemptsType
    DEF TypeInv, TypeOK, SleepsBeforeRetry, LastAttempt, At, Continue, Goto, history,
        circuitVars, quotaVars, rotatorVars, callVars, RollIfNeeded
<1>1. CASE /\ At(t, test)
           /\ Continue(t, IF windowOver THEN reset ELSE after)
           /\ UNCHANGED quotaVars
  BY <1>1
<1>2. CASE At(t, reset) /\ Roll /\ Continue(t, after)
  BY <1>2 DEF Roll
<1> QED  BY <1>1, <1>2

LEMMA TypeEnter ==
  ASSUME TypeInv, NEW t \in Threads, Enter(t)
  PROVE  TypeInv'
<1> USE AttemptsType
    DEF TypeInv, TypeOK, SleepsBeforeRetry, LastAttempt, At, Continue, Goto, history,
        Return, Checking, InRequest, circuitVars, quotaVars, rotatorVars,
        callVars
<1>1. CASE Start(t)
  BY <1>1 DEF Start, Arrive
<1>2. CASE RollIfNeeded(t, "admit", "admit_roll", "admit_test")
  BY <1>2, TypeRoll
<1>3. CASE AdmitTest(t)
  BY <1>3 DEF AdmitTest
<1> QED  BY <1>1, <1>2, <1>3 DEF Enter

LEMMA TypeAttempt ==
  ASSUME TypeInv, NEW t \in Threads, Attempt(t)
  PROVE  TypeInv'
<1> USE AttemptsType
    DEF TypeInv, TypeOK, SleepsBeforeRetry, LastAttempt, At, Continue, Goto, history,
        Return, Checking, InRequest, circuitVars, quotaVars, rotatorVars,
        callVars
<1>1. CASE Call(t)
  BY <1>1 DEF Call
<1>2. CASE Backoff(t)
  BY <1>2 DEF Backoff
<1>3. CASE AnswerTransient(t)
  BY <1>3, KeysAssumption DEF AnswerTransient, Answered, Keys, RetryOrReturn
<1>4. CASE AnswerRefused(t)
  BY <1>4, KeysAssumption DEF AnswerRefused, Answered, Keys
<1>5. CASE AnswerMaxUsage(t)
  <2>1. 0 \in Keys /\ key[t] \in Keys
    BY KeysAssumption DEF Keys
  <2> QED  BY <1>5, <2>1 DEF AnswerMaxUsage, Answered, Rotating
<1>6. CASE AnswerThrottled(t)
  BY <1>6, KeysAssumption DEF AnswerThrottled, Answered, Keys
<1>7. CASE AnswerOk(t)
  BY <1>7, KeysAssumption DEF AnswerOk, Answered, Keys
<1> QED  BY <1>1, <1>2, <1>3, <1>4, <1>5, <1>6, <1>7 DEF Attempt

LEMMA TypeFail ==
  ASSUME TypeInv, NEW t \in Threads, Fail(t)
  PROVE  TypeInv'
<1> USE AttemptsType
    DEF TypeInv, TypeOK, SleepsBeforeRetry, LastAttempt, At, Continue, Goto, history,
        Return, Checking, InRequest, circuitVars, quotaVars, rotatorVars,
        callVars
<1>1. CASE FailCount(t)
  BY <1>1 DEF FailCount, CountFailure
<1>2. CASE FailTrip(t)
  BY <1>2, GuardAssumption, CircuitAssumption DEF FailTrip, Trip, callVars, Active
<1>3. CASE FailClear(t)
  BY <1>3 DEF FailClear, ClearStreak
<1>4. CASE FailCheck(t)
  BY <1>4 DEF FailCheck, RetryOrReturn
<1> QED  BY <1>1, <1>2, <1>3, <1>4 DEF Fail

LEMMA TypeRotate ==
  ASSUME TypeInv, NEW t \in Threads, Rotate(t)
  PROVE  TypeInv'
<1> USE AttemptsType
    DEF TypeInv, TypeOK, SleepsBeforeRetry, LastAttempt, At, Continue, Goto, history,
        Return, Checking, InRequest, circuitVars, quotaVars, rotatorVars,
        callVars
<1>1. CASE RotateMark(t)
  BY <1>1, KeysAssumption DEF RotateMark, MarkCurrent, Rotating
<1>2. CASE RotateRead(t)
  <2>1. Candidate(offset[t]) \in Keys
    BY CandidateType DEF Candidate
  <2> QED  BY <1>2, <2>1 DEF RotateRead, Rotating
<1>3. CASE RotateTake(t)
  BY <1>3, KeysAssumption DEF RotateTake, Rotating, Keys
<1>4. CASE RotateSkip(t)
  BY <1>4, KeysAssumption DEF RotateSkip, Rotating, Keys
<1>5. CASE TripLong(t)
  BY <1>5, GuardAssumption DEF TripLong, Trip, Active
<1> QED  BY <1>1, <1>2, <1>3, <1>4, <1>5 DEF Rotate

LEMMA TypeSucceed ==
  ASSUME TypeInv, NEW t \in Threads, Succeed(t)
  PROVE  TypeInv'
<1> USE AttemptsType
    DEF TypeInv, TypeOK, SleepsBeforeRetry, LastAttempt, At, Continue, Goto, history,
        Return, Checking, InRequest, circuitVars, quotaVars, rotatorVars,
        callVars
<1>1. CASE Success(t)
  BY <1>1 DEF Success, RecordSuccess
<1>2. CASE RollIfNeeded(t, "charge", "charge_roll", "charge_add")
  BY <1>2, TypeRoll
<1>3. CASE ChargeAdd(t)
  BY <1>3, GuardAssumption DEF ChargeAdd, AddCharge
<1> QED  BY <1>1, <1>2, <1>3 DEF Succeed

LEMMA TypeStep == TypeInv /\ [Next]_vars => TypeInv'
<1> SUFFICES ASSUME TypeInv, [Next]_vars PROVE TypeInv'
  OBVIOUS
<1>1. ASSUME NEW t \in Threads, Step(t) PROVE TypeInv'
  BY <1>1, TypeEnter, TypeAttempt, TypeFail, TypeRotate, TypeSucceed DEF Step
<1> USE DEF TypeInv, TypeOK, SleepsBeforeRetry, LastAttempt, At, history,
            circuitVars, quotaVars, rotatorVars, callVars
<1>2. CASE CircuitTick
  BY <1>2 DEF CircuitTick, Elapse, IsOpen
<1>3. CASE QuotaWindowEnds
  BY <1>3 DEF QuotaWindowEnds, WindowEnds
<1>4. CASE NewMonth
  BY <1>4 DEF NewMonth
<1>5. CASE UNCHANGED vars
  BY <1>5 DEF vars
<1> QED  BY <1>1, <1>2, <1>3, <1>4, <1>5 DEF Next

LEMMA TypeInvariant == Spec => []TypeInv
  BY TypeInit, TypeStep, PTL DEF Spec

\* Every variable keeps its type.
THEOREM TypeTheorem == Spec => []TypeOK
<1>1. TypeInv => TypeOK
  BY DEF TypeInv
<1> QED  BY <1>1, TypeInvariant, PTL

-----------------------------------------------------------------------------
(* The streak of failures. A thread that brings the count to the threshold  *)
(* joins Tripping with the same step, and leaves it with the reset.         *)

LEMMA TrippingFinite ==
  /\ IsFiniteSet(Tripping)
  /\ Cardinality(Tripping) \in Nat
<1>1. Tripping \subseteq Threads
  BY DEF Tripping
<1> QED  BY <1>1, GuardAssumption, FS_Subset, FS_CardinalityType

LEMMA TrippingFiniteNext ==
  /\ IsFiniteSet(Tripping')
  /\ Cardinality(Tripping') \in Nat
<1>1. Tripping' \subseteq Threads
  BY DEF Tripping
<1> QED  BY <1>1, GuardAssumption, FS_Subset, FS_CardinalityType

\* Outside record_failure and record_success nothing of this moves
LEMMA StreakUntouched ==
  ASSUME TypeInv, NEW t \in Threads,
         Enter(t) \/ Attempt(t) \/ Rotate(t) \/ FailTrip(t) \/ FailCheck(t)
         \/ ChargeAdd(t) \/ RollIfNeeded(t, "charge", "charge_roll", "charge_add")
  PROVE  failures' = failures /\ Tripping' = Tripping
<1> USE DEF TypeInv, TypeOK, At, Continue, Goto, Return, RetryOrReturn, Tripping,
            circuitVars
<1>1. CASE Enter(t)
  BY <1>1 DEF Enter, Start, Arrive, RollIfNeeded, AdmitTest
<1>2. CASE Attempt(t)
  BY <1>2 DEF Attempt, Call, Backoff, Answered, AnswerTransient, AnswerRefused,
              AnswerMaxUsage, AnswerThrottled, AnswerOk
<1>3. CASE Rotate(t)
  BY <1>3 DEF Rotate, RotateMark, RotateRead, RotateTake, RotateSkip, TripLong
<1>4. CASE FailTrip(t)
  BY <1>4 DEF FailTrip
<1>5. CASE FailCheck(t)
  BY <1>5 DEF FailCheck
<1>6. CASE ChargeAdd(t) \/ RollIfNeeded(t, "charge", "charge_roll", "charge_add")
  BY <1>6 DEF ChargeAdd, RollIfNeeded
<1> QED  BY <1>1, <1>2, <1>3, <1>4, <1>5, <1>6

LEMMA StreakStep == TypeInv /\ StreakAnswered /\ [Next]_vars => StreakAnswered'
<1> SUFFICES ASSUME TypeInv, StreakAnswered, [Next]_vars PROVE StreakAnswered'
  OBVIOUS
<1> DEFINE n == Cardinality(Tripping)
<1>0. n \in Nat /\ n' \in Nat /\ failures \in Nat
      /\ FailureThreshold \in Nat /\ FailureThreshold >= 1
  BY TrippingFinite, TrippingFiniteNext, CircuitAssumption DEF TypeInv, TypeOK
<1>1. ASSUME NEW t \in Threads, FailCount(t) PROVE StreakAnswered'
  <2>1. failures' = failures + 1
    BY <1>1 DEF FailCount, CountFailure
  <2>2. CASE ReachesThreshold
    <3>1. Tripping' = Tripping \cup {t} /\ t \notin Tripping
      BY <1>1, <2>2 DEF FailCount, Continue, Goto, At, Tripping, TypeInv, TypeOK
    <3>2. n' = n + 1
      BY <3>1, TrippingFinite, FS_AddElement
    <3> QED  BY <1>0, <2>1, <3>2 DEF StreakAnswered
  <2>3. CASE ~ReachesThreshold
    BY <1>0, <2>1, <2>3 DEF ReachesThreshold, StreakAnswered
  <2> QED  BY <2>2, <2>3
<1>2. ASSUME NEW t \in Threads, FailClear(t) \/ Success(t) PROVE StreakAnswered'
  BY <1>0, <1>2 DEF FailClear, ClearStreak, Success, RecordSuccess, StreakAnswered
<1>3. ASSUME failures' = failures, Tripping' = Tripping PROVE StreakAnswered'
  BY <1>3 DEF StreakAnswered
<1>4. CASE CircuitTick \/ QuotaWindowEnds \/ NewMonth \/ UNCHANGED vars
  <2>1. failures' = failures /\ pc' = pc
    BY <1>4 DEF CircuitTick, QuotaWindowEnds, NewMonth, vars, circuitVars
  <2> QED  BY <1>3, <2>1 DEF Tripping
<1> QED  BY <1>1, <1>2, <1>3, <1>4, StreakUntouched DEF Next, Step, Fail, Succeed

\* No streak at the threshold goes unanswered, however record_failure's three
\* steps interleave: for every number of threads and every threshold.
THEOREM StreakTheorem == Spec => []StreakAnswered
<1>1. Init => StreakAnswered
  BY TrippingFinite, CircuitAssumption DEF Init, CircuitInit, StreakAnswered
<1> QED  BY <1>1, TypeInvariant, StreakStep, PTL DEF Spec

-----------------------------------------------------------------------------
(* Who may be under way while the circuit is open.                          *)

LEMMA OpenStep == TypeInv /\ OpenAdmitsNobody /\ [Next]_vars => OpenAdmitsNobody'
<1> SUFFICES ASSUME TypeInv, OpenAdmitsNobody, [Next]_vars PROVE OpenAdmitsNobody'
  OBVIOUS
<1> USE DEF OpenAdmitsNobody, IsOpen, Active, TypeInv, TypeOK, At, history, circuitVars
<1>1. ASSUME NEW t \in Threads, Enter(t) PROVE OpenAdmitsNobody'
  BY <1>1 DEF Enter, Start, Arrive, RollIfNeeded, AdmitTest,
              Continue, Goto, Return
<1>2. ASSUME NEW t \in Threads, Attempt(t) PROVE OpenAdmitsNobody'
  BY <1>2 DEF Attempt, Call, Backoff, Answered, AnswerTransient, AnswerRefused,
              AnswerMaxUsage, AnswerThrottled, AnswerOk, RetryOrReturn,
              Continue, Goto, Return
<1>3. ASSUME NEW t \in Threads, Fail(t) PROVE OpenAdmitsNobody'
  BY <1>3 DEF Fail, FailCount, FailTrip, FailClear, FailCheck, RetryOrReturn,
              Continue, Goto, Return
<1>4. ASSUME NEW t \in Threads, Rotate(t) PROVE OpenAdmitsNobody'
  BY <1>4 DEF Rotate, RotateMark, RotateRead, RotateTake, RotateSkip, TripLong,
              Continue, Goto
<1>5. ASSUME NEW t \in Threads, Succeed(t) PROVE OpenAdmitsNobody'
  BY <1>5 DEF Succeed, Success, RecordSuccess, RollIfNeeded, ChargeAdd, Continue, Goto, Return
<1>6. CASE CircuitTick
  BY <1>6 DEF CircuitTick, Elapse
<1>7. CASE QuotaWindowEnds \/ NewMonth \/ UNCHANGED vars
  BY <1>7 DEF QuotaWindowEnds, NewMonth, vars
<1> QED  BY <1>1, <1>2, <1>3, <1>4, <1>5, <1>6, <1>7 DEF Next, Step

\* While the circuit is open only requests from before it opened are under way.
THEOREM OpenTheorem == Spec => []OpenAdmitsNobody
<1>1. Init => OpenAdmitsNobody
  BY DEF Init, CircuitInit, OpenAdmitsNobody, IsOpen
<1> QED  BY <1>1, TypeInvariant, OpenStep, PTL DEF Spec

-----------------------------------------------------------------------------
(* The rotation. RotationRecovers is not inductive: what makes the last     *)
(* thread in rotate find an unmarked key is that all the offsets it has     *)
(* passed lead, from the index as it is now, to marked keys. A thread that  *)
(* moves the index moves it to an unmarked key, and the next thread to mark *)
(* that key starts a loop of its own.                                       *)

Scanning(t) ==
  /\ pc[t] \in {"rotate_read", "rotate_test"}
  /\ offset[t] \in 1 .. NumKeys
  /\ \A o \in 1 .. offset[t] - 1 : Candidate(o) \in exhausted
  /\ At(t, "rotate_test") => candidate[t] = Candidate(offset[t])

RotationInv ==
  index \in exhausted /\ exhausted # Keys => \E t \in Threads : Scanning(t)

\* The offsets 1..NumKeys reach every key from any index
LEMMA OffsetsReachAll ==
  ASSUME NEW i \in Keys, NEW k \in Keys
  PROVE  \E o \in 1 .. NumKeys : (i + o) % NumKeys = k
<1>0. NumKeys \in Nat /\ NumKeys > 0 /\ i \in Nat /\ k \in Nat
      /\ i < NumKeys /\ k < NumKeys
  BY KeysAssumption DEF Keys
<1>1. CASE k > i
  <2>1. k - i \in 1 .. NumKeys /\ i + (k - i) = k
    BY <1>0, <1>1
  <2>2. k % NumKeys = k
    BY <1>0
  <2> QED  BY <2>1, <2>2
<1>2. CASE k <= i
  <2>1. k - i + NumKeys \in 1 .. NumKeys /\ i + (k - i + NumKeys) = k + NumKeys
    BY <1>0, <1>2
  <2>2. (k + NumKeys) % NumKeys = k
    BY <1>0
  <2> QED  BY <2>1, <2>2
<1> QED  BY <1>0, <1>1, <1>2

\* A thread that has passed all the offsets has found every key marked
LEMMA LastOffset ==
  ASSUME TypeInv, NEW t \in Threads, Scanning(t), RotateSkip(t),
         ~(offset[t] < NumKeys)
  PROVE  exhausted = Keys
<1> SUFFICES Keys \subseteq exhausted
  BY DEF TypeInv, TypeOK
<1>0. index \in Keys /\ NumKeys \in Nat
  BY KeysAssumption DEF TypeInv, TypeOK
<1>1. offset[t] = NumKeys
  BY <1>0 DEF Scanning
<1>2. \A o \in 1 .. NumKeys : Candidate(o) \in exhausted
  BY <1>0, <1>1 DEF RotateSkip, Scanning, At
<1> QED  BY <1>0, <1>2, OffsetsReachAll DEF Candidate

\* A step that leaves index, the marks and the loops alone
LEMMA ScanUntouched ==
  ASSUME TypeInv, RotationInv, NEW t \in Threads,
         \/ Enter(t) \/ Attempt(t) \/ Fail(t) \/ Succeed(t) \/ TripLong(t)
  PROVE  RotationInv'
<1>1. /\ index' = index /\ exhausted' = exhausted
      /\ offset' = offset /\ candidate' = candidate
  BY DEF Enter, Start, Arrive, RollIfNeeded, AdmitTest,
         Attempt, Call, Backoff, Answered, AnswerTransient, AnswerRefused,
         AnswerMaxUsage, AnswerThrottled, AnswerOk,
         Fail, FailCount, FailTrip, FailClear, FailCheck, TripLong,
         Succeed, Success, RollIfNeeded, ChargeAdd,
         rotatorVars, callVars
<1>2. \A u \in Threads :
        pc[u] \in {"rotate_read", "rotate_test"} => pc'[u] = pc[u]
  BY DEF TypeInv, TypeOK, At, Continue, Goto, Return, RetryOrReturn,
         Enter, Start, Arrive, RollIfNeeded, AdmitTest,
         Attempt, Call, Backoff, Answered, AnswerTransient, AnswerRefused,
         AnswerMaxUsage, AnswerThrottled, AnswerOk,
         Fail, FailCount, FailTrip, FailClear, FailCheck, TripLong,
         Succeed, Success, RollIfNeeded, ChargeAdd
<1>3. \A u \in Threads : Scanning(u) => Scanning(u)'
  BY <1>1, <1>2 DEF Scanning, Candidate, At
<1> QED  BY <1>1, <1>3 DEF RotationInv

LEMMA RotationStep == TypeInv /\ RotationInv /\ [Next]_vars => RotationInv'
<1> SUFFICES ASSUME TypeInv, RotationInv, [Next]_vars PROVE RotationInv'
  OBVIOUS
<1>0. index \in Keys /\ NumKeys \in Nat /\ NumKeys >= 1
  BY KeysAssumption DEF TypeInv, TypeOK
<1> USE DEF TypeInv, TypeOK, At, Continue, Goto
<1>1. ASSUME NEW t \in Threads, RotateMark(t) PROVE RotationInv'
  <2>1. CASE index \in exhausted
    <3>1. exhausted' = exhausted /\ index' = index
      BY <1>1, <2>1 DEF RotateMark, MarkCurrent
    <3>2. \A u \in Threads : Scanning(u) => Scanning(u)'
      BY <1>1, <3>1 DEF RotateMark, Scanning, Candidate
    <3> QED  BY <3>1, <3>2 DEF RotationInv
  <2>2. CASE index \notin exhausted
    <3>1. Scanning(t)'
      BY <1>0, <1>1 DEF RotateMark, Scanning, Candidate
    <3> QED  BY <3>1 DEF RotationInv
  <2> QED  BY <2>1, <2>2
<1>2. ASSUME NEW t \in Threads, RotateRead(t) PROVE RotationInv'
  <2>1. exhausted' = exhausted /\ index' = index
    BY <1>2 DEF RotateRead, rotatorVars
  <2>2. \A u \in Threads : Scanning(u) => Scanning(u)'
    BY <1>2, <2>1 DEF RotateRead, Scanning, Candidate
  <2> QED  BY <2>1, <2>2 DEF RotationInv
<1>3. ASSUME NEW t \in Threads, RotateTake(t) PROVE RotationInv'
  BY <1>3 DEF RotateTake, RotationInv
<1>4. ASSUME NEW t \in Threads, RotateSkip(t) PROVE RotationInv'
  <2>1. exhausted' = exhausted /\ index' = index
    BY <1>4 DEF RotateSkip, rotatorVars
  <2>2. \A u \in Threads \ {t} : Scanning(u) => Scanning(u)'
    BY <1>4, <2>1 DEF RotateSkip, Scanning, Candidate
  <2>3. CASE offset[t] < NumKeys
    <3>1. Scanning(t) => Scanning(t)'
      <4> SUFFICES ASSUME Scanning(t) PROVE Scanning(t)'
        OBVIOUS
      <4>1. offset'[t] = offset[t] + 1 /\ pc'[t] = "rotate_read"
        BY <1>4, <2>3 DEF RotateSkip
      <4>2. Candidate(offset[t]) \in exhausted
        BY <1>4 DEF RotateSkip, Scanning
      <4>3. \A o \in 1 .. offset[t] : Candidate(o) \in exhausted
        BY <4>2 DEF Scanning
      <4> QED  BY <1>0, <2>1, <2>3, <4>1, <4>3 DEF Scanning, Candidate
    <3> QED  BY <2>1, <2>2, <3>1 DEF RotationInv
  <2>4. CASE ~(offset[t] < NumKeys)
    <3>1. Scanning(t) => exhausted = Keys
      BY <1>4, <2>4, LastOffset
    <3> QED  BY <2>1, <2>2, <3>1 DEF RotationInv
  <2> QED  BY <2>3, <2>4
<1>5. CASE CircuitTick \/ QuotaWindowEnds \/ NewMonth \/ UNCHANGED vars
  <2>1. UNCHANGED <<index, exhausted, offset, candidate, pc>>
    BY <1>5 DEF CircuitTick, QuotaWindowEnds, NewMonth, vars, rotatorVars, callVars
  <2> QED  BY <2>1 DEF RotationInv, Scanning, Candidate
<1> QED  BY <1>1, <1>2, <1>3, <1>4, <1>5, ScanUntouched DEF Next, Step, Rotate

\* Threads that rotate under each other never leave the guard on a marked key
\* while there is an unmarked one, for every number of threads and keys.
THEOREM RotationTheorem == Spec => []RotationRecovers
<1>1. Init => RotationInv
  BY DEF Init, RotatorInit, RotationInv
<1>2. RotationInv => RotationRecovers
  BY DEF RotationInv, RotationRecovers, Scanning, Rotating
<1> QED  BY <1>1, <1>2, TypeInvariant, RotationStep, PTL DEF Spec

-----------------------------------------------------------------------------
(* Requests one at a time. Nothing moves between the read of the current    *)
(* key and the mark, so the marks are the keys that have reported their     *)
(* usage, and the index is the key of the call in flight.                   *)

OneAtATime == traffic # "overlapping" => \A t, u \in Active : t = u

SpentIsMarked ==
  /\ exhausted \subseteq spent
  /\ \/ spent \subseteq exhausted
     \/ \E t \in Threads : At(t, "rotate_mark") /\ spent \subseteq exhausted \cup {index}

KeyInUse ==
  \A t \in Threads :
    /\ At(t, "flight") => key[t] = index
    /\ At(t, "rotate_mark") => index \in spent
    /\ pc[t] \in {"rotate_read", "rotate_test"} => index \in exhausted
    /\ At(t, "trip_long") => exhausted = Keys

SoloInv == traffic = "first_month" => SpentIsMarked /\ KeyInUse

\* A step of a request that is under way
Onward(t) ==
  \/ AdmitTest(t) \/ RollIfNeeded(t, "admit", "admit_roll", "admit_test")
  \/ Attempt(t) \/ Fail(t) \/ Rotate(t) \/ Succeed(t)

LEMMA OnwardStep ==
  ASSUME TypeInv, NEW t \in Threads, Onward(t)
  PROVE  /\ t \in Active /\ traffic' = traffic
         /\ \A u \in Threads \ {t} : pc'[u] = pc[u]
<1> USE DEF TypeInv, TypeOK, Active, At, Continue, Goto, Return, history
<1>1. CASE AdmitTest(t) \/ RollIfNeeded(t, "admit", "admit_roll", "admit_test")
  BY <1>1 DEF AdmitTest, RollIfNeeded
<1>2. CASE Attempt(t)
  BY <1>2 DEF Attempt, Call, Backoff, Answered, AnswerTransient, AnswerRefused,
              AnswerMaxUsage, AnswerThrottled, AnswerOk, RetryOrReturn
<1>3. CASE Fail(t)
  BY <1>3 DEF Fail, FailCount, FailTrip, FailClear, FailCheck, RetryOrReturn
<1>4. CASE Rotate(t)
  BY <1>4 DEF Rotate, RotateMark, RotateRead, RotateTake, RotateSkip, TripLong
<1>5. CASE Succeed(t)
  BY <1>5 DEF Succeed, Success, RollIfNeeded, ChargeAdd
<1> QED  BY <1>1, <1>2, <1>3, <1>4, <1>5 DEF Onward

LEMMA StepCases ==
  ASSUME [Next]_vars
  PROVE  \/ \E t \in Threads : Start(t) \/ Onward(t)
         \/ CircuitTick \/ QuotaWindowEnds \/ NewMonth \/ UNCHANGED vars
  BY DEF Next, Step, Enter, Onward

LEMMA OneStep == TypeInv /\ OneAtATime /\ [Next]_vars => OneAtATime'
<1> SUFFICES ASSUME TypeInv, OneAtATime, [Next]_vars PROVE OneAtATime'
  OBVIOUS
<1>1. ASSUME NEW t \in Threads, Start(t) PROVE OneAtATime'
  BY <1>1 DEF Start, Arrive, At, OneAtATime, Active, TypeInv, TypeOK
<1>2. ASSUME NEW t \in Threads, Onward(t) PROVE OneAtATime'
  BY <1>2, OnwardStep DEF OneAtATime, Active
<1>3. CASE CircuitTick \/ QuotaWindowEnds \/ NewMonth \/ UNCHANGED vars
  BY <1>3 DEF CircuitTick, QuotaWindowEnds, NewMonth, vars, history, OneAtATime, Active
<1> QED  BY <1>1, <1>2, <1>3, StepCases

\* Whoever goes on in such a behaviour is the only request there is
LEMMA Alone ==
  ASSUME TypeInv, OneAtATime, NEW t \in Threads, Onward(t), traffic' # "overlapping"
  PROVE  /\ traffic # "overlapping"
         /\ \A u \in Threads : u # t => At(u, "idle") /\ At(u, "idle")'
  BY OnwardStep DEF OneAtATime, Active, At

LEMMA SoloStep ==
  TypeInv /\ RotationInv /\ OneAtATime /\ SoloInv /\ [Next]_vars => SoloInv'
<1> SUFFICES ASSUME TypeInv, RotationInv, OneAtATime, SoloInv, [Next]_vars,
                    traffic' = "first_month"
             PROVE  (SpentIsMarked /\ KeyInUse)'
  BY DEF SoloInv
<1>1. ASSUME NEW t \in Threads, Start(t) PROVE (SpentIsMarked /\ KeyInUse)'
  <2>1. traffic = "first_month" /\ SpentIsMarked /\ KeyInUse
    BY <1>1 DEF Start, Arrive, SoloInv
  <2> QED  BY <1>1, <2>1 DEF Start, Arrive, SpentIsMarked, KeyInUse, TypeInv, TypeOK,
                At, rotatorVars, callVars
<1>2. ASSUME NEW t \in Threads, Onward(t) PROVE (SpentIsMarked /\ KeyInUse)'
  <2>0. /\ SpentIsMarked /\ KeyInUse
        /\ \A u \in Threads : u # t => At(u, "idle") /\ At(u, "idle")'
    BY <1>2, OnwardStep, Alone DEF SoloInv
  <2> USE <2>0 DEF SpentIsMarked, KeyInUse, TypeInv, TypeOK, At, Continue, Goto, Return
  <2>1. CASE \/ AdmitTest(t) \/ RollIfNeeded(t, "admit", "admit_roll", "admit_test")
             \/ Fail(t) \/ Succeed(t)
    BY <2>1 DEF RollIfNeeded, AdmitTest, Fail, FailCount, FailTrip,
                FailClear, FailCheck, RetryOrReturn, Succeed, Success, ChargeAdd,
                rotatorVars, callVars
  <2>2. CASE AnswerMaxUsage(t)
    BY <2>2 DEF AnswerMaxUsage, Answered, rotatorVars
  <2>3. CASE Call(t) \/ Backoff(t) \/ AnswerTransient(t) \/ AnswerRefused(t)
             \/ AnswerThrottled(t) \/ AnswerOk(t)
    BY <2>3 DEF Call, Backoff, Answered, AnswerTransient, AnswerRefused,
                AnswerThrottled, AnswerOk, RetryOrReturn, rotatorVars, callVars
  <2>4. CASE RotateMark(t)
    BY <2>4 DEF RotateMark, MarkCurrent
  <2>5. CASE RotateRead(t)
    BY <2>5 DEF RotateRead, rotatorVars
  <2>6. CASE RotateTake(t)
    BY <2>6 DEF RotateTake
  <2>7. CASE RotateSkip(t)
    <3>1. index \in exhausted
      BY <2>7 DEF RotateSkip
    <3>2. ~(offset[t] < NumKeys) => exhausted = Keys
      BY <2>7, <3>1, LastOffset DEF RotationInv, Scanning
    <3> QED  BY <2>7, <3>1, <3>2 DEF RotateSkip, rotatorVars
  <2>8. CASE TripLong(t)
    BY <2>8 DEF TripLong, rotatorVars, callVars
  <2> QED  BY <1>2, <2>1, <2>2, <2>3, <2>4, <2>5, <2>6, <2>7, <2>8
           DEF Onward, Attempt, Rotate
<1>3. CASE CircuitTick \/ QuotaWindowEnds \/ UNCHANGED vars
  <2>1. traffic = "first_month" /\ SpentIsMarked /\ KeyInUse
    BY <1>3 DEF CircuitTick, QuotaWindowEnds, vars, history, SoloInv
  <2> QED  BY <1>3, <2>1 DEF CircuitTick, QuotaWindowEnds, vars, rotatorVars, callVars,
                SpentIsMarked, KeyInUse, At
<1>4. CASE NewMonth
  BY <1>4 DEF NewMonth
<1> QED  BY <1>1, <1>2, <1>3, <1>4, StepCases

LEMMA SoloInvariant == Spec => [](TypeInv /\ RotationInv /\ OneAtATime /\ SoloInv)
<1>1. Init => TypeInv /\ RotationInv /\ OneAtATime /\ SoloInv
  BY TypeInit
  DEF Init, RotatorInit, RotationInv, OneAtATime, Active, SoloInv, SpentIsMarked, KeyInUse, At
<1>2. /\ TypeInv /\ RotationInv /\ OneAtATime /\ SoloInv /\ [Next]_vars
      => (TypeInv /\ RotationInv /\ OneAtATime /\ SoloInv)'
  BY TypeStep, RotationStep, OneStep, SoloStep
<1> QED  BY <1>1, <1>2, PTL DEF Spec

\* Called one request at a time, by however many threads, the guard opens its long
\* circuit within a month only when every one of its keys has reported its usage.
THEOREM LongTripTheorem == Spec => []SerialTripJustified
<1>1. TypeInv /\ SoloInv => SerialTripJustified
  BY DEF TypeInv, TypeOK, SoloInv, SpentIsMarked, KeyInUse, SerialTripJustified,
         LongTripJustified
<1> QED  BY <1>1, SoloInvariant, PTL

\* And at rest it is on a key that has not, while there is one.
THEOREM RestTheorem == Spec => []RestsOnLiveKey
<1>1. TypeInv /\ RotationInv /\ SoloInv => RestsOnLiveKey
  BY DEF TypeInv, TypeOK, SoloInv, SpentIsMarked, RotationInv, Scanning, At, Active,
         RestsOnLiveKey
<1> QED  BY <1>1, SoloInvariant, PTL

\* Called one request at a time, the one that opens the circuit does nothing more
\* before it returns, whichever way it opened it, also over the turn of a month.
THEOREM QuietTheorem == Spec => []OpenMeansQuiet
<1> DEFINE quiet == IsOpen => \A t \in Threads : pc[t] \in {"idle", "fail_clear", "fail_check"}
<1>1. Init => OpenMeansQuiet
  BY DEF Init, CircuitInit, OpenMeansQuiet, IsOpen
<1>2. TypeInv /\ OneAtATime /\ OpenMeansQuiet /\ [Next]_vars => OpenMeansQuiet'
  <2> SUFFICES ASSUME TypeInv, OneAtATime, OpenMeansQuiet, [Next]_vars,
                      traffic' # "overlapping"
               PROVE  quiet'
    BY DEF OpenMeansQuiet
  <2>1. ASSUME NEW t \in Threads, Start(t) PROVE quiet'
    BY <2>1 DEF Start, Arrive, IsOpen, circuitVars
  <2>2. ASSUME NEW t \in Threads, Onward(t) PROVE quiet'
    <3>0. quiet /\ \A u \in Threads : u # t => At(u, "idle")'
      BY <2>2, Alone DEF OpenMeansQuiet
    <3> USE <3>0 DEF IsOpen, TypeInv, TypeOK, At, Continue, Goto, Return, circuitVars
    <3>1. CASE AdmitTest(t) \/ RollIfNeeded(t, "admit", "admit_roll", "admit_test")
      BY <3>1 DEF RollIfNeeded, AdmitTest
    <3>2. CASE Attempt(t)
      BY <3>2 DEF Attempt, Call, Backoff, Answered, AnswerTransient, AnswerRefused,
                  AnswerMaxUsage, AnswerThrottled, AnswerOk, RetryOrReturn
    <3>3. CASE Fail(t)
      BY <3>3 DEF Fail, FailCount, FailTrip, FailClear, FailCheck, RetryOrReturn
    <3>4. CASE Rotate(t)
      BY <3>4 DEF Rotate, RotateMark, RotateRead, RotateTake, RotateSkip, TripLong
    <3>5. CASE Succeed(t)
      BY <3>5 DEF Succeed, Success, RecordSuccess, RollIfNeeded, ChargeAdd
    <3> QED  BY <2>2, <3>1, <3>2, <3>3, <3>4, <3>5 DEF Onward
  <2>3. CASE CircuitTick
    BY <2>3 DEF CircuitTick, Elapse, history, OpenMeansQuiet, IsOpen, TypeInv, TypeOK
  <2>4. CASE QuotaWindowEnds \/ NewMonth \/ UNCHANGED vars
    BY <2>4 DEF QuotaWindowEnds, NewMonth, vars, history, circuitVars, OpenMeansQuiet, IsOpen
  <2> QED  BY <2>1, <2>2, <2>3, <2>4, StepCases
<1> QED  BY <1>1, <1>2, SoloInvariant, PTL DEF Spec

-----------------------------------------------------------------------------
(* Guard implements Admission: the requests inside are those past the test  *)
(* of the quota, and a thread that rolls the window rolls Admission's.      *)

LEMMA StaysInside ==
  ASSUME TypeInv, NEW t \in Threads, NEW label \in InRequest,
         pc[t] \in InRequest, pc' = [pc EXCEPT ![t] = label]
  PROVE  Inside' = Inside
  BY DEF TypeInv, TypeOK, Inside

LEMMA StaysOutside ==
  ASSUME TypeInv, NEW t \in Threads, NEW label, label \notin InRequest,
         pc[t] \notin InRequest, pc' = [pc EXCEPT ![t] = label]
  PROVE  Inside' = Inside
  BY DEF TypeInv, TypeOK, Inside

\* A thread that returns without a charge
LEMMA LeavesFree ==
  ASSUME TypeInv, NEW t \in Threads, pc[t] \in InRequest,
         pc' = [pc EXCEPT ![t] = "idle"], used' = used
  PROVE  Promise!Leave(t, 0)
  BY DEF TypeInv, TypeOK, Inside, InRequest, Rotating, Promise!Leave, Promise!Base

LEMMA PromiseStep ==
  TypeInv /\ [Next]_vars => [Promise!Next]_<<Inside, used>>
<1> SUFFICES ASSUME TypeInv, [Next]_vars
             PROVE  Promise!Next \/ UNCHANGED <<Inside, used>>
  BY DEF Promise!vars
<1>0. 0 \in 0 .. MaxCost
  BY GuardAssumption
<1> USE DEF At, Continue, Goto, quotaVars
<1>1. ASSUME NEW t \in Threads, Enter(t)
      PROVE  Promise!Next \/ UNCHANGED <<Inside, used>>
  <2> USE DEF InRequest, Rotating
  <2>1. CASE Start(t)
    BY <1>1, <2>1, StaysOutside DEF Start, Arrive
  <2>2. CASE RollIfNeeded(t, "admit", "admit_roll", "admit_test")
    <3>1. Inside' = Inside
      BY <2>2, StaysOutside DEF RollIfNeeded
    <3> QED  BY <2>2, <3>1 DEF RollIfNeeded, Roll, Promise!Next, Promise!Roll
  <2>3. CASE AdmitTest(t)
    <3>1. CASE IsExhausted
      BY <2>3, <3>1, StaysOutside DEF AdmitTest, Return
    <3>2. CASE ~IsExhausted
      <4>1. Inside' = Inside \cup {t} /\ t \notin Inside
        BY <2>3, <3>2 DEF AdmitTest, Inside, TypeInv, TypeOK
      <4>2. used < MaxCredits /\ used' = used
        BY <2>3, <3>2, QuotaAssumption DEF AdmitTest, IsExhausted, TypeInv, TypeOK
      <4> QED  BY <4>1, <4>2 DEF Promise!Next, Promise!Admit, Promise!Base
    <3> QED  BY <3>1, <3>2
  <2> QED  BY <1>1, <2>1, <2>2, <2>3 DEF Enter
<1>2. ASSUME NEW t \in Threads, Attempt(t) \/ Fail(t) \/ Rotate(t)
      PROVE  Promise!Next \/ UNCHANGED <<Inside, used>>
  <2>1. used' = used
    BY <1>2 DEF Attempt, Call, Backoff, Answered, AnswerTransient, AnswerRefused,
                AnswerMaxUsage, AnswerThrottled, AnswerOk, Fail, FailCount,
                FailTrip, FailClear, FailCheck, Rotate, RotateMark, RotateRead,
                RotateTake, RotateSkip, TripLong
  <2>2. pc[t] \in InRequest
    BY <1>2 DEF InRequest, Rotating, Attempt, Call, Backoff, Answered,
                AnswerTransient, AnswerRefused, AnswerMaxUsage, AnswerThrottled,
                AnswerOk, Fail, FailCount, FailTrip, FailClear, FailCheck, Rotate,
                RotateMark, RotateRead, RotateTake, RotateSkip, TripLong
  <2>3. \E label \in InRequest \cup {"idle"} : pc' = [pc EXCEPT ![t] = label]
    BY <1>2 DEF InRequest, Rotating, Attempt, Call, Backoff, Answered, Return,
                AnswerTransient, AnswerRefused, AnswerMaxUsage, AnswerThrottled,
                AnswerOk, Fail, FailCount, FailTrip, FailClear, FailCheck, Rotate,
                RotateMark, RotateRead, RotateTake, RotateSkip, TripLong,
                RetryOrReturn
  <2>4. CASE pc' = [pc EXCEPT ![t] = "idle"]
    BY <1>0, <2>1, <2>2, <2>4, LeavesFree DEF Promise!Next
  <2>5. CASE \E label \in InRequest : pc' = [pc EXCEPT ![t] = label]
    BY <2>1, <2>2, <2>5, StaysInside
  <2> QED  BY <2>3, <2>4, <2>5
<1>3. ASSUME NEW t \in Threads, Succeed(t)
      PROVE  Promise!Next \/ UNCHANGED <<Inside, used>>
  <2> USE DEF InRequest, Rotating
  <2>1. CASE Success(t)
    BY <2>1, StaysInside DEF Success
  <2>2. CASE RollIfNeeded(t, "charge", "charge_roll", "charge_add")
    <3>1. Inside' = Inside
      BY <2>2, StaysInside DEF RollIfNeeded
    <3> QED  BY <2>2, <3>1 DEF RollIfNeeded, Roll, Promise!Next, Promise!Roll
  <2>3. CASE ChargeAdd(t)
    <3>1. PICK credits \in Costs : used' = used + credits
      BY <2>3 DEF ChargeAdd, AddCharge
    <3>2. credits \in 0 .. MaxCost
      BY GuardAssumption
    <3>3. Inside' = Inside \ {t} /\ t \in Inside
      BY <2>3 DEF ChargeAdd, Return, Inside, TypeInv, TypeOK
    <3> QED  BY <3>1, <3>2, <3>3 DEF Promise!Next, Promise!Leave, Promise!Base
  <2> QED  BY <1>3, <2>1, <2>2, <2>3 DEF Succeed
<1>4. CASE CircuitTick \/ QuotaWindowEnds \/ NewMonth \/ UNCHANGED vars
  BY <1>4 DEF CircuitTick, QuotaWindowEnds, WindowEnds, NewMonth, vars, Inside
<1> QED  BY <1>1, <1>2, <1>3, <1>4 DEF Next, Step

\* Every behaviour of the guard is one of Admission.
THEOREM RefinementTheorem == Spec => AdmissionKept
<1>1. Init => Promise!Init
  BY DEF Init, QuotaInit, Promise!Init, Inside, InRequest, Rotating
<1> QED  BY <1>1, TypeInvariant, PromiseStep, PTL
         DEF Spec, AdmissionKept, Promise!Spec, Promise!vars

\* The guard overshoots its quota by less than one full charge per thread.
THEOREM OvershootTheorem == Spec => []OvershootBounded
<1> USE DEF OvershootBounded
<1> DEFINE most == MaxCost * Cardinality(Threads)
           due == MaxCost * Cardinality(Inside)
<1>1. Init => OvershootBounded
  <2> SUFFICES ASSUME Init PROVE OvershootBounded
    OBVIOUS
  <2>1. used = 0 /\ Inside \in SUBSET Threads
    BY DEF Init, QuotaInit, Inside
  <2>2. due \in Nat /\ most \in Nat /\ due <= most
    BY <2>1, Outstanding
  <2> HIDE DEF due, most
  <2>3. used + due <= MaxCredits - 1 + most
    BY <2>1, <2>2, QuotaAssumption
  <2> QED  BY <2>3 DEF due, most
<1>2. /\ TypeInv /\ TypeInv' /\ OvershootBounded
      /\ [Promise!Next]_<<Inside, used>>
      => OvershootBounded'
  <2> SUFFICES ASSUME TypeInv, TypeInv', OvershootBounded,
                      [Promise!Next]_<<Inside, used>>
               PROVE  OvershootBounded'
    OBVIOUS
  <2>1. /\ Inside \in SUBSET Threads /\ Inside' \in SUBSET Threads
        /\ used \in Nat /\ used' \in Nat
    BY DEF Inside, TypeInv, TypeOK
  <2>2. /\ due \in Nat /\ due' \in Nat /\ most \in Nat
        /\ due <= most /\ due' <= most
    BY <2>1, Outstanding
  <2>3. used + due <= MaxCredits - 1 + most
    OBVIOUS
  <2>4. ASSUME used' <= MaxCredits - 1 PROVE used' + due' <= MaxCredits - 1 + most
    BY <2>1, <2>2, <2>4, QuotaAssumption, BelowQuota
  <2>5. ASSUME NEW c \in Threads, Promise!Admit(c)  PROVE used' <= MaxCredits - 1
    BY <2>1, <2>5, QuotaAssumption DEF Promise!Admit, Promise!Base
  <2>6. ASSUME NEW c \in Threads, NEW cost \in 0 .. MaxCost, Promise!Leave(c, cost)
        PROVE  used' + due' <= MaxCredits - 1 + most
    <3>1. PICK base \in {used, 0} : used' = base + cost
      BY <2>6 DEF Promise!Leave, Promise!Base
    <3>2. due' = due - MaxCost
      BY <2>1, <2>6, Outstanding DEF Promise!Leave
    <3> HIDE DEF due, most
    <3> QED  BY <2>1, <2>2, <2>3, <3>1, <3>2, GuardAssumption, QuotaAssumption
  <2>7. CASE Promise!Roll
    BY <2>4, <2>7, QuotaAssumption DEF Promise!Roll
  <2>8. CASE UNCHANGED <<Inside, used>>
    BY <2>3, <2>8
  <2> QED  BY <2>4, <2>5, <2>6, <2>7, <2>8 DEF Promise!Next
<1> QED  BY <1>1, <1>2, TypeInvariant, PromiseStep, PTL DEF Spec
=============================================================================
