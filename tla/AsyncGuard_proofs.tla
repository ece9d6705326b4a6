-------------------------- MODULE AsyncGuard_proofs --------------------------
(***************************************************************************)
(* Theorems about AsyncGuard for any number of tasks, keys and credits,    *)
(* cancellation of any task at any await included.                         *)
(***************************************************************************)
EXTENDS AsyncGuard, FiniteSetTheorems, TLAPS

LEMMA Products ==
  ASSUME NEW a \in Nat, NEW b \in Nat
  PROVE  /\ a * b \in Nat
         /\ (a + 1) * b = a * b + b
         /\ 0 * b = 0
         /\ b * a = a * b
  OBVIOUS

\* A task only sleeps before a retry that is left to it
TypeInv ==
  /\ TypeOK
  /\ \A t \in Tasks : pc[t] = "backoff" => ~LastAttempt(t)

LEMMA AttemptsType == attempts \in Nat /\ attempts >= 1
  BY AsyncGuardAssumption DEF attempts

LEMMA ZeroIsKey == 0 \in Keys
  BY KeysAssumption DEF Keys

LEMMA CandidateType ==
  ASSUME index \in Keys, NEW offset \in 1 .. NumKeys
  PROVE  Candidate(offset) \in Keys
<1>1. index + offset \in Nat /\ NumKeys \in Nat /\ NumKeys > 0
  BY KeysAssumption DEF Keys
<1> QED  BY <1>1 DEF Candidate, Keys

LEMMA TypeInit == Init => TypeInv
<1> SUFFICES ASSUME Init PROVE TypeInv
  OBVIOUS
<1>1. failures \in 0 .. FailureThreshold - 1 /\ openFor \in Nat
  BY CircuitAssumption DEF Init, CircuitInit
<1>2. /\ pc \in [Tasks -> {"idle"} \cup Awaits] /\ key \in [Tasks -> Keys]
      /\ attempt \in [Tasks -> 0 .. attempts - 1]
  BY AttemptsType, ZeroIsKey DEF Init
<1>3. \A t \in Tasks : pc[t] # "backoff"
  BY DEF Init
<1> QED  BY <1>1, <1>2, <1>3, ZeroIsKey
         DEF Init, TypeInv, TypeOK, QuotaInit, RotatorInit

\* rotate(): whichever way it ends, the marks and the index stay among the keys
LEMMA RotateType ==
  ASSUME TypeOK, RotateToNext \/ RotateFails
  PROVE  index' \in Keys /\ exhausted' \subseteq Keys
<1>1. exhausted' \subseteq Keys
  BY DEF RotateToNext, RotateFails, MarkCurrent, TypeOK
<1>2. index' \in Keys
  BY CandidateType DEF RotateToNext, RotateFails, TypeOK
<1> QED  BY <1>1, <1>2

LEMMA TypeStep == TypeInv /\ [Next]_vars => TypeInv'
<1> SUFFICES ASSUME TypeInv, [Next]_vars PROVE TypeInv'
  OBVIOUS
<1> USE AttemptsType, ZeroIsKey
    DEF TypeInv, TypeOK, LastAttempt, Await, Leave, Return, Awaits,
        circuitVars, quotaVars, rotatorVars
<1>1. ASSUME NEW t \in Tasks, Start(t) PROVE TypeInv'
  <2>1. used' \in Nat /\ windowOver' \in BOOLEAN
    <3>1. CASE windowOver
      <4>1. used' = 0 /\ windowOver' = FALSE
        BY <1>1, <3>1 DEF Start, RollIfNeeded, Roll
      <4> QED  BY <4>1
    <3>2. CASE ~windowOver
      BY <1>1, <3>2 DEF Start, RollIfNeeded
    <3> QED  BY <3>1, <3>2
  <2> QED  BY <1>1, <2>1 DEF Start
<1>2. ASSUME NEW t \in Tasks, Call(t) PROVE TypeInv'
  BY <1>2 DEF Call
<1>3. ASSUME NEW t \in Tasks, AnswerTransient(t) \/ AnswerRefused(t) PROVE TypeInv'
  BY <1>3 DEF AnswerTransient, AnswerRefused, Answered, RetryOrReturn
<1>4. ASSUME NEW t \in Tasks, AnswerMaxUsage(t) PROVE TypeInv'
  <2>1. index' \in Keys /\ exhausted' \subseteq Keys /\ key[t] \in Keys
    BY <1>4, RotateType DEF AnswerMaxUsage
  <2>2. CASE Await(t, "slot") /\ UNCHANGED openFor
    BY <1>4, <2>1, <2>2 DEF AnswerMaxUsage, Answered
  <2>3. CASE TripAndReturn(t, ExhaustedSeconds)
    BY <1>4, <2>1, <2>3, AsyncGuardAssumption
    DEF AnswerMaxUsage, Answered, TripAndReturn, Trip, Active
  <2> QED  BY <1>4, <2>2, <2>3 DEF AnswerMaxUsage
<1>5. ASSUME NEW t \in Tasks, AnswerThrottled(t) PROVE TypeInv'
  <2>1. CASE ReachesThreshold
    BY <1>5, <2>1, CircuitAssumption
    DEF AnswerThrottled, Answered, ClearStreak, TripAndReturn, Trip, Active
  <2>2. CASE ~ReachesThreshold
    BY <1>5, <2>2, CircuitAssumption
    DEF AnswerThrottled, Answered, ReachesThreshold, CountFailure, RetryOrReturn
  <2> QED  BY <2>1, <2>2
<1>6. ASSUME NEW t \in Tasks, AnswerOk(t) PROVE TypeInv'
  <2>1. used' \in Nat
    <3>1. PICK credits \in Costs :
            used' = (IF windowOver THEN 0 ELSE used) + credits
      BY <1>6 DEF AnswerOk, Charge
    <3>2. credits \in Nat
      BY AsyncGuardAssumption
    <3> QED  BY <3>1, <3>2
  <2>2. failures' \in 0 .. FailureThreshold - 1 /\ openFor' \in Nat
    BY <1>6, CircuitAssumption DEF AnswerOk, RecordSuccess
  <2>3. windowOver' \in BOOLEAN
    BY <1>6 DEF AnswerOk, Charge
  <2>4. Answered(t) /\ Return(t) /\ UNCHANGED <<rotatorVars, spent>>
    BY <1>6 DEF AnswerOk
  <2> QED  BY <2>1, <2>2, <2>3, <2>4 DEF Answered
<1>7. ASSUME NEW t \in Tasks, Backoff(t) PROVE TypeInv'
  BY <1>7 DEF Backoff
<1>8. ASSUME NEW t \in Tasks, Cancel(t) PROVE TypeInv'
  BY <1>8 DEF Cancel
<1>9. CASE CircuitTick
  BY <1>9 DEF CircuitTick, Elapse, IsOpen
<1>10. CASE QuotaWindowEnds
  BY <1>10 DEF QuotaWindowEnds, WindowEnds
<1>11. CASE UNCHANGED vars
  BY <1>11 DEF vars
<1> QED  BY <1>1, <1>2, <1>3, <1>4, <1>5, <1>6, <1>7, <1>8, <1>9, <1>10, <1>11
         DEF Next, Resume

LEMMA TypeInvariant == Spec => []TypeInv
  BY TypeInit, TypeStep, PTL DEF Spec

\* Every variable keeps its type; the streak stays below the threshold.
THEOREM TypeTheorem == Spec => []TypeOK
<1>1. TypeInv => TypeOK
  BY DEF TypeInv
<1> QED  BY <1>1, TypeInvariant, PTL

-----------------------------------------------------------------------------
(* Who may be under way while the circuit is open. Cancelling a request and *)
(* starting it afresh does not carry it past an open circuit.               *)

LEMMA OpenStep == TypeInv /\ OpenAdmitsNobody /\ [Next]_vars => OpenAdmitsNobody'
<1> SUFFICES ASSUME TypeInv, OpenAdmitsNobody, [Next]_vars PROVE OpenAdmitsNobody'
  OBVIOUS
<1> USE DEF OpenAdmitsNobody, IsOpen, Active, TypeInv, TypeOK, circuitVars,
            Await, Leave, Return
<1>1. ASSUME NEW t \in Tasks, Start(t) PROVE OpenAdmitsNobody'
  BY <1>1 DEF Start
<1>2. ASSUME NEW t \in Tasks, Call(t) \/ Backoff(t) \/ Cancel(t)
      PROVE  OpenAdmitsNobody'
  BY <1>2 DEF Call, Backoff, Cancel, Awaits
<1>3. ASSUME NEW t \in Tasks, AnswerTransient(t) \/ AnswerRefused(t)
      PROVE  OpenAdmitsNobody'
  BY <1>3 DEF AnswerTransient, AnswerRefused, Answered, RetryOrReturn
<1>4. ASSUME NEW t \in Tasks, AnswerMaxUsage(t) PROVE OpenAdmitsNobody'
  BY <1>4 DEF AnswerMaxUsage, Answered, TripAndReturn
<1>5. ASSUME NEW t \in Tasks, AnswerThrottled(t) PROVE OpenAdmitsNobody'
  BY <1>5 DEF AnswerThrottled, Answered, TripAndReturn, RetryOrReturn
<1>6. ASSUME NEW t \in Tasks, AnswerOk(t) PROVE OpenAdmitsNobody'
  BY <1>6 DEF AnswerOk, RecordSuccess
<1>7. CASE CircuitTick
  BY <1>7 DEF CircuitTick, Elapse
<1>8. CASE QuotaWindowEnds \/ UNCHANGED vars
  BY <1>8 DEF QuotaWindowEnds, vars
<1> QED  BY <1>1, <1>2, <1>3, <1>4, <1>5, <1>6, <1>7, <1>8 DEF Next, Resume

\* While the circuit is open only requests from before it opened are under way.
THEOREM OpenTheorem == Spec => []OpenAdmitsNobody
<1>1. Init => OpenAdmitsNobody
  BY DEF Init, CircuitInit, OpenAdmitsNobody, IsOpen
<1> QED  BY <1>1, TypeInvariant, OpenStep, PTL DEF Spec

-----------------------------------------------------------------------------
(* The rotation. What the marks are charged to: every call whose answer is  *)
(* still to come may yet cost a mark if its key is known to have run out,   *)
(* and the first answer of a key that has run out pays for one mark of      *)
(* every task. When all keys are marked there is nothing left to pay for.   *)

\* Between two awaits the current key is unmarked as long as there is one
RotationSettled == index \in exhausted => exhausted = Keys

InFlight(t) == pc[t] = "flight"

\* A key that is called is current or was marked when the index moved on
CallsAccounted ==
  \A t \in Tasks : InFlight(t) => key[t] \in exhausted \cup {index}

\* The calls that will learn what another has learnt already
Doomed == {t \in Tasks : InFlight(t) /\ key[t] \in spent}

Owed == IF exhausted = Keys THEN 0 ELSE Cardinality(Doomed)

MarksInv ==
  /\ RotationSettled
  /\ CallsAccounted
  /\ spent \subseteq exhausted
  /\ Cardinality(exhausted) + Owed <= Cardinality(Tasks) * Cardinality(spent)

LEMMA KeySetFinite ==
  ASSUME NEW S, S \subseteq Keys
  PROVE  IsFiniteSet(S) /\ Cardinality(S) \in Nat
<1>1. IsFiniteSet(Keys)
  BY KeysAssumption, FS_Interval DEF Keys
<1> QED  BY <1>1, FS_Subset, FS_CardinalityType

LEMMA TaskSetFinite ==
  ASSUME NEW S, S \subseteq Tasks
  PROVE  /\ IsFiniteSet(S) /\ Cardinality(S) \in Nat
         /\ Cardinality(S) <= Cardinality(Tasks)
BY AsyncGuardAssumption, FS_Subset, FS_CardinalityType

\* Any answer but the one that rotates, and any other end of a call
LEMMA MarksKept ==
  ASSUME TypeOK, MarksInv, UNCHANGED <<rotatorVars, spent>>,
         \A t \in Tasks : InFlight(t)' =>
           (InFlight(t) /\ key'[t] = key[t]) \/ key'[t] = index
  PROVE  MarksInv'
<1> USE DEF rotatorVars, MarksInv, TypeOK
<1>1. RotationSettled' /\ CallsAccounted' /\ (spent \subseteq exhausted)'
  BY DEF RotationSettled, CallsAccounted
<1>2. Owed' <= Owed /\ Owed' \in Nat /\ Owed \in Nat
  <2>1. CASE exhausted = Keys
    BY <2>1 DEF Owed
  <2>2. CASE exhausted # Keys
    <3>1. index \notin spent
      BY <2>2 DEF RotationSettled
    <3>2. Doomed' \subseteq Doomed
      BY <3>1 DEF Doomed
    <3>3. Doomed \subseteq Tasks
      BY DEF Doomed
    <3>4. IsFiniteSet(Doomed) /\ Cardinality(Doomed) \in Nat
      BY <3>3, TaskSetFinite
    <3>5. Cardinality(Doomed') \in Nat /\ Cardinality(Doomed') <= Cardinality(Doomed)
      BY <3>2, <3>4, FS_Subset, FS_CardinalityType
    <3> QED  BY <2>2, <3>4, <3>5 DEF Owed
  <2> QED  BY <2>1, <2>2
<1>3. /\ Cardinality(exhausted) \in Nat
      /\ Cardinality(Tasks) * Cardinality(spent) \in Nat
  BY KeySetFinite, TaskSetFinite, Products
<1> QED  BY <1>1, <1>2, <1>3

\* A rotation marks one key; what it costs is owed already or paid for by the
\* first report of the key
LEMMA MarksRotate ==
  ASSUME TypeOK, MarksInv, NEW t \in Tasks, AnswerMaxUsage(t)
  PROVE  MarksInv'
<1> DEFINE n == Cardinality(Tasks)
<1> USE DEF MarksInv, TypeOK
<1>1. /\ InFlight(t) /\ key[t] \in Keys /\ index \in Keys
      /\ exhausted' = exhausted \cup {index}
      /\ spent' = spent \cup {key[t]}
  BY DEF AnswerMaxUsage, Answered, InFlight, RotateToNext, RotateFails, MarkCurrent
<1>2. \A u \in Tasks : InFlight(u)' => u # t /\ InFlight(u) /\ key'[u] = key[u]
  BY DEF AnswerMaxUsage, Answered, InFlight, Await, TripAndReturn, Leave
<1>3. RotationSettled'
  BY DEF AnswerMaxUsage, RotateToNext, RotateFails, RotationSettled
<1>4. CallsAccounted'
  BY <1>1, <1>2 DEF CallsAccounted
<1>5. spent' \subseteq exhausted' /\ exhausted' \subseteq Keys /\ spent' \subseteq Keys
  BY <1>1 DEF CallsAccounted
<1>6. /\ Cardinality(exhausted) \in Nat /\ Cardinality(exhausted') \in Nat
      /\ Cardinality(exhausted') <= Cardinality(exhausted) + 1
  BY <1>1, <1>5, KeySetFinite, FS_AddElement
<1>7. /\ IsFiniteSet(Doomed) /\ Cardinality(Doomed) \in Nat
      /\ IsFiniteSet(Doomed') /\ Cardinality(Doomed') \in Nat
  <2>1. Doomed \subseteq Tasks /\ Doomed' \subseteq Tasks
    BY DEF Doomed
  <2> QED  BY <2>1, TaskSetFinite
<1>8. n \in Nat /\ Cardinality(spent) \in Nat /\ n * Cardinality(spent) \in Nat
  BY KeySetFinite, TaskSetFinite, Products
<1>9. CASE key[t] \in spent
  <2>1. spent' = spent
    BY <1>1, <1>9
  <2>2. t \in Doomed /\ Doomed' \subseteq Doomed \ {t}
    BY <1>1, <1>2, <1>9, <2>1 DEF Doomed
  <2>3. /\ IsFiniteSet(Doomed \ {t})
        /\ Cardinality(Doomed \ {t}) = Cardinality(Doomed) - 1
    BY <1>7, <2>2, FS_RemoveElement
  <2>4. Cardinality(Doomed') <= Cardinality(Doomed) - 1
    BY <2>2, <2>3, FS_Subset
  <2>5. CASE exhausted = Keys
    <3>1. exhausted' = exhausted
      BY <1>1, <2>5
    <3> QED  BY <1>3, <1>4, <1>5, <2>1, <2>5, <3>1 DEF Owed
  <2>6. CASE exhausted # Keys
    <3>1. Owed = Cardinality(Doomed)
      BY <2>6 DEF Owed
    <3>2. Owed' \in Nat /\ Owed' <= Cardinality(Doomed) - 1
      BY <1>7, <2>4 DEF Owed
    <3>3. Cardinality(exhausted') + Owed' <= n * Cardinality(spent)
      BY <1>6, <1>7, <1>8, <3>1, <3>2
    <3> QED  BY <1>3, <1>4, <1>5, <2>1, <3>3
  <2> QED  BY <2>5, <2>6
<1>10. CASE key[t] \notin spent
  <2>1. Cardinality(spent') = Cardinality(spent) + 1
    BY <1>1, <1>10, KeySetFinite, FS_AddElement
  <2>2. n * (Cardinality(spent) + 1) = n * Cardinality(spent) + n
    BY <1>8, Products
  <2>3. Doomed' \subseteq Tasks \ {t}
    BY <1>2 DEF Doomed
  <2>4. IsFiniteSet(Tasks \ {t}) /\ Cardinality(Tasks \ {t}) = n - 1
    BY AsyncGuardAssumption, FS_RemoveElement
  <2>5. Cardinality(Doomed') <= n - 1
    BY <2>3, <2>4, FS_Subset
  <2>6. n >= 1
    BY <1>7, <1>8, <2>5
  <2>7. Owed \in Nat /\ Owed' \in Nat /\ Owed' <= n - 1
    BY <1>7, <1>8, <2>5, <2>6 DEF Owed
  <2>8. Cardinality(exhausted') + Owed' <= n * Cardinality(spent')
    BY <1>6, <1>8, <2>1, <2>2, <2>7
  <2> QED  BY <1>3, <1>4, <1>5, <2>8
<1> QED  BY <1>9, <1>10

LEMMA MarksStep == TypeOK /\ MarksInv /\ [Next]_vars => MarksInv'
<1> SUFFICES ASSUME TypeOK, MarksInv, [Next]_vars PROVE MarksInv'
  OBVIOUS
<1> USE DEF InFlight, Await, Leave, Return, TypeOK
<1>1. ASSUME NEW t \in Tasks, AnswerMaxUsage(t) PROVE MarksInv'
  BY <1>1, MarksRotate
<1>2. ASSUME NEW t \in Tasks, Call(t) PROVE MarksInv'
  <2>1. UNCHANGED <<rotatorVars, spent>>
    BY <1>2 DEF Call
  <2>2. \A u \in Tasks : InFlight(u)' =>
          (InFlight(u) /\ key'[u] = key[u]) \/ key'[u] = index
    BY <1>2 DEF Call
  <2> QED  BY <2>1, <2>2, MarksKept
<1>3. ASSUME NEW t \in Tasks,
             \/ Start(t) \/ Backoff(t) \/ Cancel(t) \/ AnswerTransient(t)
             \/ AnswerRefused(t) \/ AnswerThrottled(t) \/ AnswerOk(t)
      PROVE  MarksInv'
  <2>1. UNCHANGED <<rotatorVars, spent>>
    BY <1>3 DEF Start, Backoff, Cancel, AnswerTransient, AnswerRefused,
                AnswerThrottled, AnswerOk
  <2>2. \A u \in Tasks : InFlight(u)' => InFlight(u) /\ key'[u] = key[u]
    BY <1>3 DEF Start, Backoff, Cancel, AnswerTransient, AnswerRefused,
                AnswerThrottled, AnswerOk, Answered, RetryOrReturn, TripAndReturn
  <2> QED  BY <2>1, <2>2, MarksKept
<1>4. ASSUME CircuitTick \/ QuotaWindowEnds \/ UNCHANGED vars PROVE MarksInv'
  <2>1. UNCHANGED <<rotatorVars, pc, key, spent>>
    BY <1>4 DEF CircuitTick, QuotaWindowEnds, vars
  <2>2. \A u \in Tasks : InFlight(u)' => InFlight(u) /\ key'[u] = key[u]
    BY <2>1
  <2> QED  BY <2>1, <2>2, MarksKept
<1> QED  BY <1>1, <1>2, <1>3, <1>4 DEF Next, Resume

\* However tasks rotate for one another, a key that has run out costs at most
\* one mark per task.
THEOREM MarksTheorem == Spec => []MarksBounded
<1>1. Init => MarksInv
  <2> SUFFICES ASSUME Init PROVE MarksInv
    OBVIOUS
  <2>1. /\ exhausted = {} /\ spent = {} /\ Doomed = {}
        /\ RotationSettled /\ CallsAccounted
    BY DEF Init, RotatorInit, RotationSettled, CallsAccounted, InFlight, Doomed
  <2>2. Cardinality(exhausted) = 0 /\ Owed = 0 /\ Cardinality(spent) = 0
    BY <2>1, FS_EmptySet DEF Owed
  <2>3. Cardinality(Tasks) * 0 = 0
    BY TaskSetFinite, Products
  <2> QED  BY <2>1, <2>2, <2>3 DEF MarksInv
<1>2. TypeOK /\ MarksInv => MarksBounded
  <2> SUFFICES ASSUME TypeOK, MarksInv PROVE MarksBounded
    OBVIOUS
  <2>1. Doomed \subseteq Tasks
    BY DEF Doomed
  <2>2. Owed \in Nat
    BY <2>1, TaskSetFinite DEF Owed
  <2>3. /\ Cardinality(exhausted) \in Nat
        /\ Cardinality(Tasks) * Cardinality(spent) \in Nat
    BY KeySetFinite, TaskSetFinite, Products DEF TypeOK
  <2> QED  BY <2>2, <2>3 DEF MarksInv, MarksBounded
<1> QED  BY <1>1, <1>2, TypeTheorem, MarksStep, PTL DEF Spec

-----------------------------------------------------------------------------
(* AsyncGuard implements Admission: a request is inside from the checks on  *)
(* entry, which roll the window if it is over, to its return.               *)

\* A task that leaves without a charge
LEMMA LeavesFree ==
  ASSUME TypeInv, NEW t \in Tasks, pc[t] # "idle", Leave(t), used' = used
  PROVE  Promise!Leave(t, 0)
  BY DEF TypeInv, TypeOK, Leave, Active, Promise!Leave, Promise!Base

LEMMA PromiseStep ==
  TypeInv /\ [Next]_vars => [Promise!Next]_<<Active, used>>
<1> SUFFICES ASSUME TypeInv, [Next]_vars
             PROVE  Promise!Next \/ UNCHANGED <<Active, used>>
  OBVIOUS
<1>0. 0 \in 0 .. MaxCost
  BY AsyncGuardAssumption
<1>1. ASSUME NEW t \in Tasks, Start(t)
      PROVE  Promise!Next \/ UNCHANGED <<Active, used>>
  <2>1. Active' = Active \cup {t} /\ t \notin Active
    BY <1>1 DEF Start, Await, Active, TypeInv, TypeOK
  <2>2. \E base \in {used, 0} : base < MaxCredits /\ used' = base
    BY <1>1, QuotaAssumption
    DEF Start, RollIfNeeded, Roll, IsExhausted, quotaVars, TypeInv, TypeOK
  <2> QED  BY <2>1, <2>2 DEF Promise!Next, Promise!Admit, Promise!Base
<1>2. ASSUME NEW t \in Tasks, pc[t] # "idle", used' = used,
             \/ Leave(t)
             \/ \E what \in Awaits : pc' = [pc EXCEPT ![t] = what]
      PROVE  Promise!Next \/ UNCHANGED <<Active, used>>
  <2>1. CASE Leave(t)
    BY <1>0, <1>2, <2>1, LeavesFree DEF Promise!Next
  <2>2. CASE \E what \in Awaits : pc' = [pc EXCEPT ![t] = what]
    BY <1>2, <2>2 DEF Active, Awaits, TypeInv, TypeOK
  <2> QED  BY <1>2, <2>1, <2>2
<1>3. ASSUME NEW t \in Tasks,
             \/ Call(t) \/ Backoff(t) \/ Cancel(t) \/ AnswerTransient(t)
             \/ AnswerRefused(t) \/ AnswerMaxUsage(t) \/ AnswerThrottled(t)
      PROVE  Promise!Next \/ UNCHANGED <<Active, used>>
  <2>1. pc[t] # "idle" /\ used' = used
    BY <1>3 DEF Call, Backoff, Cancel, Awaits, AnswerTransient, AnswerRefused,
                AnswerMaxUsage, AnswerThrottled, Answered, quotaVars
  <2>2. Leave(t) \/ \E what \in Awaits : pc' = [pc EXCEPT ![t] = what]
    BY <1>3 DEF Call, Backoff, Cancel, Awaits, AnswerTransient, AnswerRefused,
                AnswerMaxUsage, AnswerThrottled, Await, Return, RetryOrReturn,
                TripAndReturn
  <2> QED  BY <1>2, <2>1, <2>2
<1>4. ASSUME NEW t \in Tasks, AnswerOk(t)
      PROVE  Promise!Next
  <2>1. PICK credits \in Costs :
          used' = (IF windowOver THEN 0 ELSE used) + credits
    BY <1>4 DEF AnswerOk, Charge
  <2>2. credits \in 0 .. MaxCost
    BY AsyncGuardAssumption
  <2>3. Active' = Active \ {t} /\ t \in Active
    BY <1>4 DEF AnswerOk, Answered, Return, Leave, Active, TypeInv, TypeOK
  <2> QED  BY <2>1, <2>2, <2>3 DEF Promise!Next, Promise!Leave, Promise!Base
<1>5. CASE CircuitTick \/ QuotaWindowEnds \/ UNCHANGED vars
  BY <1>5 DEF CircuitTick, QuotaWindowEnds, WindowEnds, vars, quotaVars, Active
<1> QED  BY <1>1, <1>3, <1>4, <1>5 DEF Next, Resume

\* Every behaviour of the guard is one of Admission, whoever is cancelled.
THEOREM RefinementTheorem == Spec => AdmissionKept
<1>1. Init => Promise!Init
  BY DEF Init, QuotaInit, Promise!Init, Active
<1> QED  BY <1>1, TypeInvariant, PromiseStep, PTL
         DEF Spec, AdmissionKept, Promise!Spec, Promise!vars

-----------------------------------------------------------------------------
(* The credits: the bound follows from the promise.                         *)

LEMMA Monotone ==
  ASSUME NEW m \in Nat, NEW a \in Nat, NEW b \in Nat, a <= b
  PROVE  m * a <= m * b
<1>1. PICK d \in Nat : b = a + d
  <2>1. b - a \in Nat /\ b = a + (b - a)
    OBVIOUS
  <2> QED  BY <2>1
<1>2. m * b = m * a + m * d /\ m * d \in Nat /\ m * a \in Nat
  BY <1>1
<1> QED  BY <1>2

LEMMA BelowQuota ==
  ASSUME NEW u \in Nat, NEW d \in Nat, NEW m \in Nat, NEW q \in Nat,
         u <= q - 1, d <= m
  PROVE  u + d <= q - 1 + m
  OBVIOUS

\* What a set of callers may still be charged
LEMMA Outstanding ==
  ASSUME NEW S \in SUBSET Tasks
  PROVE  /\ MaxCost * Cardinality(S) \in Nat
         /\ MaxCost * Cardinality(Tasks) \in Nat
         /\ MaxCost * Cardinality(S) <= MaxCost * Cardinality(Tasks)
         /\ \A t \in S :
              MaxCost * Cardinality(S \ {t}) = MaxCost * Cardinality(S) - MaxCost
<1> DEFINE n == Cardinality(S)
<1>1. IsFiniteSet(S) /\ n \in Nat /\ Cardinality(Tasks) \in Nat
      /\ n <= Cardinality(Tasks) /\ MaxCost \in Nat
  BY AsyncGuardAssumption, FS_Subset, FS_CardinalityType
<1>2. MaxCost * n <= MaxCost * Cardinality(Tasks)
  BY <1>1, Monotone
<1>3. ASSUME NEW t \in S PROVE MaxCost * Cardinality(S \ {t}) = MaxCost * n - MaxCost
  <2>1. Cardinality(S \ {t}) = n - 1
    BY <1>1, FS_RemoveElement
  <2> HIDE DEF n
  <2> QED  BY <1>1, <2>1
<1> QED  BY <1>1, <1>2, <1>3

\* The quota is overshot by less than one full charge for each task, whatever the
\* tasks are charged and whoever is cancelled.
THEOREM OvershootTheorem == Spec => []OvershootBounded
<1> USE DEF OvershootBounded
<1> DEFINE most == MaxCost * Cardinality(Tasks)
           due == MaxCost * Cardinality(Active)
<1>1. Init => OvershootBounded
  <2> SUFFICES ASSUME Init PROVE OvershootBounded
    OBVIOUS
  <2>1. used = 0 /\ Active \in SUBSET Tasks
    BY DEF Init, QuotaInit, Active
  <2>2. due \in Nat /\ most \in Nat /\ due <= most
    BY <2>1, Outstanding
  <2> HIDE DEF due, most
  <2>3. used + due <= MaxCredits - 1 + most
    BY <2>1, <2>2, QuotaAssumption
  <2> QED  BY <2>3 DEF due, most
<1>2. /\ TypeInv /\ TypeInv' /\ OvershootBounded
      /\ [Promise!Next]_<<Active, used>>
      => OvershootBounded'
  <2> SUFFICES ASSUME TypeInv, TypeInv', OvershootBounded,
                      [Promise!Next]_<<Active, used>>
               PROVE  OvershootBounded'
    OBVIOUS
  <2>1. /\ Active \in SUBSET Tasks /\ Active' \in SUBSET Tasks
        /\ used \in Nat /\ used' \in Nat
    BY DEF Active, TypeInv, TypeOK
  <2>2. /\ due \in Nat /\ due' \in Nat /\ most \in Nat
        /\ due <= most /\ due' <= most
    BY <2>1, Outstanding
  <2>3. used + due <= MaxCredits - 1 + most
    OBVIOUS
  <2>4. ASSUME used' <= MaxCredits - 1 PROVE used' + due' <= MaxCredits - 1 + most
    BY <2>1, <2>2, <2>4, QuotaAssumption, BelowQuota
  <2>5. ASSUME NEW c \in Tasks, Promise!Admit(c)  PROVE used' <= MaxCredits - 1
    BY <2>1, <2>5, QuotaAssumption DEF Promise!Admit, Promise!Base
  <2>6. ASSUME NEW c \in Tasks, NEW cost \in 0 .. MaxCost, Promise!Leave(c, cost)
        PROVE  used' + due' <= MaxCredits - 1 + most
    <3>1. PICK base \in {used, 0} : used' = base + cost
      BY <2>6 DEF Promise!Leave, Promise!Base
    <3>2. due' = due - MaxCost
      BY <2>1, <2>6, Outstanding DEF Promise!Leave
    <3> HIDE DEF due, most
    <3> QED  BY <2>1, <2>2, <2>3, <3>1, <3>2, AsyncGuardAssumption, QuotaAssumption
  <2>7. CASE Promise!Roll
    BY <2>4, <2>7, QuotaAssumption DEF Promise!Roll
  <2>8. CASE UNCHANGED <<Active, used>>
    BY <2>3, <2>8
  <2> QED  BY <2>4, <2>5, <2>6, <2>7, <2>8 DEF Promise!Next
<1> QED  BY <1>1, <1>2, TypeInvariant, PromiseStep, PTL DEF Spec
==============================================================================
