-------------------------- MODULE CircuitUsers_proofs --------------------------
(***************************************************************************)
(* Theorems about the two other users of the circuit, the transports and   *)
(* the decorators, for any number of callers, retries, tasks and credits.  *)
(* The two modules have the variables of CircuitBreaker in common, as      *)
(* parameters of two sets of theorems: nothing is said of a circuit that   *)
(* both of them use.                                                       *)
(***************************************************************************)
EXTENDS Transport, Decorators, FiniteSetTheorems, TLAPS

-----------------------------------------------------------------------------
(* The transports: types and responses. What makes ResponsesAccounted       *)
(* inductive is what a response is wherever the exchange may be, and that   *)
(* an exchange closes and sleeps only before an attempt that is left to it. *)

RetriesFollow ==
  \A c \in Callers : pc[c] \in {"closing", "sleeping"} => ~LastAttempt(c)

\* Where an exchange has a response to return or to close
Keeping == {"counting", "opening", "clearing", "checking", "closing", "tripping",
            "succeeding"}

ResponseKept ==
  \A c \in Callers :
    /\ At(c, "idle") => (response[c] = "open" <=> outcome[c] \in {"response", "unclosed"})
    /\ At(c, "limiter") => response[c] # "open"
    /\ At(c, "sending") => response[c] = "none"
    /\ At(c, "sleeping") => response[c] = "closed"
    /\ pc[c] \in Keeping => response[c] = "open"

ExchangeInv == TypeOK /\ RetriesFollow /\ ResponseKept

LEMMA ExchangeInvInit == Init => ExchangeInv
  BY TransportAssumption
  DEF Init, CircuitInit, ExchangeInv, TypeOK, Labels, RetriesFollow, ResponseKept, Keeping, At

LEMMA ExchangeInvStep == ExchangeInv /\ [Next]_vars => ExchangeInv'
<1> SUFFICES ASSUME ExchangeInv, [Next]_vars PROVE ExchangeInv'
  OBVIOUS
<1> USE TransportAssumption
    DEF ExchangeInv, TypeOK, Labels, RetriesFollow, ResponseKept, Keeping, At, Goto, End, Return,
        Raise, Continue, Respond, LastAttempt, circuitVars
<1>1. ASSUME NEW c \in Callers, Start(c) PROVE ExchangeInv'
  BY <1>1 DEF Start
<1>2. ASSUME NEW c \in Callers, Send(c) PROVE ExchangeInv'
  BY <1>2 DEF Send
<1>3. ASSUME NEW c \in Callers, Answer(c) PROVE ExchangeInv'
  <2>1. CASE AnswerRaises(c) \/ AnswerMaxUsage(c) \/ AnswerThrottled(c)
    BY <2>1 DEF Answered, AnswerRaises, AnswerMaxUsage, AnswerThrottled
  <2>2. CASE AnswerUnavailable(c)
    BY <2>2 DEF Answered, AnswerUnavailable
  <2>3. CASE AnswerRefused(c) \/ AnswerOk(c)
    BY <2>3 DEF Answered, AnswerRefused, AnswerOk
  <2> QED  BY <1>3, <2>1, <2>2, <2>3 DEF Answer
<1>4. ASSUME NEW c \in Callers, FailCount(c) PROVE ExchangeInv'
  BY <1>4 DEF FailCount, CountFailure
<1>5. ASSUME NEW c \in Callers, FailTrip(c) PROVE ExchangeInv'
  BY <1>5, CircuitAssumption DEF FailTrip, Trip
<1>6. ASSUME NEW c \in Callers, FailClear(c) PROVE ExchangeInv'
  BY <1>6 DEF FailClear, ClearStreak
<1>7. ASSUME NEW c \in Callers, FailCheck(c) PROVE ExchangeInv'
  BY <1>7 DEF FailCheck
<1>8. ASSUME NEW c \in Callers, Close(c) \/ CloseRaises(c) \/ Sleep(c) PROVE ExchangeInv'
  BY <1>8 DEF Close, CloseRaises, Sleep
<1>9. ASSUME NEW c \in Callers, TripLong(c) PROVE ExchangeInv'
  BY <1>9 DEF TripLong, Trip
<1>10. ASSUME NEW c \in Callers, Success(c) PROVE ExchangeInv'
  BY <1>10 DEF Success, RecordSuccess
<1>11. ASSUME NEW c \in Callers, Cancel(c) PROVE ExchangeInv'
  BY <1>11 DEF Cancel
<1>12. CASE CircuitTick
  BY <1>12 DEF CircuitTick, Elapse, IsOpen, exchanges
<1>13. CASE UNCHANGED vars
  BY <1>13 DEF vars, exchanges
<1> QED  BY <1>1, <1>2, <1>3, <1>4, <1>5, <1>6, <1>7, <1>8, <1>9, <1>10, <1>11, <1>12,
            <1>13 DEF Next, Proceed

LEMMA ExchangeInvariance == Spec => []ExchangeInv
  BY ExchangeInvInit, ExchangeInvStep, PTL DEF Spec

\* Every variable keeps its type; no exchange begins an attempt beyond the last.
THEOREM ExchangeTypeTheorem == Spec => []TypeOK
<1>1. ExchangeInv => TypeOK
  BY DEF ExchangeInv
<1> QED  BY <1>1, ExchangeInvariance, PTL

\* Each response is closed before its exchange sleeps or sends again, or it is
\* returned, and not both, or the exchange ended in the middle of closing it:
\* wherever a task is cancelled and whatever raises, for any number of callers.
THEOREM ResponsesTheorem == Spec => []ResponsesAccounted
<1>1. ExchangeInv => ResponsesAccounted
  BY DEF ExchangeInv, ResponseKept, ResponsesAccounted, At
<1> QED  BY <1>1, ExchangeInvariance, PTL

-----------------------------------------------------------------------------
(* What may still go out. Each send uses up one of the attempts that the    *)
(* exchanges have left, and while the circuit is open none gets more: an    *)
(* exchange past its answer returns, and none begins. The attempts are a    *)
(* set of pairs, so that their number is a cardinality.                     *)

Attempts == Callers \X (0 .. Retries - 1)

\* The next attempt an exchange may make while the circuit is open, Retries if none
NextAttempt(c) ==
  IF At(c, "limiter") THEN attempt[c]
  ELSE IF pc[c] \in {"sending", "closing", "sleeping"} THEN attempt[c] + 1
  ELSE Retries

AttemptsLeft == {a \in Attempts : a[2] >= NextAttempt(a[1])}

SendsBounded ==
  IF IsOpen
    THEN sentOpen + Cardinality(AttemptsLeft) <= (Cardinality(Callers) - 1) * Retries
    ELSE sentOpen = 0

LEMMA AttemptsFinite ==
  ASSUME NEW S \in SUBSET Attempts
  PROVE  IsFiniteSet(S) /\ Cardinality(S) \in Nat
<1>1. IsFiniteSet(0 .. Retries - 1)
  BY TransportAssumption, FS_Interval
<1>2. IsFiniteSet(Attempts)
  BY <1>1, TransportAssumption, FS_Product DEF Attempts
<1> QED  BY <1>2, FS_Subset, FS_CardinalityType

LEMMA LeftFinite ==
  /\ IsFiniteSet(AttemptsLeft) /\ Cardinality(AttemptsLeft) \in Nat
  /\ IsFiniteSet(AttemptsLeft') /\ Cardinality(AttemptsLeft') \in Nat
<1>1. AttemptsLeft \in SUBSET Attempts /\ AttemptsLeft' \in SUBSET Attempts
  BY DEF AttemptsLeft
<1> QED  BY <1>1, AttemptsFinite

\* The attempts of all callers but one
LEMMA OthersAttempts ==
  ASSUME NEW c \in Callers, NEW S \in SUBSET Attempts, \A a \in S : a[1] # c
  PROVE  Cardinality(S) <= (Cardinality(Callers) - 1) * Retries
<1> DEFINE Others == Callers \ {c}
           Rounds == 0 .. Retries - 1
<1>1. /\ IsFiniteSet(Others)
      /\ Cardinality(Others) = Cardinality(Callers) - 1
  BY TransportAssumption, FS_RemoveElement
<1>2. IsFiniteSet(Rounds) /\ Cardinality(Rounds) = Retries
  BY TransportAssumption, FS_Interval
<1>3. /\ IsFiniteSet(Others \X Rounds)
      /\ Cardinality(Others \X Rounds) = Cardinality(Others) * Cardinality(Rounds)
  BY <1>1, <1>2, FS_Product
<1>4. S \subseteq Others \X Rounds
  BY DEF Attempts
<1> QED  BY <1>1, <1>2, <1>3, <1>4, FS_Subset

\* No caller has more attempts left
LEMMA FewerLeft ==
  ASSUME \A c \in Callers : \A i \in 0 .. Retries - 1 :
           i >= NextAttempt(c)' => i >= NextAttempt(c)
  PROVE  Cardinality(AttemptsLeft') <= Cardinality(AttemptsLeft)
<1>1. AttemptsLeft' \subseteq AttemptsLeft
  BY DEF AttemptsLeft, Attempts
<1> QED  BY <1>1, LeftFinite, FS_Subset

\* A step while the circuit is open, that keeps it open and sends nothing
LEMMA QuietStep ==
  ASSUME SendsBounded, IsOpen => IsOpen', ~IsOpen => ~IsOpen', sentOpen \in Nat,
         sentOpen' = sentOpen,
         IsOpen => Cardinality(AttemptsLeft') <= Cardinality(AttemptsLeft)
  PROVE  SendsBounded'
<1>1. Cardinality(Callers) \in Nat /\ Retries \in Nat
  BY TransportAssumption, FS_CardinalityType
<1>2. (Cardinality(Callers) - 1) * Retries \in Int
  BY <1>1
<1> QED  BY <1>2, LeftFinite DEF SendsBounded

\* The circuit opens, or opens anew, and the caller that does it sends no more
LEMMA TripStep ==
  ASSUME ExchangeInv, SendsBounded, NEW c \in Callers, openFor' > 0, sentOpen' = sentOpen,
         NextAttempt(c)' = Retries,
         \A d \in Callers \ {c} : NextAttempt(d)' = NextAttempt(d),
         NextAttempt(c) \in Nat, NextAttempt(c) <= Retries
  PROVE  SendsBounded'
<1>1. CASE IsOpen
  <2>1. Cardinality(AttemptsLeft') <= Cardinality(AttemptsLeft)
    <3>1. \A d \in Callers : \A i \in 0 .. Retries - 1 :
            i >= NextAttempt(d)' => i >= NextAttempt(d)
      BY TransportAssumption
    <3> QED  BY <3>1, FewerLeft
  <2>2. IsOpen'
    BY DEF IsOpen
  <2> QED  BY <1>1, <2>1, <2>2, QuietStep DEF ExchangeInv, TypeOK
<1>2. CASE ~IsOpen
  <2>1. \A a \in AttemptsLeft' : a[1] # c
    BY TransportAssumption DEF AttemptsLeft, Attempts
  <2>2. AttemptsLeft' \in SUBSET Attempts
    BY DEF AttemptsLeft
  <2>3. Cardinality(AttemptsLeft') <= (Cardinality(Callers) - 1) * Retries
    BY <2>1, <2>2, OthersAttempts
  <2>4. sentOpen' = 0
    BY <1>2 DEF SendsBounded
  <2>5. sentOpen' + Cardinality(AttemptsLeft') = Cardinality(AttemptsLeft')
    BY <2>4, LeftFinite
  <2> QED  BY <2>3, <2>5 DEF SendsBounded, IsOpen
<1> QED  BY <1>1, <1>2

\* A step of an exchange that leaves the circuit alone: while the circuit is
\* open, its next attempt does not come earlier
LEMMA ExchangeStep ==
  ASSUME ExchangeInv, SendsBounded, NEW c \in Callers,
         \/ Start(c) \/ Answer(c) \/ FailCheck(c) \/ Close(c) \/ CloseRaises(c)
         \/ Sleep(c) \/ Cancel(c)
  PROVE  SendsBounded'
<1>1. openFor' = openFor /\ sentOpen' = sentOpen
  BY DEF Start, Answer, Answered, AnswerRaises, AnswerMaxUsage, AnswerThrottled,
         AnswerUnavailable, AnswerRefused, AnswerOk, FailCheck, Close, CloseRaises,
         Sleep, Cancel, circuitVars
<1>2. \A d \in Callers \ {c} : pc'[d] = pc[d] /\ attempt'[d] = attempt[d]
  BY DEF Start, Answer, Answered, AnswerRaises, AnswerMaxUsage, AnswerThrottled,
         AnswerUnavailable, AnswerRefused, AnswerOk, FailCheck, Close, CloseRaises, Sleep, Cancel,
         ExchangeInv, TypeOK, Goto, End, Return, Raise, Continue
<1>3. IsOpen => \/ NextAttempt(c)' = Retries
                \/ NextAttempt(c)' = NextAttempt(c)
  BY TransportAssumption
  DEF Start, Answer, Answered, AnswerRaises, AnswerMaxUsage, AnswerThrottled,
      AnswerUnavailable, AnswerRefused, AnswerOk, FailCheck, Close, CloseRaises, Sleep,
      Cancel, ExchangeInv, TypeOK, Goto, End, Return, Raise, Continue, NextAttempt, At
<1>4. IsOpen => \A d \in Callers : \A i \in 0 .. Retries - 1 :
                  i >= NextAttempt(d)' => i >= NextAttempt(d)
  BY <1>2, <1>3, TransportAssumption DEF NextAttempt, At
<1>5. IsOpen => Cardinality(AttemptsLeft') <= Cardinality(AttemptsLeft)
  BY <1>4, FewerLeft
<1>6. IsOpen' = IsOpen
  BY <1>1 DEF IsOpen
<1> QED  BY <1>1, <1>5, <1>6, QuietStep DEF ExchangeInv, TypeOK

\* A request that goes out is one attempt less
LEMMA SendStep ==
  ASSUME ExchangeInv, SendsBounded, NEW c \in Callers, Send(c)
  PROVE  SendsBounded'
<1>0. IsOpen' = IsOpen
  BY DEF Send, IsOpen, circuitVars
<1>1. CASE ~IsOpen
  BY <1>0, <1>1 DEF Send, SendsBounded
<1>2. CASE IsOpen
  <2>1. attempt[c] \in 0 .. Retries - 1 /\ NextAttempt(c) = attempt[c]
    BY DEF Send, ExchangeInv, TypeOK, NextAttempt
  <2>2. NextAttempt(c)' = attempt[c] + 1
    BY DEF Send, ExchangeInv, TypeOK, NextAttempt, At, Goto, Continue
  <2>3. \A d \in Callers \ {c} : NextAttempt(d)' = NextAttempt(d)
    BY DEF Send, ExchangeInv, TypeOK, NextAttempt, At, Goto, Continue
  <2>4. <<c, attempt[c]>> \in AttemptsLeft
    BY <2>1 DEF AttemptsLeft, Attempts
  <2>5. AttemptsLeft' = AttemptsLeft \ {<<c, attempt[c]>>}
    <3>1. ASSUME NEW a \in Attempts
          PROVE  a[2] >= NextAttempt(a[1])'
                   <=> a[2] >= NextAttempt(a[1]) /\ a # <<c, attempt[c]>>
      <4>1. a[1] \in Callers /\ a[2] \in 0 .. Retries - 1 /\ a = <<a[1], a[2]>>
        BY DEF Attempts
      <4>2. CASE a[1] = c
        BY <2>1, <2>2, <4>1, <4>2
      <4>3. CASE a[1] # c
        BY <2>3, <4>1, <4>3
      <4> QED  BY <4>2, <4>3
    <3> QED  BY <3>1 DEF AttemptsLeft, Attempts
  <2>6. Cardinality(AttemptsLeft') = Cardinality(AttemptsLeft) - 1
    BY <2>4, <2>5, LeftFinite, FS_RemoveElement
  <2>7. sentOpen' + Cardinality(AttemptsLeft') = sentOpen + Cardinality(AttemptsLeft)
    BY <1>2, <2>6, LeftFinite DEF Send, ExchangeInv, TypeOK
  <2> QED  BY <1>0, <1>2, <2>7 DEF SendsBounded
<1> QED  BY <1>1, <1>2

LEMMA SendsStep == ExchangeInv /\ SendsBounded /\ [Next]_vars => SendsBounded'
<1> SUFFICES ASSUME ExchangeInv, SendsBounded, [Next]_vars PROVE SendsBounded'
  OBVIOUS
<1>1. ASSUME NEW c \in Callers, FailCount(c) \/ FailClear(c) PROVE SendsBounded'
  <2>1. openFor' = openFor /\ sentOpen' = sentOpen
    BY <1>1 DEF FailCount, FailClear
  <2>2. \A d \in Callers : NextAttempt(d)' = NextAttempt(d)
    BY <1>1 DEF FailCount, FailClear, ExchangeInv, TypeOK, NextAttempt, At, Goto, Continue
  <2>3. AttemptsLeft' = AttemptsLeft
    BY <2>2 DEF AttemptsLeft, Attempts
  <2> QED  BY <2>1, <2>3 DEF SendsBounded, IsOpen
<1>2. ASSUME NEW c \in Callers, FailTrip(c) \/ TripLong(c) PROVE SendsBounded'
  <2>1. openFor' > 0 /\ sentOpen' = sentOpen
    BY <1>2, CircuitAssumption, TransportAssumption DEF FailTrip, TripLong, Trip
  <2>2. NextAttempt(c)' = Retries /\ NextAttempt(c) = Retries
    BY <1>2 DEF FailTrip, TripLong, ExchangeInv, TypeOK, NextAttempt, At, Goto,
                   End, Return, Continue
  <2>3. \A d \in Callers \ {c} : NextAttempt(d)' = NextAttempt(d)
    BY <1>2 DEF FailTrip, TripLong, ExchangeInv, TypeOK, NextAttempt, At, Goto,
                   End, Return, Continue
  <2> QED  BY <2>1, <2>2, <2>3, TripStep, TransportAssumption
<1>3. ASSUME NEW c \in Callers, Success(c) PROVE SendsBounded'
  BY <1>3 DEF Success, RecordSuccess, SendsBounded, IsOpen
<1>4. CASE CircuitTick
  <2>1. \A d \in Callers : NextAttempt(d)' = NextAttempt(d)
    BY <1>4 DEF CircuitTick, exchanges, NextAttempt, At
  <2>2. AttemptsLeft' = AttemptsLeft
    BY <2>1 DEF AttemptsLeft, Attempts
  <2> QED  BY <1>4, <2>2 DEF CircuitTick, Elapse, SendsBounded, IsOpen
<1>5. CASE UNCHANGED vars
  <2>1. \A d \in Callers : NextAttempt(d)' = NextAttempt(d)
    BY <1>5 DEF vars, exchanges, NextAttempt, At
  <2>2. AttemptsLeft' = AttemptsLeft
    BY <2>1 DEF AttemptsLeft, Attempts
  <2> QED  BY <1>5, <2>2 DEF vars, circuitVars, SendsBounded, IsOpen
<1> QED  BY <1>1, <1>2, <1>3, <1>4, <1>5, SendStep, ExchangeStep DEF Next, Proceed

\* At most Retries requests of each exchange but one go out while the circuit is
\* open, however often it is opened anew: for every number of callers and retries.
THEOREM SendsTheorem == Spec => []OpenSendsBounded
<1>1. Init => SendsBounded
  BY DEF Init, CircuitInit, SendsBounded, IsOpen
<1>2. ExchangeInv /\ SendsBounded => OpenSendsBounded
  <2> SUFFICES ASSUME ExchangeInv, SendsBounded, IsOpen
               PROVE  sentOpen <= (Cardinality(Callers) - 1) * Retries
    BY DEF OpenSendsBounded
  <2>1. (Cardinality(Callers) - 1) * Retries \in Int
    BY TransportAssumption, FS_CardinalityType
  <2> QED  BY <2>1, LeftFinite DEF SendsBounded, ExchangeInv, TypeOK
<1> QED  BY <1>1, <1>2, ExchangeInvariance, SendsStep, PTL DEF Spec

-----------------------------------------------------------------------------
(* The decorators: types and the gauge, the numbers and the flags apart.    *)

Numbers ==
  /\ failures \in 0 .. FailureThreshold - 1
  /\ openFor \in 0 .. OpenSeconds
  /\ used \in Nat
  /\ circuitOpen \in {0, 1}
  /\ awaits \in [Tasks -> {"idle", "slot", "flight"}]

Flags == windowOver \in BOOLEAN /\ unreset \in BOOLEAN

DecoratedInv == Numbers /\ Flags /\ OpenShown

LEMMA FailureReported ==
  ASSUME Numbers, OpenShown, ReportFailure
  PROVE  /\ failures' \in 0 .. FailureThreshold - 1
         /\ openFor' \in 0 .. OpenSeconds
         /\ circuitOpen' \in {0, 1}
         /\ openFor' > 0 => circuitOpen' = 1
<1> USE CircuitAssumption DEF Numbers, OpenShown, IsOpen, ReportFailure
<1>1. CASE ReachesThreshold
  BY <1>1 DEF Trip, ClearStreak, OnEvent
<1>2. CASE ~ReachesThreshold
  BY <1>2 DEF CountFailure, ReachesThreshold
<1> QED  BY <1>1, <1>2

LEMMA SuccessReported ==
  ASSUME Numbers, ReportSuccess
  PROVE  failures' = 0 /\ openFor' = 0 /\ circuitOpen' \in {0, 1}
<1>1. circuitOpen' = 0 \/ circuitOpen' = circuitOpen
  BY DEF ReportSuccess, OnEvent
<1> QED  BY <1>1 DEF Numbers, ReportSuccess, RecordSuccess

LEMMA NumbersStep ==
  Numbers /\ OpenShown /\ [DecoratedNext]_decoratedVars => Numbers' /\ OpenShown'
<1> SUFFICES ASSUME Numbers, OpenShown, [DecoratedNext]_decoratedVars PROVE Numbers' /\ OpenShown'
  OBVIOUS
<1> USE DEF OpenShown, IsOpen, Step, circuitVars, breaker, quotaVars
<1>1. ASSUME NEW t \in Tasks, Call(t) \/ TurnedAway(t) \/ CancelCall(t)
      PROVE  Numbers' /\ OpenShown'
  BY <1>1 DEF Call, TurnedAway, CancelCall, Numbers
<1>2. ASSUME NEW t \in Tasks, Enter(t) PROVE Numbers' /\ OpenShown'
  <2>1. used' \in {0, used}
    BY <1>2 DEF Enter, RollIfNeeded, Roll
  <2> QED  BY <1>2, <2>1 DEF Enter, Numbers
<1>3. ASSUME NEW t \in Tasks, Good(t) PROVE Numbers' /\ OpenShown'
  <2>1. failures' = 0 /\ openFor' = 0 /\ circuitOpen' \in {0, 1}
    BY <1>3, SuccessReported DEF Good, Succeed, Skip
  <2>2. used' \in {used, Credits, used + Credits}
    BY <1>3, DecoratorsAssumption DEF Good, Succeed, Skip, Charge, Numbers
  <2>3. awaits' = [awaits EXCEPT ![t] = "idle"]
    BY <1>3 DEF Good, Succeed, Skip
  <2> QED  BY <2>1, <2>2, <2>3, CircuitAssumption, DecoratorsAssumption DEF Numbers
<1>4. ASSUME NEW t \in Tasks, Bad(t) PROVE Numbers' /\ OpenShown'
  <2>1. ReportFailure /\ awaits' = [awaits EXCEPT ![t] = "idle"]
    BY <1>4 DEF Bad, Fail, ChargeRaises, RollRaises
  <2>2. used' \in {0, used, Credits, used + Credits}
    BY <1>4, DecoratorsAssumption
    DEF Bad, Fail, ChargeRaises, RollRaises, Charge, Roll, Numbers
  <2>3. /\ failures' \in 0 .. FailureThreshold - 1
        /\ openFor' \in 0 .. OpenSeconds
        /\ circuitOpen' \in {0, 1}
        /\ openFor' > 0 => circuitOpen' = 1
    BY <2>1, FailureReported
  <2> QED  BY <2>1, <2>2, <2>3, DecoratorsAssumption DEF Numbers
<1>5. CASE BreakerTick
  BY <1>5, CircuitAssumption DEF BreakerTick, Elapse, Numbers
<1>6. CASE QuotaWindowEnds \/ UNCHANGED decoratedVars
  BY <1>6 DEF QuotaWindowEnds, WindowEnds, decoratedVars, Numbers
<1> QED  BY <1>1, <1>2, <1>3, <1>4, <1>5, <1>6 DEF DecoratedNext

LEMMA FlagsStep == Flags /\ [DecoratedNext]_decoratedVars => Flags'
<1> SUFFICES ASSUME Flags, [DecoratedNext]_decoratedVars PROVE Flags'
  OBVIOUS
<1>1. windowOver' = windowOver \/ windowOver' = FALSE \/ windowOver' = TRUE
  BY DEF DecoratedNext, decoratedVars, breaker, circuitVars, quotaVars, Call, TurnedAway, CancelCall, Enter,
         RollIfNeeded, Roll, Good, Succeed, Skip, Charge, Bad, Fail, ChargeRaises,
         RollRaises, BreakerTick, QuotaWindowEnds, WindowEnds
<1>2. unreset' = unreset \/ unreset' = FALSE \/ unreset' = TRUE
  BY DEF DecoratedNext, decoratedVars, breaker, circuitVars, Call, TurnedAway, CancelCall, Enter, Good,
         Succeed, Skip, Bad, Fail, ChargeRaises, RollRaises, BreakerTick,
         QuotaWindowEnds, ReportFailure, ReportSuccess
<1> QED  BY <1>1, <1>2, Zenon DEF Flags

LEMMA DecoratedInvariance == DecoratedSpec => []DecoratedInv
<1>1. DecoratedInit => Numbers /\ OpenShown
  BY CircuitAssumption
  DEF DecoratedInit, CircuitInit, QuotaInit, GaugeInit, Numbers, OpenShown, IsOpen
<1>2. DecoratedInit => Flags
  BY Zenon DEF DecoratedInit, QuotaInit, Flags
<1> QED  BY <1>1, <1>2, NumbersStep, FlagsStep, PTL DEF DecoratedSpec, DecoratedInv

\* Every variable keeps its type; the streak stays below the threshold.
THEOREM DecoratedTypeTheorem == DecoratedSpec => []DecoratedTypeOK
<1>1. DecoratedInv => DecoratedTypeOK
  BY Zenon DEF DecoratedInv, Numbers, Flags, DecoratedTypeOK
<1> QED  BY <1>1, DecoratedInvariance, PTL

\* The gauge shows an open circuit, for any number of tasks under way.
THEOREM ShownTheorem == DecoratedSpec => []OpenShown
<1>1. DecoratedInv => OpenShown
  BY DEF DecoratedInv
<1> QED  BY <1>1, DecoratedInvariance, PTL

-----------------------------------------------------------------------------
(* Decorators implements Admission.                                         *)

LEMMA PromiseStep ==
  DecoratedInv /\ [DecoratedNext]_decoratedVars => [Promise!Next]_<<InFlight, used>>
<1> SUFFICES ASSUME DecoratedInv, [DecoratedNext]_decoratedVars
             PROVE  Promise!Next \/ UNCHANGED <<InFlight, used>>
  OBVIOUS
<1>0. 0 \in 0 .. Credits /\ Credits \in 0 .. Credits
  BY DecoratorsAssumption
<1> USE DEF DecoratedInv, Numbers, Step, quotaVars, InFlight
\* A call that ends pays credits, counted from used or from a new window
<1>1. ASSUME NEW t \in Tasks, NEW cost \in 0 .. Credits, Step(t, "flight", "idle"),
             used' = used + cost \/ used' = 0 + cost
      PROVE  Promise!Next
  <2>1. InFlight' = InFlight \ {t} /\ t \in InFlight
    BY <1>1
  <2> QED  BY <1>1, <2>1 DEF Promise!Next, Promise!Leave, Promise!Base
<1>2. ASSUME NEW t \in Tasks, Call(t) \/ TurnedAway(t) \/ Skip(t)
      PROVE  UNCHANGED <<InFlight, used>>
  BY <1>2 DEF Call, TurnedAway, Skip
<1>3. ASSUME NEW t \in Tasks, Enter(t) PROVE Promise!Next
  <2>1. InFlight' = InFlight \cup {t} /\ t \notin InFlight
    BY <1>3 DEF Enter
  <2>2. \E base \in {used, 0} : base < MaxCredits /\ used' = base
    BY <1>3, QuotaAssumption DEF Enter, RollIfNeeded, Roll, IsExhausted
  <2> QED  BY <2>1, <2>2 DEF Promise!Next, Promise!Admit, Promise!Base
<1>4. ASSUME NEW t \in Tasks, Succeed(t) \/ ChargeRaises(t) PROVE Promise!Next
  <2>1. used' = used + Credits \/ used' = 0 + Credits \/ used' = 0 + 0
    BY <1>4 DEF Succeed, ChargeRaises, Charge, Roll
  <2> QED  BY <1>0, <1>1, <1>4, <2>1 DEF Succeed, ChargeRaises
<1>5. ASSUME NEW t \in Tasks, RollRaises(t) PROVE Promise!Next
  BY <1>5 DEF RollRaises, Roll, Promise!Next, Promise!Roll
<1>6. ASSUME NEW t \in Tasks, Fail(t) PROVE Promise!Next
  <2>1. used' = used + 0
    BY <1>6 DEF Fail
  <2> QED  BY <1>0, <1>1, <1>6, <2>1 DEF Fail
<1>7. ASSUME NEW t \in Tasks, CancelCall(t)
      PROVE  Promise!Next \/ UNCHANGED <<InFlight, used>>
  <2>1. CASE Step(t, "slot", "idle")
    BY <1>7, <2>1 DEF CancelCall
  <2>2. CASE Step(t, "flight", "idle")
    <3>1. used' = used + 0
      BY <1>7 DEF CancelCall
    <3> QED  BY <1>0, <1>1, <2>2, <3>1
  <2> QED  BY <1>7, <2>1, <2>2 DEF CancelCall
<1>8. CASE BreakerTick \/ QuotaWindowEnds \/ UNCHANGED decoratedVars
  BY <1>8 DEF BreakerTick, QuotaWindowEnds, WindowEnds, decoratedVars
<1> QED  BY <1>2, <1>3, <1>4, <1>5, <1>6, <1>7, <1>8 DEF DecoratedNext, Good, Bad

\* Every behaviour of the decorators is one of Admission, for the function's calls.
THEOREM RefinementTheorem == DecoratedSpec => AdmissionKept
<1>1. DecoratedInit => Promise!Init
  BY DEF DecoratedInit, QuotaInit, Promise!Init, InFlight
<1> QED  BY <1>1, DecoratedInvariance, PromiseStep, PTL
         DEF DecoratedSpec, AdmissionKept, Promise!Spec, Promise!vars

-----------------------------------------------------------------------------
(* The credits: the bound follows from the promise.                         *)

LEMMA Monotone ==
  ASSUME NEW m \in Nat, NEW a \in Nat, NEW b \in Nat, a <= b
  PROVE  m * a <= m * b
<1>1. PICK d \in Nat : b = a + d
  <2>1. b - a \in Nat /\ b = a + (b - a)
    OBVIOUS
  <2> QED  BY <2>1
<1>2. m * b = m * a + m * d /\ m * d \in Nat /\ m * a \in Nat
  BY <1>1
<1> QED  BY <1>2

LEMMA BelowQuota ==
  ASSUME NEW u \in Nat, NEW d \in Nat, NEW m \in Nat, NEW q \in Nat,
         u <= q - 1, d <= m
  PROVE  u + d <= q - 1 + m
  OBVIOUS

\* What a set of callers may still be charged
LEMMA Outstanding ==
  ASSUME NEW S \in SUBSET Tasks
  PROVE  /\ Credits * Cardinality(S) \in Nat
         /\ Credits * Cardinality(Tasks) \in Nat
         /\ Credits * Cardinality(S) <= Credits * Cardinality(Tasks)
         /\ \A t \in S :
              Credits * Cardinality(S \ {t}) = Credits * Cardinality(S) - Credits
<1> DEFINE n == Cardinality(S)
<1>1. IsFiniteSet(S) /\ n \in Nat /\ Cardinality(Tasks) \in Nat
      /\ n <= Cardinality(Tasks) /\ Credits \in Nat
  BY DecoratorsAssumption, FS_Subset, FS_CardinalityType
<1>2. Credits * n <= Credits * Cardinality(Tasks)
  BY <1>1, Monotone
<1>3. ASSUME NEW t \in S PROVE Credits * Cardinality(S \ {t}) = Credits * n - Credits
  <2>1. Cardinality(S \ {t}) = n - 1
    BY <1>1, FS_RemoveElement
  <2> HIDE DEF n
  <2> QED  BY <1>1, <2>1
<1> QED  BY <1>1, <1>2, <1>3

\* The quota of a decorated function is overshot by less than the credits of one
\* call for each task, for any number of tasks and credits.
THEOREM OvershootTheorem == DecoratedSpec => []OvershootBounded
<1> USE DEF OvershootBounded
<1> DEFINE most == Credits * Cardinality(Tasks)
           due == Credits * Cardinality(InFlight)
<1>1. DecoratedInit => OvershootBounded
  <2> SUFFICES ASSUME DecoratedInit PROVE OvershootBounded
    OBVIOUS
  <2>1. used = 0 /\ InFlight \in SUBSET Tasks
    BY DEF DecoratedInit, QuotaInit, InFlight
  <2>2. due \in Nat /\ most \in Nat /\ due <= most
    BY <2>1, Outstanding
  <2> HIDE DEF due, most
  <2>3. used + due <= MaxCredits - 1 + most
    BY <2>1, <2>2, QuotaAssumption
  <2> QED  BY <2>3 DEF due, most
<1>2. /\ DecoratedInv /\ DecoratedInv' /\ OvershootBounded
      /\ [Promise!Next]_<<InFlight, used>>
      => OvershootBounded'
  <2> SUFFICES ASSUME DecoratedInv, DecoratedInv', OvershootBounded,
                      [Promise!Next]_<<InFlight, used>>
               PROVE  OvershootBounded'
    OBVIOUS
  <2>1. /\ InFlight \in SUBSET Tasks /\ InFlight' \in SUBSET Tasks
        /\ used \in Nat /\ used' \in Nat
    BY DEF InFlight, DecoratedInv, Numbers
  <2>2. /\ due \in Nat /\ due' \in Nat /\ most \in Nat
        /\ due <= most /\ due' <= most
    BY <2>1, Outstanding
  <2>3. used + due <= MaxCredits - 1 + most
    OBVIOUS
  <2>4. ASSUME used' <= MaxCredits - 1 PROVE used' + due' <= MaxCredits - 1 + most
    BY <2>1, <2>2, <2>4, QuotaAssumption, BelowQuota
  <2>5. ASSUME NEW c \in Tasks, Promise!Admit(c)  PROVE used' <= MaxCredits - 1
    BY <2>1, <2>5, QuotaAssumption DEF Promise!Admit, Promise!Base
  <2>6. ASSUME NEW c \in Tasks, NEW cost \in 0 .. Credits, Promise!Leave(c, cost)
        PROVE  used' + due' <= MaxCredits - 1 + most
    <3>1. PICK base \in {used, 0} : used' = base + cost
      BY <2>6 DEF Promise!Leave, Promise!Base
    <3>2. due' = due - Credits
      BY <2>1, <2>6, Outstanding DEF Promise!Leave
    <3> HIDE DEF due, most
    <3> QED  BY <2>1, <2>2, <2>3, <3>1, <3>2, DecoratorsAssumption, QuotaAssumption
  <2>7. CASE Promise!Roll
    BY <2>4, <2>7, QuotaAssumption DEF Promise!Roll
  <2>8. CASE UNCHANGED <<InFlight, used>>
    BY <2>3, <2>8
  <2> QED  BY <2>4, <2>5, <2>6, <2>7, <2>8 DEF Promise!Next
<1> QED  BY <1>1, <1>2, DecoratedInvariance, PromiseStep, PTL DEF DecoratedSpec
==============================================================================
