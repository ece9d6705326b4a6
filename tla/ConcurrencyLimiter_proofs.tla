---------------------- MODULE ConcurrencyLimiter_proofs ----------------------
(***************************************************************************)
(* Theorems about ConcurrencyLimiter for any number of threads and any     *)
(* cap. The three parts of the invariant need each other: the semaphore    *)
(* stays within its cap because every permit is accounted for.             *)
(***************************************************************************)
EXTENDS ConcurrencyLimiter, FiniteSetTheorems, TLAPS

Inv == TypeOK /\ PermitsConserved /\ CountExact

\* The threads at given labels form a finite set ...
LEMMA PcInFinite ==
  ASSUME NEW labels
  PROVE  IsFiniteSet(PcIn(labels)) /\ Cardinality(PcIn(labels)) \in Nat
<1>1. PcIn(labels) \subseteq Threads
  BY DEF PcIn
<1> QED  BY <1>1, LimiterAssumption, FS_Subset, FS_CardinalityType

\* ... that a step of one thread changes by that thread at most
LEMMA PcInStep ==
  ASSUME TypeOK, NEW t \in Threads, NEW from, NEW to, Step(t, from, to),
         NEW labels
  PROVE  Cardinality(PcIn(labels)') =
           Cardinality(PcIn(labels))
             + (IF to \in labels THEN 1 ELSE 0) - (IF from \in labels THEN 1 ELSE 0)
<1>1. pc[t] = from /\ pc' = [pc EXCEPT ![t] = to] /\ pc' = [u \in Threads |-> pc'[u]]
  BY DEF Step, TypeOK
<1>2. IsFiniteSet(PcIn(labels)) /\ Cardinality(PcIn(labels)) \in Nat
  BY PcInFinite
<1>3. CASE to \in labels /\ from \notin labels
  <2>1. PcIn(labels)' = PcIn(labels) \cup {t} /\ t \notin PcIn(labels)
    BY <1>1, <1>3 DEF PcIn, TypeOK
  <2> QED  BY <1>2, <1>3, <2>1, FS_AddElement
<1>4. CASE to \notin labels /\ from \in labels
  <2>1. PcIn(labels)' = PcIn(labels) \ {t} /\ t \in PcIn(labels)
    BY <1>1, <1>4 DEF PcIn, TypeOK
  <2> QED  BY <1>2, <1>4, <2>1, FS_RemoveElement
<1>5. CASE to \in labels <=> from \in labels
  <2>1. PcIn(labels)' = PcIn(labels)
    BY <1>1, <1>5 DEF PcIn, TypeOK
  <2> QED  BY <1>2, <1>5, <2>1
<1> QED  BY <1>3, <1>4, <1>5

\* What a step of a thread does to the two counts
LEMMA CountsStep ==
  ASSUME TypeOK, NEW t \in Threads, NEW from, NEW to, Step(t, from, to)
  PROVE  /\ Cardinality(Holding') =
              Cardinality(Holding)
                + (IF to \in {"count", "announce", "inside"} THEN 1 ELSE 0)
                - (IF from \in {"count", "announce", "inside"} THEN 1 ELSE 0)
         /\ Cardinality(Counted') =
              Cardinality(Counted)
                + (IF to \in {"announce", "inside", "uncount"} THEN 1 ELSE 0)
                - (IF from \in {"announce", "inside", "uncount"} THEN 1 ELSE 0)
         /\ Cardinality(Holding) \in Nat /\ Cardinality(Counted) \in Nat
         /\ Cardinality(Holding') \in Nat /\ Cardinality(Counted') \in Nat
<1>1. Holding' \subseteq Threads /\ Counted' \subseteq Threads
  BY DEF Holding, Counted, PcIn
<1>2. Cardinality(Holding') \in Nat /\ Cardinality(Counted') \in Nat
  BY <1>1, LimiterAssumption, FS_Subset, FS_CardinalityType
<1> QED  BY <1>2, PcInStep, PcInFinite DEF Holding, Counted

LEMMA InvInit == Init => Inv
<1> SUFFICES ASSUME Init PROVE Inv
  OBVIOUS
<1>1. Holding = {} /\ Counted = {}
  BY DEF Init, Holding, Counted, PcIn
<1>2. Cardinality({}) = 0
  BY FS_EmptySet
<1> QED  BY <1>1, <1>2, LimiterAssumption
         DEF Init, Inv, TypeOK, PermitsConserved, CountExact

LEMMA InvStep == Inv /\ [Next]_vars => Inv'
<1> SUFFICES ASSUME Inv, [Next]_vars PROVE Inv'
  OBVIOUS
<1>0. MaxConcurrency \in Nat /\ permits \in 0 .. MaxConcurrency /\ inFlight \in Int
        /\ lost \in Nat
  BY LimiterAssumption DEF Inv, TypeOK
<1> USE DEF Inv, PermitsConserved, CountExact
<1>1. ASSUME NEW t \in Threads, Request(t) PROVE Inv'
  <2>1. Step(t, "idle", "wait") /\ UNCHANGED <<permits, inFlight, lost>>
    BY <1>1 DEF Request
  <2>2. TypeOK'
    BY <1>0, <1>1, <2>1 DEF Request, Step, TypeOK
  <2> QED  BY <1>0, <2>1, <2>2, CountsStep
<1>2. ASSUME NEW t \in Threads, Abandon(t) PROVE Inv'
  <2>1. Step(t, "wait", "idle") /\ UNCHANGED <<permits, inFlight, lost>>
    BY <1>2 DEF Abandon, Return
  <2>2. TypeOK'
    BY <1>0, <1>2, <2>1 DEF Abandon, Return, Step, TypeOK
  <2> QED  BY <1>0, <2>1, <2>2, CountsStep
<1>3. ASSUME NEW t \in Threads, Take(t) PROVE Inv'
  <2>1. Step(t, "wait", "count") /\ permits' = permits - 1 /\ UNCHANGED <<inFlight, lost>>
    BY <1>3 DEF Take
  <2>2. TypeOK'
    BY <1>0, <1>3, <2>1 DEF Take, Step, TypeOK
  <2> QED  BY <1>0, <2>1, <2>2, CountsStep
<1>4. ASSUME NEW t \in Threads, Refuse(t) PROVE Inv'
  <2>1. Step(t, "wait", "refused") /\ UNCHANGED <<permits, inFlight, lost>>
    BY <1>4 DEF Refuse
  <2>2. TypeOK'
    BY <1>0, <1>4, <2>1 DEF Refuse, Step, TypeOK
  <2> QED  BY <1>0, <2>1, <2>2, CountsStep
<1>5. ASSUME NEW t \in Threads, GiveUp(t) PROVE Inv'
  <2>1. Step(t, "refused", "idle") /\ UNCHANGED <<permits, inFlight, lost>>
    BY <1>5 DEF GiveUp, Return
  <2>2. TypeOK'
    BY <1>0, <1>5, <2>1 DEF GiveUp, Return, Step, TypeOK
  <2> QED  BY <1>0, <2>1, <2>2, CountsStep
<1>6. ASSUME NEW t \in Threads, Count(t) PROVE Inv'
  <2>1. Step(t, "count", "announce") /\ inFlight' = inFlight + 1
        /\ UNCHANGED <<permits, lost>>
    BY <1>6 DEF Count
  <2>2. TypeOK'
    BY <1>0, <1>6, <2>1 DEF Count, Step, TypeOK
  <2> QED  BY <1>0, <2>1, <2>2, CountsStep
<1>7. ASSUME NEW t \in Threads, Release(t) PROVE Inv'
  <2>1. Step(t, "inside", "uncount") /\ permits' = permits + 1
        /\ UNCHANGED <<inFlight, lost>>
    BY <1>7 DEF Release
  <2>2. PermitsConserved' /\ CountExact'
    BY <1>0, <2>1, CountsStep
  <2>3. permits' \in 0 .. MaxConcurrency
    BY <1>0, <2>1, <2>2, CountsStep
  <2>4. TypeOK'
    BY <1>0, <1>7, <2>1, <2>3 DEF Release, Step, TypeOK
  <2> QED  BY <2>2, <2>4
<1>8. ASSUME NEW t \in Threads, Uncount(t) PROVE Inv'
  <2>1. Step(t, "uncount", "idle") /\ inFlight' = inFlight - 1
        /\ UNCHANGED <<permits, lost>>
    BY <1>8 DEF Uncount, Return
  <2>2. TypeOK'
    BY <1>0, <1>8, <2>1 DEF Uncount, Return, Step, TypeOK
  <2> QED  BY <1>0, <2>1, <2>2, CountsStep
<1>9. ASSUME NEW t \in Threads, Enter(t) PROVE Inv'
  <2>1. Step(t, "announce", "inside") /\ UNCHANGED <<permits, inFlight, lost>>
    BY <1>9 DEF Enter
  <2>2. TypeOK'
    BY <1>0, <1>9, <2>1 DEF Enter, Step, TypeOK
  <2> QED  BY <1>0, <2>1, <2>2, CountsStep
<1>10. ASSUME NEW t \in Threads, AnnounceFails(t) PROVE Inv'
  <2>1. Step(t, "announce", "idle") /\ lost' = lost + 1
        /\ UNCHANGED <<permits, inFlight>>
    BY <1>10 DEF AnnounceFails, Return
  <2>2. TypeOK'
    BY <1>0, <1>10, <2>1 DEF AnnounceFails, Return, Step, TypeOK
  <2> QED  BY <1>0, <2>1, <2>2, CountsStep
<1>11. CASE UNCHANGED vars
  BY <1>11 DEF vars, TypeOK, Holding, Counted, PcIn
<1> QED  BY <1>1, <1>2, <1>3, <1>4, <1>5, <1>6, <1>7, <1>8, <1>9, <1>10, <1>11
         DEF Next, Proceed

LEMMA Invariant == Spec => []Inv
  BY InvInit, InvStep, PTL DEF Spec

\* Every variable keeps its type; the semaphore is never released too often.
THEOREM TypeTheorem == Spec => []TypeOK
<1>1. Inv => TypeOK
  BY DEF Inv
<1> QED  BY <1>1, Invariant, PTL

\* No permit is made, and none is lost but with an acquire that raises once
\* granted, however acquires and releases interleave.
THEOREM PermitsTheorem == Spec => []PermitsConserved
<1>1. Inv => PermitsConserved
  BY DEF Inv
<1> QED  BY <1>1, Invariant, PTL

\* The count says exactly who is between its two updates, and what was lost.
THEOREM CountTheorem == Spec => []CountExact
<1>1. Inv => CountExact
  BY DEF Inv
<1> QED  BY <1>1, Invariant, PTL

\* Never more than max_concurrency threads at work.
THEOREM CapTheorem == Spec => []CapHolds
<1>1. Inv => CapHolds
  <2> SUFFICES ASSUME Inv PROVE CapHolds
    OBVIOUS
  <2>1. Working \subseteq Holding
    BY DEF Working, Holding, PcIn
  <2>2. Cardinality(Working) <= Cardinality(Holding)
    BY <2>1, PcInFinite, FS_Subset DEF Holding
  <2>3. Cardinality(Working) \in Nat /\ Cardinality(Holding) \in Nat
    BY PcInFinite DEF Working, Holding
  <2>4. permits \in 0 .. MaxConcurrency /\ MaxConcurrency \in Nat /\ lost \in Nat
    BY LimiterAssumption DEF Inv, TypeOK
  <2> QED  BY <2>2, <2>3, <2>4 DEF Inv, PermitsConserved, CapHolds
<1> QED  BY <1>1, Invariant, PTL
==============================================================================
