-------------------------- MODULE QuotaFile_proofs --------------------------
(***************************************************************************)
(* Theorems about QuotaFile for any number of callers and any weights.     *)
(***************************************************************************)
EXTENDS QuotaFile, TLAPS

Wholes == [state : {"whole"}, start : 0 .. clock, used : 0 .. MaxUsed]

Types ==
  /\ clock \in 0 .. MaxTime /\ start \in 0 .. clock
  /\ used \in 0 .. MaxUsed /\ settled \in 0 .. MaxUsed
  /\ file \in {Missing, Empty, Torn} \cup Wholes
  /\ pc \in [Callers -> {"idle", "test", "reset", "add", "persist", "open", "write"}]
  /\ todo \in [Callers -> {"add", "return"}]
  /\ amount \in [Callers -> Nat]
  /\ payload \in [Callers -> {Missing} \cup Wholes]

Flags == up \in BOOLEAN /\ alone \in [Callers -> BOOLEAN]

\* Nobody is inside a process that does not run, and who is alone is inside
Inside ==
  /\ ~up => \A c \in Callers : pc[c] = "idle"
  /\ \A c \in Callers :
       alone[c] => pc[c] # "idle" /\ \A d \in Callers \ {c} : pc[d] = "idle"

\* Every count that is or may come to be in the file has the settled credits
CountKept ==
  /\ up => used >= settled
  /\ Readable => file.used >= settled
  /\ \A c \in Callers :
       pc[c] \in {"open", "write"} => payload[c] \in Wholes /\ payload[c].used >= settled

\* Where the credits of a method are still to be added, or there are none
ChargeDue ==
  \A c \in Callers :
    /\ pc[c] \in {"test", "reset"} /\ todo[c] = "return" => amount[c] = 0
    /\ pc[c] = "add" => todo[c] = "add"

\* A method that is alone writes what is in the tracker, its own credits
\* included, into a file that it has emptied
LoneCharge ==
  \A c \in Callers : alone[c] =>
    /\ pc[c] \in {"persist", "open", "write"} /\ todo[c] = "return"
         => used >= settled + amount[c]
    /\ pc[c] \in {"open", "write"} => payload[c] = Whole(start, used)
    /\ pc[c] = "write" => file = Empty

Inv == Types /\ Flags /\ Inside /\ CountKept /\ ChargeDue /\ LoneCharge

LEMMA Weighed ==
  ASSUME NEW m \in Methods, NEW k \in Multipliers
  PROVE  CreditsFor(m, k) \in Nat
<1>1. WeightFor(m) \in Nat /\ k \in Nat
  BY WeightsAssumption DEF WeightFor
<1> QED  BY <1>1 DEF CreditsFor

LEMMA WholeType ==
  ASSUME NEW s \in 0 .. clock, NEW u \in 0 .. MaxUsed
  PROVE  Whole(s, u) \in Wholes /\ Whole(s, u).used = u /\ Whole(s, u).state = "whole"
  BY DEF Whole, Wholes

LEMMA InvInit == Init => Inv
  BY FileAssumption
  DEF Init, ForAll, Inv, Types, Flags, Inside, CountKept, ChargeDue, LoneCharge,
      Missing, Unusable, Readable

LEMMA RequestStep ==
  ASSUME Inv, NEW c \in Callers, NEW label \in {"test", "reset"},
         NEW what \in {"add", "return"}, NEW credits \in Nat,
         what = "return" => credits = 0, Request(c, label, what, credits)
  PROVE  Inv'
  BY FileAssumption
  DEF Request, Goto, At, Inv, Types, Flags, Inside, CountKept, ChargeDue, LoneCharge,
      Missing, Empty, Torn, Unusable, Readable, Wholes, tracker

\* A method that returns or raises without a settled charge
LEMMA LeaveStep ==
  ASSUME Inv, NEW c \in Callers, pc[c] # "idle", Leave(c),
         file' \in {file, Torn} \/ (pc[c] = "write" /\ file' = payload[c]),
         UNCHANGED <<clock, up, tracker, settled>>
  PROVE  Inv'
<1> USE DEF Inv, Leave, Goto, tracker
<1>0. pc[c] = "write" => payload[c] \in Wholes /\ payload[c].used >= settled
  BY DEF CountKept
<1>1. Types'
  BY <1>0 DEF Types, Missing, Unusable, Wholes
<1>2. Flags'
  BY DEF Flags
<1>3. Inside' /\ ChargeDue'
  BY DEF Types, Flags, Inside, ChargeDue
<1>4. CountKept'
  BY <1>0 DEF Types, CountKept, Torn, Unusable, Readable, Wholes
<1>5. LoneCharge'
  BY DEF Types, Flags, Inside, LoneCharge
<1> QED  BY <1>1, <1>2, <1>3, <1>4, <1>5

LEMMA RollTestStep == ASSUME Inv, NEW c \in Callers, RollTest(c) PROVE Inv'
<1>1. CASE ~WindowOver(start) /\ todo[c] = "return"
  <2>1. pc[c] # "idle" /\ Leave(c) /\ UNCHANGED <<clock, up, tracker, file, settled>>
    BY <1>1 DEF RollTest, At
  <2> QED  BY <2>1, LeaveStep
<1>2. CASE ~(~WindowOver(start) /\ todo[c] = "return")
  BY <1>2
  DEF RollTest, Goto, At, Inv, Types, Flags, Inside, CountKept, ChargeDue, LoneCharge,
      Missing, Empty, Torn, Unusable, Readable, Wholes, tracker
<1> QED  BY <1>1, <1>2

LEMMA ResetStep == ASSUME Inv, NEW c \in Callers, Reset(c) PROVE Inv'
  BY FileAssumption
  DEF Reset, Goto, At, Inv, Types, Flags, Inside, CountKept, ChargeDue, LoneCharge,
      Missing, Empty, Torn, Unusable, Readable, Wholes

LEMMA AddStep == ASSUME Inv, NEW c \in Callers, Add(c) PROVE Inv'
  BY FileAssumption
  DEF Add, Goto, At, Inv, Types, Flags, Inside, CountKept, ChargeDue, LoneCharge,
      Missing, Empty, Torn, Unusable, Readable, Wholes, history

LEMMA PersistStep == ASSUME Inv, NEW c \in Callers, Persist(c) PROVE Inv'
  BY FileAssumption
  DEF Persist, Goto, At, Inv, Types, Flags, Inside, CountKept, ChargeDue, LoneCharge,
      Missing, Empty, Torn, Unusable, Readable, Wholes, Whole, history, tracker

LEMMA OpenStep == ASSUME Inv, NEW c \in Callers, Open(c) PROVE Inv'
  BY FileAssumption
  DEF Open, Goto, At, Inv, Types, Flags, Inside, CountKept, ChargeDue, LoneCharge,
      Missing, Empty, Torn, Unusable, Readable, Wholes, history, tracker

LEMMA WriteStep == ASSUME Inv, NEW c \in Callers, Write(c) PROVE Inv'
<1>0. /\ up /\ pc[c] = "write" /\ file' \in {payload[c], Torn}
      /\ UNCHANGED <<clock, up, start, used>>
  BY DEF Write, At, tracker
<1>1. /\ payload[c] \in Wholes /\ payload[c].used >= settled
      /\ used >= settled
  BY <1>0 DEF Inv, CountKept
<1>2. CASE todo[c] = "add"
  <2> USE <1>0, <1>1, <1>2 DEF Inv, Write, Goto, history
  <2>1. Types'
    BY DEF Types, Wholes
  <2>2. Flags' /\ Inside' /\ ChargeDue'
    BY DEF Flags, Types, Inside, ChargeDue
  <2>3. CountKept'
    BY DEF Types, CountKept, Torn, Unusable, Readable, Wholes
  <2>4. LoneCharge'
    BY DEF Types, Inside, LoneCharge
  <2> QED  BY <2>1, <2>2, <2>3, <2>4
<1>3. CASE todo[c] # "add" /\ ~alone[c]
  <2>1. Leave(c) /\ settled' = settled
    BY <1>3 DEF Write, Inv, Types
  <2> QED  BY <1>0, <2>1, LeaveStep DEF tracker
<1>4. CASE todo[c] # "add" /\ alone[c]
  <2>1. Leave(c) /\ settled' = settled + amount[c]
    BY <1>4 DEF Write
  <2>2. todo[c] = "return"
    BY <1>4 DEF Inv, Types
  <2>3. used >= settled + amount[c] /\ payload[c] = Whole(start, used)
    BY <1>0, <1>4, <2>2 DEF Inv, LoneCharge
  <2>4. \A d \in Callers \ {c} : pc[d] = "idle"
    BY <1>4 DEF Inv, Inside
  <2> USE <1>0, <1>1, <1>4, <2>1 DEF Inv, Leave, Goto
  <2>5. Types'
    <3>1. settled' \in 0 .. MaxUsed
      BY <2>3, FileAssumption DEF Types
    <3>2. Wholes' = Wholes
      BY DEF Wholes
    <3> QED  BY <3>1, <3>2 DEF Types
  <2>6. Flags' /\ Inside' /\ ChargeDue'
    BY DEF Flags, Types, Inside, ChargeDue
  <2>7. CountKept'
    <3>1. file'.used >= settled' \/ file' = Torn
      BY <2>3 DEF Whole
    <3> QED  BY <2>3, <2>4, <3>1 DEF Types, CountKept, Torn, Unusable, Readable
  <2>8. LoneCharge'
    BY <2>4 DEF Types, Flags, LoneCharge
  <2> QED  BY <2>5, <2>6, <2>7, <2>8
<1> QED  BY <1>2, <1>3, <1>4

LEMMA FailsStep ==
  ASSUME Inv, NEW c \in Callers, OpenFails(c) \/ WriteFails(c) PROVE Inv'
<1>1. /\ pc[c] # "idle" /\ Leave(c) /\ file' \in {file, Torn}
      /\ UNCHANGED <<clock, up, tracker, settled>>
  BY DEF OpenFails, WriteFails, At
<1> QED  BY <1>1, LeaveStep

LEMMA CrashStep == ASSUME Inv, Crash PROVE Inv'
<1> USE DEF Inv, Crash, ForAll
<1>1. Types'
  BY FileAssumption DEF Types, Missing, Unusable, Wholes, Torn
<1>2. Flags'
  BY DEF Flags
<1>3. Inside' /\ ChargeDue' /\ LoneCharge'
  BY DEF Inside, ChargeDue, LoneCharge
<1>4. CountKept'
  BY DEF Types, CountKept, Torn, Unusable, Readable, Wholes
<1> QED  BY <1>1, <1>2, <1>3, <1>4

LEMMA RestartStep ==
  ASSUME Inv, StartAnew \/ Restart \/ RestartRolls \/ RestartFails \/ Repair
  PROVE  Inv'
<1> USE DEF Inv, StartAnew, Restart, RestartRolls, RestartFails, Repair, callers,
            history, tracker
<1>1. Types'
  BY FileAssumption DEF Types, Missing, Empty, Torn, Unusable, Wholes, Whole
<1>2. Flags'
  BY DEF Flags
<1>3. Inside' /\ ChargeDue'
  BY DEF Inside, ChargeDue
<1>4. CountKept'
  BY FileAssumption
  DEF Types, CountKept, Inside, Missing, Empty, Torn, Unusable, Readable, Wholes, Whole
<1>5. LoneCharge'
  BY DEF Inside, LoneCharge
<1> QED  BY <1>1, <1>2, <1>3, <1>4, <1>5

LEMMA TickStep == ASSUME Inv, Tick \/ UNCHANGED vars PROVE Inv'
<1>0. /\ UNCHANGED <<up, start, used, settled, file, pc, todo, amount, payload, alone>>
      /\ clock' \in {clock, clock + 1}
  BY DEF Tick, vars, callers, tracker, history
<1> USE <1>0 DEF Inv
<1>1. Types'
  <2>1. clock \in 0 .. MaxTime /\ clock' \in 0 .. MaxTime /\ clock <= clock'
    BY FileAssumption DEF Types, Tick, vars
  <2>2. Wholes \subseteq Wholes'
    BY <2>1 DEF Wholes
  <2>3. start' \in 0 .. clock'
    BY <2>1 DEF Types
  <2>4. payload' \in [Callers -> {Missing} \cup Wholes']
    <3>1. payload' = payload
      OBVIOUS
    <3> QED  BY <2>2, <3>1 DEF Types
  <2>5. file' \in {Missing, Empty, Torn} \cup Wholes'
    BY <2>2 DEF Types
  <2> QED  BY <2>1, <2>3, <2>4, <2>5 DEF Types
<1>2. Flags' /\ Inside' /\ ChargeDue' /\ LoneCharge'
  BY DEF Flags, Inside, ChargeDue, LoneCharge
<1>3. CountKept'
  BY <1>1 DEF Types, CountKept, Readable, Wholes
<1> QED  BY <1>1, <1>2, <1>3

LEMMA InvStep == Inv /\ [Next]_vars => Inv'
<1>1. ASSUME Inv, NEW c \in Callers, CallCharge(c) \/ CallAsk(c) \/ CallReset(c)
      PROVE  Inv'
  <2>1. CASE CallCharge(c)
    <3>1. PICK m \in Methods, k \in Multipliers : Request(c, "test", "add", CreditsFor(m, k))
      BY <2>1 DEF CallCharge
    <3> QED  BY <1>1, <3>1, Weighed, RequestStep
  <2>2. CASE CallAsk(c) \/ CallReset(c)
    BY <1>1, <2>2, RequestStep DEF CallAsk, CallReset
  <2> QED  BY <1>1, <2>1, <2>2
<1> QED  BY <1>1, RollTestStep, ResetStep, AddStep, PersistStep, OpenStep, WriteStep,
            FailsStep, CrashStep, RestartStep, TickStep
         DEF Next, Proceed

LEMMA Invariance == Spec => []Inv
  BY InvInit, InvStep, PTL DEF Spec

\* Every variable keeps its type: what is in the file is a whole content, or one
\* of the three that an interrupted write leaves.
THEOREM TypeTheorem == Spec => []TypeOK
<1>1. Inv => TypeOK
  <2> SUFFICES ASSUME Inv PROVE TypeOK
    OBVIOUS
  <2>1. \A f \in Wholes : f = Whole(f.start, f.used)
    BY DEF Wholes, Whole
  <2>2. file \in {Missing, Empty, Torn} \cup {Whole(s, u) : s \in 0 .. clock, u \in 0 .. MaxUsed}
    BY <2>1 DEF Inv, Types, Wholes
  <2> QED  BY <2>2 DEF Inv, Types, Flags, TypeOK
<1> QED  BY <1>1, Invariance, PTL

\* What was charged alone is in every count that the file holds or a tracker has
\* loaded, whatever overlaps, fails or crashes, for any number of callers.
THEOREM ChargesTheorem == Spec => []ChargesSurvive
<1>1. Inv => ChargesSurvive
  BY DEF Inv, CountKept, ChargesSurvive
<1> QED  BY <1>1, Invariance, PTL

\* A write made alone leaves the tracker's count in the file, whole.
THEOREM RepairTheorem == Spec => LoneWriteRepairs
<1>1. ASSUME Inv, NEW c \in Callers, Write(c), alone[c]
      PROVE  file' = Whole(start, used)
  <2>1. file = Empty /\ payload[c] = Whole(start, used)
    BY <1>1 DEF Write, At, Inv, LoneCharge
  <2> QED  BY <1>1, <2>1 DEF Write
<1>2. Inv /\ [Next]_vars
        => [\A c \in Callers : Write(c) /\ alone[c] => file' = Whole(start, used)]_vars
  BY <1>1
<1> QED  BY <1>2, Invariance, PTL DEF Spec, LoneWriteRepairs
=============================================================================
