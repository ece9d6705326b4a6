------------------------ MODULE PersistentQuota_proofs ------------------------
(***************************************************************************)
(* What charge has returned from survives, for every number of callers,    *)
(* months, credits and orphaned writes. Once anything is settled, every    *)
(* count that may become the content of the file, and the content itself,  *)
(* lies between what is settled and what the tracker holds. An unread      *)
(* tracker counts from zero beside a file that keeps what is settled until *)
(* the tracker's first write; that write begins a new account.             *)
(***************************************************************************)
EXTENDS PersistentQuota, TLAPS

Payloads == [period : 0 .. month, used : 0 .. MaxUsed]

\* A count of the tracker's period that has all that is settled
Kept(p) == p.period = period /\ settled <= p.used /\ p.used <= used

\* Whoever is past the lock holds it, and nobody is while the process is down
Exclusive ==
  \A c \in Callers :
    /\ pc[c] \in {"locked", "ready"} \cup Writing => lock = c
    /\ ~up => pc[c] = "idle"

\* The credits of the charge that is being written are in used, and not settled
ChargeCounted ==
  \A c \in Callers :
    /\ pc[c] = "writing" => (IF unread THEN 0 ELSE settled) + amount[c] <= used
    /\ pc[c] # "writing" => amount[c] = 0

OrphansKept ==
  \A p \in BagToSet(orphans) :
    /\ p \in Payloads /\ p.period <= period
    /\ settled > 0 /\ ~unread => Kept(p)

FileKept ==
  /\ up => saved.period <= period
  /\ settled > 0 => saved.used >= settled /\ (up /\ ~unread => Kept(saved))
  /\ ~up => orphans = EmptyBag /\ ~unread

Inv == TypeOK /\ Exclusive /\ ChargeCounted /\ OrphansKept /\ FileKept

-----------------------------------------------------------------------------
\* Bags

LEMMA NoOrphans == BagToSet(EmptyBag) = {} /\ IsABag(EmptyBag)
  BY DEF BagToSet, EmptyBag, SetToBag, IsABag

LEMMA OneMore ==
  ASSUME NEW B, IsABag(B), NEW p
  PROVE  /\ IsABag(B (+) SetToBag({p}))
         /\ BagToSet(B (+) SetToBag({p})) = BagToSet(B) \cup {p}
  BY DEF IsABag, BagToSet, SetToBag, (+)

LEMMA OneLess ==
  ASSUME NEW B, IsABag(B), NEW p
  PROVE  /\ IsABag(B (-) SetToBag({p}))
         /\ BagToSet(B (-) SetToBag({p})) \subseteq BagToSet(B)
  BY DEF IsABag, BagToSet, SetToBag, (-)

-----------------------------------------------------------------------------

LEMMA Numbers ==
  /\ Months \in Nat \ {0} /\ MaxUsed \in Nat /\ Costs \subseteq Nat
  /\ Nobody \notin Callers
  BY PersistAssumption

LEMMA CreditsNat == \A n \in Costs \cup {0} : n \in Nat
<1>1. \A n \in Costs : n \in Nat
  BY Numbers
<1>2. 0 \in Nat
  OBVIOUS
<1> QED  BY <1>1, <1>2

LEMMA InvInit == Init => Inv
<1> SUFFICES ASSUME Init PROVE Inv
  OBVIOUS
<1>1. TypeOK
  <2>1. saved \in [period : 0 .. month, used : 0 .. MaxUsed] /\ month \in 1 .. Months
    BY Numbers DEF Init, NoFile
  <2>2. /\ up \in BOOLEAN /\ unread \in BOOLEAN
        /\ op \in [Callers -> Operations] /\ IsABag(orphans)
    BY NoOrphans DEF Init, Operations
  <2> QED  BY <2>1, <2>2, Numbers DEF Init, TypeOK
<1> QED  BY <1>1, NoOrphans
         DEF Init, Inv, Exclusive, ChargeCounted, OrphansKept, FileKept, NoFile, Writing

\* While the process is up, what it would write has all that is settled, unless
\* it begins a new account
LEMMA SettledUsed ==
  ASSUME Inv, up
  PROVE  /\ settled \in Nat /\ used \in 0 .. MaxUsed
         /\ unread \in BOOLEAN /\ (~unread => settled <= used)
         /\ period \in 0 .. month /\ month \in Nat
         /\ Payload \in Payloads /\ Payload.period = period /\ Payload.used = used
         /\ ~unread => Kept(Payload)
  BY Numbers DEF Inv, TypeOK, FileKept, Kept, Payload, Payloads

LEMMA RequestStep ==
  ASSUME Inv, NEW c \in Callers, Request(c)
  PROVE  Inv'
  BY Numbers DEF Request, At, Goto, Inv, TypeOK, Exclusive, ChargeCounted, OrphansKept,
       FileKept, Kept, Payloads, Writing, tracker, history

LEMMA TakeLockStep ==
  ASSUME Inv, NEW c \in Callers, TakeLock(c)
  PROVE  Inv'
  BY Numbers DEF TakeLock, At, Goto, Inv, TypeOK, Exclusive, ChargeCounted, OrphansKept,
       FileKept, Kept, Payloads, Writing, tracker, history

LEMMA RollStep ==
  ASSUME Inv, NEW c \in Callers, RollIfNeeded(c)
  PROVE  Inv'
  BY Numbers DEF RollIfNeeded, Forget, At, Goto, Inv, TypeOK, Exclusive, ChargeCounted,
       OrphansKept, FileKept, Kept, Payloads, Writing, tracker, history

LEMMA ChargeStep ==
  ASSUME Inv, NEW c \in Callers, Charge(c)
  PROVE  Inv'
  BY Numbers, SettledUsed DEF Charge, At, Goto, Inv, TypeOK, Exclusive, ChargeCounted,
       OrphansKept, FileKept, Kept, Payloads, Writing, tracker, history

LEMMA AnswerStep ==
  ASSUME Inv, NEW c \in Callers, Answer(c)
  PROVE  Inv'
  BY Numbers DEF Answer, Leave, At, Goto, Inv, TypeOK, Exclusive, ChargeCounted,
       OrphansKept, FileKept, Kept, Payloads, Writing, Operations, tracker, history

LEMMA ResetStep ==
  ASSUME Inv, NEW c \in Callers, Reset(c)
  PROVE  Inv'
  BY Numbers DEF Reset, Forget, At, Goto, Inv, TypeOK, Exclusive, ChargeCounted,
       OrphansKept, FileKept, Kept, Payloads, Writing, tracker, history

LEMMA RolledStep ==
  ASSUME Inv, NEW c \in Callers, Rolled(c)
  PROVE  Inv'
<1>0. /\ up /\ pc[c] = "rolling" /\ Payload \in Payloads
      /\ Payload.period = period /\ Payload.used = used
      /\ (~unread => settled <= used /\ Kept(Payload)) /\ used \in Nat
  BY SettledUsed DEF Rolled, At
<1>1. /\ saved' = Payload /\ unread' = FALSE
      /\ settled' = 0 \/ (settled' = settled /\ ~unread)
      /\ UNCHANGED <<month, up, period, used, lock, op, amount, orphans>>
      /\ pc' = [pc EXCEPT ![c] = "ready"]
  BY DEF Rolled, Replace, Goto, tracker, Inv, TypeOK
<1>2. TypeOK'
  <2>1. unread' \in BOOLEAN
    BY <1>1
  <2>2. settled' \in 0 .. MaxUsed
    BY <1>1, Numbers DEF Inv, TypeOK
  <2> QED  BY <1>0, <1>1, <2>1, <2>2 DEF Inv, TypeOK, Payloads
<1>3. Exclusive' /\ ChargeCounted'
  BY <1>0, <1>1 DEF Inv, TypeOK, Exclusive, ChargeCounted, Writing
<1>4. OrphansKept'
  BY <1>1 DEF Inv, OrphansKept, Kept, Payloads
<1>5. FileKept'
  BY <1>0, <1>1 DEF Inv, TypeOK, FileKept, Kept
<1> QED  BY <1>2, <1>3, <1>4, <1>5 DEF Inv

LEMMA WrittenStep ==
  ASSUME Inv, NEW c \in Callers, Written(c)
  PROVE  Inv'
<1> DEFINE before == IF unread THEN 0 ELSE settled
<1>00. up /\ pc[c] = "writing" /\ lock = c
  BY DEF Written, At, Inv, Exclusive, Writing
<1>0. /\ before \in Nat /\ used \in 0 .. MaxUsed /\ Payload \in Payloads
      /\ Payload.period = period /\ Payload.used = used
  BY <1>00, SettledUsed
<1>a. amount[c] \in Nat
  <2>1. amount[c] \in Costs \cup {0}
    BY DEF Inv, TypeOK
  <2> QED  BY <2>1, CreditsNat
<1>b. before + amount[c] <= used
  BY <1>00 DEF Inv, ChargeCounted
<1>c. /\ settled' = before + (IF orphans = EmptyBag THEN amount[c] ELSE 0)
      /\ saved' = Payload /\ unread' = FALSE
  BY DEF Written, Replace
<1>d. UNCHANGED <<month, up, period, used, orphans>>
  BY DEF Written, tracker
<1> HIDE DEF before
<1>1. /\ settled' \in before .. used
      /\ settled' = before \/ orphans = EmptyBag
  BY <1>0, <1>a, <1>b, <1>c
<1>2. TypeOK'
  <2>1. /\ settled' \in 0 .. MaxUsed
        /\ saved' \in [period : 0 .. month, used : 0 .. MaxUsed]
    BY <1>0, <1>1, <1>c, Numbers DEF Payloads
  <2>2. unread' \in BOOLEAN
    BY <1>c
  <2>3. /\ pc' \in [Callers -> {"idle", "waiting", "locked", "ready"} \cup Writing]
        /\ op' \in [Callers -> Operations] /\ amount' \in [Callers -> Costs \cup {0}]
        /\ lock' \in Callers \cup {Nobody}
    BY DEF Written, Leave, Goto, Inv, TypeOK, Operations
  <2> QED  BY <1>d, <2>1, <2>2, <2>3 DEF Written, Inv, TypeOK
<1>3. Exclusive' /\ ChargeCounted'
  BY <1>00, <1>0, <1>1, <1>d DEF Written, Leave, Goto, Inv, TypeOK, Exclusive, ChargeCounted, Writing
<1>4. OrphansKept'
  BY <1>0, <1>1, <1>c, <1>d, NoOrphans DEF before, Inv, OrphansKept, Kept, Payloads
<1>5. FileKept'
  BY <1>00, <1>0, <1>1, <1>c, <1>d, Numbers DEF Inv, TypeOK, FileKept, Kept, Payloads
<1> QED  BY <1>2, <1>3, <1>4, <1>5 DEF Inv

LEMMA WriteFailsStep ==
  ASSUME Inv, NEW c \in Callers, WriteFails(c)
  PROVE  Inv'
  BY Numbers DEF WriteFails, Leave, At, Goto, Inv, TypeOK, Exclusive, ChargeCounted,
       OrphansKept, FileKept, Kept, Payloads, Writing, Operations, tracker, history

LEMMA CancelStep ==
  ASSUME Inv, NEW c \in Callers, Cancel(c)
  PROVE  Inv'
<1>0. /\ Payload \in Payloads /\ Payload.period = period /\ (~unread => Kept(Payload))
      /\ up /\ period \in Nat
  BY SettledUsed DEF Cancel
<1>1. \/ UNCHANGED orphans
      \/ /\ IsABag(orphans')
         /\ BagToSet(orphans') = BagToSet(orphans) \cup {Payload}
  <2>1. UNCHANGED orphans \/ orphans' = orphans (+) SetToBag({Payload})
    BY DEF Cancel
  <2>2. IsABag(orphans)
    BY DEF Inv, TypeOK
  <2> QED  BY <2>1, <2>2, OneMore
<1>2. TypeOK'
  BY <1>1 DEF Cancel, tracker, history, Leave, Goto, Inv, TypeOK, Operations
<1>3. Exclusive' /\ ChargeCounted' /\ FileKept'
  BY <1>0 DEF Cancel, tracker, history, Leave, Goto, Inv, TypeOK, Exclusive, ChargeCounted, FileKept,
              Kept, Writing
<1>4. OrphansKept'
  BY <1>0, <1>1 DEF Cancel, tracker, history, Inv, OrphansKept, Kept, Payload, Payloads
<1> QED  BY <1>2, <1>3, <1>4 DEF Inv

LEMMA OrphanStep ==
  ASSUME Inv, OrphanWrites
  PROVE  Inv'
<1>1. PICK payload \in BagToSet(orphans) :
        /\ orphans' = orphans (-) SetToBag({payload})
        /\ Replace(payload, 0) \/ UNCHANGED <<saved, history>>
  BY DEF OrphanWrites
<1>2. IsABag(orphans') /\ BagToSet(orphans') \subseteq BagToSet(orphans)
  BY <1>1, OneLess DEF Inv, TypeOK
<1>3. /\ payload \in Payloads /\ payload.period <= period
      /\ settled > 0 /\ ~unread => Kept(payload)
  BY <1>1 DEF Inv, OrphansKept
<1>a. \/ /\ saved' = payload /\ unread' = FALSE
         /\ settled' = 0 \/ (settled' = settled /\ ~unread)
      \/ UNCHANGED <<saved, settled, unread>>
  BY <1>1 DEF Replace, history, Inv, TypeOK
<1>b. UNCHANGED <<month, up, period, used, lock, pc, op, amount>>
  BY DEF OrphanWrites, tracker, callers
<1>4. TypeOK'
  <2>1. /\ saved' \in [period : 0 .. month, used : 0 .. MaxUsed]
        /\ settled' \in 0 .. MaxUsed
    BY <1>3, <1>a, Numbers DEF Inv, TypeOK, Payloads
  <2>2. unread' \in BOOLEAN
    BY <1>a DEF Inv, TypeOK
  <2> QED  BY <1>2, <1>b, <2>1, <2>2 DEF Inv, TypeOK
<1>5. Exclusive' /\ ChargeCounted'
  <2>1. \A c \in Callers : amount[c] \in Nat
    BY CreditsNat DEF Inv, TypeOK
  <2> QED  BY <1>a, <1>b, <2>1 DEF Inv, TypeOK, Exclusive, ChargeCounted
<1>6. OrphansKept'
  BY <1>2, <1>a, <1>b DEF Inv, OrphansKept, Kept, Payloads
<1>7. FileKept'
  BY <1>a, <1>b, <1>3 DEF OrphanWrites, Inv, TypeOK, FileKept, Kept, Payloads
<1> QED  BY <1>4, <1>5, <1>6, <1>7 DEF Inv

LEMMA CrashStep ==
  ASSUME Inv, Crash
  PROVE  Inv'
<1>0. /\ settled \in 0 .. MaxUsed /\ used \in 0 .. MaxUsed
      /\ Payload \in Payloads /\ Payload.used = used
      /\ ~unread => settled <= used
  BY SettledUsed DEF Crash, Inv, TypeOK
<1>1. \/ saved' = saved /\ settled' = settled
      \/ saved' = Payload /\ (settled' = 0 \/ (settled' = settled /\ ~unread))
  BY <1>0 DEF Crash, Replace
<1>a. /\ up' = FALSE /\ period' = 0 /\ used' = 0 /\ lock' = Nobody
      /\ pc' = [x \in Callers |-> "idle"]
      /\ op' = [x \in Callers |-> "ask"]
      /\ amount' = [x \in Callers |-> 0]
      /\ orphans' = EmptyBag /\ unread' = FALSE /\ month' = month
  BY DEF Crash, Replace
<1>2. TypeOK'
  <2>1. saved' \in [period : 0 .. month', used : 0 .. MaxUsed]
    BY <1>0, <1>1, <1>a DEF Inv, TypeOK, Payloads
  <2>2. settled' \in 0 .. MaxUsed /\ month' \in 1 .. Months
    BY <1>0, <1>1, <1>a, Numbers DEF Inv, TypeOK
  <2>3. /\ pc' \in [Callers -> {"idle", "waiting", "locked", "ready"} \cup Writing]
        /\ op' \in [Callers -> Operations] /\ amount' \in [Callers -> Costs \cup {0}]
    BY <1>a DEF Operations
  <2>4. IsABag(orphans') /\ up' \in BOOLEAN /\ unread' \in BOOLEAN
        /\ lock' \in Callers \cup {Nobody}
    BY <1>a, NoOrphans
  <2>5. period' \in 0 .. month' /\ used' \in 0 .. MaxUsed
    BY <1>a, <2>2, Numbers
  <2> QED  BY <2>1, <2>2, <2>3, <2>4, <2>5 DEF TypeOK
<1>3. Exclusive' /\ ChargeCounted'
  BY <1>a DEF Exclusive, ChargeCounted, Writing
<1>4. OrphansKept'
  BY <1>a, NoOrphans DEF OrphansKept
<1>5. FileKept'
  BY <1>0, <1>1, <1>a DEF Inv, TypeOK, FileKept, Kept
<1> QED  BY <1>2, <1>3, <1>4, <1>5 DEF Inv

LEMMA RestartStep ==
  ASSUME Inv, Restart
  PROVE  Inv'
  BY Numbers, NoOrphans DEF Restart, Forget, NoFile, Inv, TypeOK, Exclusive,
       ChargeCounted, OrphansKept, FileKept, Kept, Payload, Payloads, Writing, callers, history

LEMMA RestartUnreadStep ==
  ASSUME Inv, RestartUnread
  PROVE  Inv'
  BY Numbers, NoOrphans DEF RestartUnread, NoFile, Inv, TypeOK, Exclusive,
       ChargeCounted, OrphansKept, FileKept, Kept, Payloads, Writing, callers

LEMMA NextMonthStep ==
  ASSUME Inv, NextMonth
  PROVE  Inv'
  BY Numbers DEF NextMonth, Inv, TypeOK, Exclusive,
       ChargeCounted, OrphansKept, FileKept, Kept, Payloads, Writing, tracker, callers, history

LEMMA InvStep == Inv /\ [Next]_vars => Inv'
<1> SUFFICES ASSUME Inv, [Next]_vars PROVE Inv'
  OBVIOUS
<1>1. CASE UNCHANGED vars
  BY <1>1 DEF vars, tracker, callers, history, Inv, TypeOK, Exclusive, ChargeCounted, OrphansKept,
       FileKept, Kept, Payloads, Writing
<1>2. CASE Next
  BY <1>2, RequestStep, TakeLockStep, RollStep, ChargeStep, AnswerStep, ResetStep,
       RolledStep, WrittenStep, WriteFailsStep, CancelStep, OrphanStep, CrashStep,
       RestartStep, RestartUnreadStep, NextMonthStep DEF Next, Proceed
<1> QED  BY <1>1, <1>2

LEMMA Invariance == Spec => []Inv
  BY InvInit, InvStep, PTL DEF Spec

\* Types: the tracker and the file keep to their months and to MaxUsed, and no more
\* is settled than may be charged.
THEOREM TypeTheorem == Spec => []TypeOK
<1>1. Inv => TypeOK
  BY DEF Inv
<1> QED  BY <1>1, Invariance, PTL

\* A charge that returned while no orphan was about to write is in the file and in
\* every tracker loaded from it, until its month is over, the tracker is reset, or
\* one that could not read the file writes over it (persist.py:80-120), for every
\* interleaving of failing reads and writes, cancelled tasks and crashes.
THEOREM ChargesTheorem == Spec => []ChargesSurvive
<1>1. Inv => ChargesSurvive
  BY DEF Inv, TypeOK, FileKept, Kept, ChargesSurvive
<1> QED  BY <1>1, Invariance, PTL

\* A step that replaces the file while there is no orphan, and the tracker is not
\* unread, replaces it by a later month's, or by a count that is higher.
LEMMA AdvanceStep ==
  ASSUME Inv, Next, saved' # saved, orphans = EmptyBag, ~unread
  PROVE  \/ saved'.period > saved.period
         \/ saved'.period = saved.period /\ (saved'.used > saved.used \/ settled = 0)
<1>1. CASE saved' = Payload /\ up
  <2>1. saved.period <= period /\ (settled > 0 => Kept(saved))
    BY <1>1 DEF Inv, FileKept
  <2>2. /\ saved \in [period : Nat, used : Nat] /\ used \in Nat /\ period \in Nat
        /\ settled \in Nat
    BY DEF Inv, TypeOK
  <2>3. saved = [period |-> saved.period, used |-> saved.used]
    BY <2>2
  <2>4. period # saved.period \/ used # saved.used
    BY <1>1, <2>3 DEF Payload
  <2> QED  BY <1>1, <2>1, <2>2, <2>4 DEF Payload, Kept
<1>2. CASE Restart
  BY <1>2 DEF Restart, NoFile, Inv, TypeOK
<1>3. CASE OrphanWrites
  BY <1>3, NoOrphans DEF OrphanWrites
<1> QED  BY <1>1, <1>2, <1>3
         DEF Next, Proceed, Request, TakeLock, RollIfNeeded, Charge, Answer, Reset, Rolled,
             Written, WriteFails, Cancel, Crash, RestartUnread, NextMonth, At, Replace,
             tracker, history

\* The file goes forward between one reset or month and the next (persist.py:44):
\* no older count comes after a newer one but by an orphan, or by a tracker that
\* could not read the newer one.
THEOREM AdvanceTheorem == Spec => FileAdvances
<1>1. Inv /\ [Next]_vars =>
        [saved' # saved /\ orphans = EmptyBag /\ ~unread =>
           \/ saved'.period > saved.period
           \/ saved'.period = saved.period
                /\ (saved'.used > saved.used \/ settled = 0)]_vars
  BY AdvanceStep
<1> QED  BY <1>1, Invariance, PTL DEF Spec, FileAdvances
===============================================================================
