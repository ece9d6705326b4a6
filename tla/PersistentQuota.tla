--------------------------- MODULE PersistentQuota ---------------------------
(***************************************************************************)
(* persist.py: PersistentQuotaTracker called by threads and, with Cancel,  *)
(* AsyncPersistentQuotaTracker called by tasks, and the JSON file that is  *)
(* to outlive the process. All of charge, remaining, is_exhausted and      *)
(* reset run with the lock in hand, the write of the file included. The    *)
(* file is replaced in one step (os.replace), or not at all when the write *)
(* raises. The process may crash at any moment and start again, and the    *)
(* start may not be able to read the file: _load then returns as if there  *)
(* were none.                                                              *)
(*                                                                         *)
(* A task awaits a worker thread that does the write. When the task is     *)
(* cancelled there, it releases the lock, and the worker goes on alone     *)
(* with the payload it was given, unless it had not begun: an orphan.      *)
(* Months are numbers; saved is the content of the file.                   *)
(***************************************************************************)
EXTENDS Integers, FiniteSets, Bags

CONSTANTS
  Callers,           \* threads or tasks
  Nobody,            \* the holder of a free lock
  Costs,             \* the values of the argument credits; 0 is one
  Cancellable,       \* whether a caller may be cancelled (asyncio)
  Months,            \* the behaviour ends in this month
  MaxUsed,           \* no charge is made that would lead beyond it
  MaxOrphans         \* writes of cancelled tasks that are under way at a time

ASSUME PersistAssumption ==
  /\ IsFiniteSet(Callers) /\ Nobody \notin Callers
  /\ Costs \subseteq Nat /\ 0 \in Costs
  /\ Cancellable \in BOOLEAN
  /\ Months \in Nat \ {0}
  /\ MaxUsed \in Nat /\ MaxOrphans \in Nat

VARIABLES
  month,             \* external: the calendar month
  up,                \* whether the process runs
  period, used,      \* the tracker
  saved,             \* the file
  lock,
  pc, op, amount,    \* where each caller is, its method and its credits
  orphans,           \* the payloads of the orphans
  settled,           \* history: credits of this period whose charge returned
                     \* while there was no orphan, unless they were written
                     \* over by a tracker that is unread
  unread             \* history: the tracker has started without the file that
                     \* was there, and not replaced it yet

tracker == <<period, used>>
callers == <<pc, op, amount>>
history == <<settled, unread>>
vars == <<month, up, tracker, saved, lock, callers, orphans, history>>

NoFile == [period |-> 0, used |-> 0]
Payload == [period |-> period, used |-> used]

Operations == {"charge", "ask", "reset"}
Writing == {"rolling", "writing"}

Init ==
  /\ month = 1 /\ up = TRUE
  /\ period = month /\ used = 0
  /\ saved = NoFile
  /\ lock = Nobody
  /\ pc = [c \in Callers |-> "idle"]
  /\ op = [c \in Callers |-> "ask"]
  /\ amount = [c \in Callers |-> 0]
  /\ orphans = EmptyBag
  /\ settled = 0 /\ unread = FALSE

\* A new period, or reset: what was charged before is of no account now
Forget == settled' = 0

\* os.replace. The first write of an unread tracker forgets what was charged before.
Replace(payload, charged) ==
  /\ saved' = payload
  /\ settled' = (IF unread THEN 0 ELSE settled) + charged
  /\ unread' = FALSE

At(c, label) == up /\ pc[c] = label
Goto(c, label) == pc' = [pc EXCEPT ![c] = label]

\* The method returns or raises, and releases the lock if it holds it
Leave(c) ==
  /\ Goto(c, "idle")
  /\ op' = [op EXCEPT ![c] = "ask"]
  /\ amount' = [amount EXCEPT ![c] = 0]
  /\ lock' = (IF lock = c THEN Nobody ELSE lock)

Request(c) ==
  /\ At(c, "idle")
  /\ \E o \in Operations : op' = [op EXCEPT ![c] = o]
  /\ Goto(c, "waiting")
  /\ UNCHANGED <<month, up, tracker, saved, lock, amount, orphans, history>>

TakeLock(c) ==
  /\ At(c, "waiting")
  /\ lock = Nobody
  /\ lock' = c
  /\ Goto(c, IF op[c] = "reset" THEN "ready" ELSE "locked")
  /\ UNCHANGED <<month, up, tracker, saved, op, amount, orphans, history>>

\* _roll_if_needed, up to its write
RollIfNeeded(c) ==
  /\ At(c, "locked")
  /\ IF period = month
       THEN Goto(c, "ready") /\ UNCHANGED <<tracker, settled>>
       ELSE /\ period' = month /\ used' = 0 /\ Forget
            /\ Goto(c, "rolling")
  /\ UNCHANGED <<month, up, saved, lock, op, amount, orphans, unread>>

Charge(c) ==
  /\ At(c, "ready") /\ op[c] = "charge"
  /\ \E credits \in Costs :
       /\ used + credits <= MaxUsed
       /\ used' = used + credits
       /\ amount' = [amount EXCEPT ![c] = credits]
  /\ Goto(c, "writing")
  /\ UNCHANGED <<month, up, period, saved, lock, op, orphans, history>>

\* remaining() and is_exhausted() return
Answer(c) ==
  /\ At(c, "ready") /\ op[c] = "ask"
  /\ Leave(c)
  /\ UNCHANGED <<month, up, tracker, saved, orphans, history>>

Reset(c) ==
  /\ At(c, "ready") /\ op[c] = "reset"
  /\ period' = month /\ used' = 0 /\ Forget
  /\ Goto(c, "writing")
  /\ UNCHANGED <<month, up, saved, lock, op, amount, orphans, unread>>

\* The write of a rollover is done: the method goes on
Rolled(c) ==
  /\ At(c, "rolling")
  /\ Replace(Payload, 0)
  /\ Goto(c, "ready")
  /\ UNCHANGED <<month, up, tracker, lock, op, amount, orphans>>

\* Mutation of Written: charge returns without a write
WrittenLater(c) ==
  /\ At(c, "writing")
  /\ settled' = settled + (IF orphans = EmptyBag THEN amount[c] ELSE 0)
  /\ Leave(c)
  /\ UNCHANGED <<month, up, tracker, saved, orphans, unread>>

\* The write of charge or reset is done: the method returns
Written(c) ==
  /\ At(c, "writing")
  /\ Replace(Payload, IF orphans = EmptyBag THEN amount[c] ELSE 0)
  /\ Leave(c)
  /\ UNCHANGED <<month, up, tracker, orphans>>

\* Mutation of WriteFails: the file is written in place, and lost with the write
WriteFailsInPlace(c) ==
  /\ up /\ pc[c] \in Writing
  /\ Leave(c)
  /\ saved' = NoFile
  /\ UNCHANGED <<month, up, tracker, orphans, history>>

\* The write raises: the file is as it was, the tracker is not
WriteFails(c) ==
  /\ up /\ pc[c] \in Writing
  /\ Leave(c)
  /\ UNCHANGED <<month, up, tracker, saved, orphans, history>>

\* CancelledError where a task awaits the lock or its worker
Cancel(c) ==
  /\ Cancellable
  /\ up /\ pc[c] \in Writing \cup {"waiting"}
  /\ \/ UNCHANGED orphans
     \/ /\ pc[c] \in Writing
        /\ BagCardinality(orphans) < MaxOrphans
        /\ orphans' = orphans (+) SetToBag({Payload})
  /\ Leave(c)
  /\ UNCHANGED <<month, up, tracker, saved, history>>

\* An orphan's write ends, with nobody to hear of it if it fails
OrphanWrites ==
  /\ up
  /\ \E payload \in BagToSet(orphans) :
       /\ orphans' = orphans (-) SetToBag({payload})
       /\ Replace(payload, 0) \/ UNCHANGED <<saved, history>>
  /\ UNCHANGED <<month, up, tracker, lock, callers>>

\* External: the process is killed, with all its threads, and before or after
\* the os.replace of a write that is under way
Crash ==
  /\ up
  /\ \/ UNCHANGED <<saved, settled>> /\ unread' = FALSE
     \/ (\E c \in Callers : pc[c] \in Writing) /\ Replace(Payload, 0)
  /\ up' = FALSE
  /\ period' = 0 /\ used' = 0
  /\ lock' = Nobody
  /\ pc' = [c \in Callers |-> "idle"]
  /\ op' = [c \in Callers |-> "ask"]
  /\ amount' = [c \in Callers |-> 0]
  /\ orphans' = EmptyBag
  /\ UNCHANGED month

\* The constructor: _load, and a rollover that is written at once
Restart ==
  /\ ~up
  /\ up' = TRUE
  /\ period' = month
  /\ IF saved.period = month
       THEN used' = saved.used /\ UNCHANGED <<saved, settled>>
       ELSE /\ used' = 0 /\ Forget
            /\ saved' = (IF saved = NoFile THEN NoFile
                         ELSE [period |-> month, used |-> 0])
  /\ UNCHANGED <<month, lock, callers, orphans, unread>>

\* The constructor, where the file is there and cannot be read: open or read
\* raises OSError, os.path.exists says no to one, or somebody has damaged the
\* file. The count begins at 0, and the file is left alone until the next write.
RestartUnread ==
  /\ ~up
  /\ saved # NoFile
  /\ up' = TRUE
  /\ period' = month /\ used' = 0
  /\ unread' = TRUE
  /\ UNCHANGED <<month, saved, lock, callers, orphans, settled>>

\* External: the first of the next month
NextMonth ==
  /\ month < Months
  /\ month' = month + 1
  /\ UNCHANGED <<up, tracker, saved, lock, callers, orphans, history>>

Proceed(c) ==
  \/ TakeLock(c) \/ RollIfNeeded(c) \/ Charge(c) \/ Answer(c) \/ Reset(c)
  \/ Rolled(c) \/ Written(c) \/ WriteFails(c)

Next ==
  \/ \E c \in Callers : Request(c) \/ Proceed(c) \/ Cancel(c)
  \/ OrphanWrites
  \/ Crash \/ Restart \/ RestartUnread
  \/ NextMonth

Spec == Init /\ [][Next]_vars

-----------------------------------------------------------------------------

TypeOK ==
  /\ month \in 1 .. Months
  /\ up \in BOOLEAN
  /\ period \in 0 .. month
  /\ used \in 0 .. MaxUsed
  /\ saved \in [period : 0 .. month, used : 0 .. MaxUsed]
  /\ lock \in Callers \cup {Nobody}
  /\ pc \in [Callers -> {"idle", "waiting", "locked", "ready"} \cup Writing]
  /\ op \in [Callers -> Operations]
  /\ amount \in [Callers -> Costs \cup {0}]
  /\ settled \in 0 .. MaxUsed /\ unread \in BOOLEAN
  /\ IsABag(orphans)

\* A charge that returned is not forgotten before its month is over or the
\* tracker is reset: it is in the file, and a tracker that has loaded the file
\* has it, whatever writes failed and whenever the process crashed. A start that
\* could not read the file costs nothing until it writes: the next one that can
\* finds the charge again. With tasks that are cancelled, that is so for the
\* charges that returned while no orphan was about to write (persist.py:80-120).
ChargesSurvive ==
  settled > 0 =>
    /\ saved.used >= settled
    /\ up /\ ~unread => used >= settled /\ saved.period = period

\* Between one reset or month and the next the file only goes forward, except for
\* the orphans and for a tracker that could not read it: no write of an older
\* count comes after a newer one. (A reset whose write fails is made good by the
\* next write, so what counts is when reset cleared the tracker.)
FileAdvances ==
  [][saved' # saved /\ orphans = EmptyBag /\ ~unread =>
       \/ saved'.period > saved.period
       \/ saved'.period = saved.period /\ (saved'.used > saved.used \/ settled = 0)]_vars

\* What README.md:165 says of this tracker, "a bot that restarts mid-month must
\* resume from what it already spent": no write puts less into the file of a month
\* than the charges that have returned and that no reset has cleared. The code
\* does so after a start that could not read the file (persist.py:119).
SpentStaysSaved ==
  [][settled > 0 /\ saved'.period = saved.period => saved'.used >= settled]_vars
=============================================================================
