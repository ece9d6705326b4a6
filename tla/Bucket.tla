------------------------------- MODULE Bucket -------------------------------
(***************************************************************************)
(* What token_bucket.py and leaky_bucket.py have in common: the lock, the  *)
(* callers around it and the clock. acquire sleeps with the lock in hand;  *)
(* whoever comes after the sleeper waits for the lock. What the bucket     *)
(* holds is the variable of TokenBucket and of LeakyBucket.                *)
(*                                                                         *)
(* Time goes in units that change the bucket by Rate, and age is the time  *)
(* since updated_at. It stops at MaxAge, where a refill fills the bucket   *)
(* and a leak empties it, whatever it holds. time.sleep(d) is a sleep that *)
(* lasts d or longer.                                                      *)
(***************************************************************************)
EXTENDS Integers

CONSTANTS
  Callers,           \* threads, or tasks of the asyncio limiter
  Nobody,            \* the holder of a free lock
  Capacity, Rate,    \* capacity, and refill_rate or rate
  Cancellable,       \* whether a caller may be cancelled (asyncio)
  MaxAge,            \* age beyond which nothing changes
  MaxElapsed         \* length of the longest window that is watched

ASSUME BucketAssumption ==
  /\ Nobody \notin Callers
  /\ Capacity \in Nat \ {0}
  /\ Rate \in Nat \ {0}
  /\ Cancellable \in BOOLEAN
  /\ MaxAge \in Nat /\ Rate * MaxAge >= Capacity
  /\ MaxElapsed \in Nat

VARIABLES
  age,               \* the time since updated_at
  lock,              \* who holds the lock, or Nobody
  pc, amount,        \* where each caller is and the amount it asks for
  sent, elapsed      \* the watch of IdealBucket

Unwatched == -1
Lesser(a, b) == IF a <= b THEN a ELSE b

BucketInit ==
  /\ age = 0
  /\ lock = Nobody
  /\ pc = [c \in Callers |-> "idle"]
  /\ amount = [c \in Callers |-> 0]
  /\ sent = 0 /\ elapsed = Unwatched

Count(n) == sent' = (IF elapsed = Unwatched THEN sent ELSE sent + n)

Goto(c, label) == pc' = [pc EXCEPT ![c] = label]

Return(c) == Goto(c, "idle") /\ amount' = [amount EXCEPT ![c] = 0]

\* A call for any amount up to most, on its way to the lock
Ask(c, most, label) ==
  /\ pc[c] = "idle"
  /\ \E n \in 1 .. most : amount' = [amount EXCEPT ![c] = n]
  /\ Goto(c, label)
  /\ UNCHANGED <<age, lock, sent, elapsed>>

TakeLock(c) ==
  /\ pc[c] = "waiting"
  /\ lock = Nobody
  /\ lock' = c
  /\ Goto(c, "holding")
  /\ UNCHANGED <<age, amount, sent, elapsed>>

\* acquire returns with its amount taken, and the lock is free
Leave(c) ==
  /\ pc[c] = "holding"
  /\ lock' = Nobody
  /\ Count(amount[c])
  /\ Return(c)
  /\ UNCHANGED elapsed

\* acquire sleeps for what is missing, lock in hand
FallAsleep(c) ==
  /\ pc[c] = "holding"
  /\ Goto(c, "sleeping")
  /\ UNCHANGED <<lock, amount, sent, elapsed>>

WakeUp(c, missing) ==
  /\ pc[c] = "sleeping"
  /\ age * Rate >= missing
  /\ Goto(c, "holding")
  /\ UNCHANGED <<age, lock, amount, sent, elapsed>>

\* available_tokens and water_level wait for the lock as well
Look ==
  /\ lock = Nobody
  /\ age > 0
  /\ UNCHANGED <<lock, pc, amount, sent, elapsed>>

\* Mutation of Cancel: the lock of a cancelled sleeper is never released
CancelKeepsLock(c) ==
  /\ Cancellable
  /\ pc[c] \in {"waiting", "trying", "sleeping"}
  /\ Return(c)
  /\ UNCHANGED <<age, lock, sent, elapsed>>

\* CancelledError where a task awaits: the lock, or the sleep it holds it in
Cancel(c) ==
  /\ Cancellable
  /\ pc[c] \in {"waiting", "trying", "sleeping"}
  /\ lock' = (IF lock = c THEN Nobody ELSE lock)
  /\ Return(c)
  /\ UNCHANGED <<age, sent, elapsed>>

Tick ==
  /\ age' = Lesser(MaxAge, age + 1)
  /\ IF elapsed \in 0 .. MaxElapsed - 1
       THEN elapsed' = elapsed + 1 /\ UNCHANGED sent
       ELSE elapsed' = Unwatched /\ sent' = 0
  /\ UNCHANGED <<lock, pc, amount>>

Watch ==
  /\ elapsed = Unwatched
  /\ elapsed' = 0
  /\ UNCHANGED <<age, lock, pc, amount, sent>>

-----------------------------------------------------------------------------

BucketTypeOK ==
  /\ age \in 0 .. MaxAge
  /\ lock \in Callers \cup {Nobody}
  /\ pc \in [Callers -> {"idle", "waiting", "trying", "holding", "sleeping"}]
  /\ amount \in [Callers -> 0 .. Capacity + 1]
  /\ sent \in Nat
  /\ elapsed \in Nat \cup {Unwatched}

\* Who holds the lock gives it back: no sleeper sleeps for tokens or for room
\* that cannot come (token_bucket.py:38, leaky_bucket.py:67).
HolderReleases == lock # Nobody ~> lock = Nobody
=============================================================================
