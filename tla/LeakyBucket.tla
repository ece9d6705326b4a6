----------------------------- MODULE LeakyBucket -----------------------------
(***************************************************************************)
(* leaky_bucket.py: LeakyBucketLimiter called by threads, and with Cancel  *)
(* AsyncLeakyBucketLimiter called by tasks. The level leaks only when      *)
(* somebody looks at it; try_acquire takes the lock that acquire sleeps    *)
(* with.                                                                   *)
(***************************************************************************)
EXTENDS Bucket

VARIABLE level

leakyVars == <<level, age, lock, pc, amount, sent, elapsed>>

\* What the level would be if it leaked now
Leaked == IF level >= age * Rate THEN level - age * Rate ELSE 0

Fits(n) == Leaked + n <= Capacity

LeakyInit == BucketInit /\ level = 0

\* Mutation of Leak: updated_at stays where it was
LeakKeepsClock == level' = Leaked /\ UNCHANGED age

Leak == level' = Leaked /\ age' = 0

Add(n) == level' = Leaked + n /\ age' = 0

\* acquire refuses what never fits; try_acquire takes any amount
LeakyRequest(c) ==
  /\ Ask(c, Capacity, "waiting") \/ Ask(c, Capacity + 1, "trying")
  /\ UNCHANGED level

\* try_acquire, once it has the lock: True and the amount added, or False
Try(c) ==
  /\ pc[c] = "trying"
  /\ lock = Nobody
  /\ \/ Fits(amount[c]) /\ Add(amount[c]) /\ Count(amount[c])
     \/ ~Fits(amount[c]) /\ Leak /\ UNCHANGED sent
  /\ Return(c)
  /\ UNCHANGED <<lock, elapsed>>

\* One round of acquire's loop: leak, then add and release the lock
LeakyGrant(c) ==
  /\ Fits(amount[c])
  /\ Add(amount[c])
  /\ Leave(c)

\* ... or sleep until the overflow has leaked
LeakySleep(c) ==
  /\ ~Fits(amount[c])
  /\ Leak
  /\ FallAsleep(c)

LeakyWake(c) == WakeUp(c, level + amount[c] - Capacity) /\ UNCHANGED level

WaterLevel == Look /\ Leak

LeakyProceed(c) ==
  \/ TakeLock(c) /\ UNCHANGED level
  \/ Try(c) \/ LeakyGrant(c) \/ LeakySleep(c) \/ LeakyWake(c)

LeakyNext ==
  \/ \E c \in Callers : LeakyRequest(c) \/ LeakyProceed(c)
  \/ WaterLevel
  \/ ((\E c \in Callers : Cancel(c)) \/ Tick \/ Watch) /\ UNCHANGED level

LeakySpec == LeakyInit /\ [][LeakyNext]_leakyVars

\* As in TokenBucket: nothing is assumed about who gets the lock.
LeakyFairness ==
  /\ WF_leakyVars(Tick /\ UNCHANGED level)
  /\ \A c \in Callers : WF_leakyVars(LeakyProceed(c))

LeakyFairSpec == LeakySpec /\ LeakyFairness

-----------------------------------------------------------------------------

LeakyTypeOK == BucketTypeOK /\ level \in 0 .. Capacity

\* The room in the bucket is the allowance of the same ideal bucket as the
\* tokens of TokenBucket: draining a level and accumulating tokens shape the
\* traffic alike (README.md:120 calls one the opposite of the other).
Room == Capacity - Leaked
Draining == INSTANCE IdealBucket WITH avail <- Room
DrainIdeal == Draining!Spec

\* In every window of time at most Capacity + Rate * elapsed is let in.
InflowBounded == Draining!BurstBounded
=============================================================================
