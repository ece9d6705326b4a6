----------------------------- MODULE RateLimiter -----------------------------
(***************************************************************************)
(* rate_limiter.py's RateLimiter and aio.py's AsyncRateLimiter: the lock,  *)
(* the time of the last grant and the two halves of acquire. It computes   *)
(* its sleep once, sleeps with the lock in hand, and counts the next       *)
(* interval from its own wake-up, however late that is. sinceSlot is       *)
(* time.monotonic() - last; last starts as 0.0, so that the first caller   *)
(* finds whatever the clock reads.                                         *)
(***************************************************************************)
EXTENDS Integers

CONSTANTS
  Callers,           \* threads or tasks
  Nobody,            \* the holder of a free lock
  Second,            \* ticks in a second
  Rps,               \* rps
  MaxSince           \* time since a grant beyond which nothing changes

ASSUME RateLimiterAssumption ==
  /\ Nobody \notin Callers
  /\ Second \in Nat \ {0}
  /\ Rps \in Nat \ {0}
  /\ MaxSince \in Nat /\ MaxSince * Rps >= Second

VARIABLES
  slotLock,          \* who holds the lock, or Nobody
  sinceSlot,         \* time since last
  pc,                \* where each caller is
  left               \* what is left of the time it asked to sleep for

slotVars == <<slotLock, sinceSlot>>

SlotInit == slotLock = Nobody /\ sinceSlot \in 0 .. MaxSince

Goto(c, label) == pc' = [pc EXCEPT ![c] = label]
Asleep(c, label, ticks) == Goto(c, label) /\ left' = [left EXCEPT ![c] = ticks]

\* wait = min_interval - (now - last) in whole ticks, none if that is not positive
Waits(since, rate) ==
  {ticks \in 0 .. MaxSince :
     /\ (since + ticks) * rate >= Second
     /\ ticks > 0 => (since + ticks - 1) * rate < Second}

Later(since) == IF since < MaxSince THEN since + 1 ELSE since

\* Mutation of TakeSlot: the sleep is computed without waiting for the lock
TakeSlotUnlocked(c) ==
  /\ pc[c] = "queued"
  /\ slotLock' = c
  /\ \E ticks \in Waits(sinceSlot, Rps) : Asleep(c, "spacing", ticks)
  /\ UNCHANGED sinceSlot

\* The lock is taken and the sleep computed
TakeSlot(c) ==
  /\ pc[c] = "queued"
  /\ slotLock = Nobody
  /\ slotLock' = c
  /\ \E ticks \in Waits(sinceSlot, Rps) : Asleep(c, "spacing", ticks)
  /\ UNCHANGED sinceSlot

\* Mutation of PassSlot: last is not moved on by a caller that slept
PassSlotKeepsLast(c, label) ==
  /\ pc[c] = "spacing"
  /\ left[c] = 0
  /\ UNCHANGED sinceSlot
  /\ slotLock' = Nobody
  /\ Goto(c, label) /\ UNCHANGED left

\* The sleep is over: last = now, and acquire returns
PassSlot(c, label) ==
  /\ pc[c] = "spacing"
  /\ left[c] = 0
  /\ sinceSlot' = 0
  /\ slotLock' = Nobody
  /\ Goto(c, label) /\ UNCHANGED left
==============================================================================
