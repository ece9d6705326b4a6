----------------------------- MODULE TokenBucket -----------------------------
(***************************************************************************)
(* token_bucket.py: TokenBucketLimiter called by threads, and with Cancel  *)
(* AsyncTokenBucketLimiter called by tasks. Tokens are whole numbers, and  *)
(* the bucket is refilled only when somebody looks at it.                  *)
(***************************************************************************)
EXTENDS Bucket

VARIABLE tokens

tokenVars == <<tokens, age, lock, pc, amount, sent, elapsed>>

\* What the bucket would hold if it were refilled now
Refilled == Lesser(Capacity, tokens + age * Rate)

TokenInit == BucketInit /\ tokens \in 0 .. Capacity

\* Mutation of TokenRequest: no refusal of more than the capacity
TokenRequestUnchecked(c) == Ask(c, Capacity + 1, "waiting") /\ UNCHANGED tokens

\* acquire(n): a request for more than the bucket can ever hold is refused
TokenRequest(c) == Ask(c, Capacity, "waiting") /\ UNCHANGED tokens

\* Mutation of Refill: updated_at stays where it was
RefillKeepsClock == tokens' = Refilled /\ UNCHANGED age

Refill == tokens' = Refilled /\ age' = 0

\* Mutation of TokenGrant: updated_at stays where it was
TokenGrantKeepsClock(c) ==
  /\ Refilled >= amount[c]
  /\ tokens' = Refilled - amount[c] /\ UNCHANGED age
  /\ Leave(c)

\* One round of the loop: refill, then take the tokens and release the lock
TokenGrant(c) ==
  /\ Refilled >= amount[c]
  /\ tokens' = Refilled - amount[c] /\ age' = 0
  /\ Leave(c)

\* ... or sleep for the deficit
TokenSleep(c) ==
  /\ Refilled < amount[c]
  /\ Refill
  /\ FallAsleep(c)

TokenWake(c) == WakeUp(c, amount[c] - tokens) /\ UNCHANGED tokens

AvailableTokens == Look /\ Refill

TokenProceed(c) ==
  \/ TakeLock(c) /\ UNCHANGED tokens
  \/ TokenGrant(c) \/ TokenSleep(c) \/ TokenWake(c)

TokenNext ==
  \/ \E c \in Callers : TokenRequest(c) \/ TokenProceed(c)
  \/ AvailableTokens
  \/ ((\E c \in Callers : Cancel(c)) \/ Tick \/ Watch) /\ UNCHANGED tokens

TokenSpec == TokenInit /\ [][TokenNext]_tokenVars

\* Time passes, and a caller that can go on does. Nothing is assumed about who
\* gets a lock that several wait for.
TokenFairness ==
  /\ WF_tokenVars(Tick /\ UNCHANGED tokens)
  /\ \A c \in Callers : WF_tokenVars(TokenProceed(c))

TokenFairSpec == TokenSpec /\ TokenFairness

-----------------------------------------------------------------------------

TokenTypeOK == BucketTypeOK /\ tokens \in 0 .. Capacity

\* Refilling only when somebody looks loses nothing and gains nothing against
\* a bucket that is refilled all the time, whoever sleeps or is cancelled.
Refilling == INSTANCE IdealBucket WITH avail <- Refilled
RefillIdeal == Refilling!Spec

\* In every window of time at most Capacity + Rate * elapsed is granted.
BurstBounded == Refilling!BurstBounded
=============================================================================
