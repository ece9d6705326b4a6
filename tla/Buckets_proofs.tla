--------------------------- MODULE Buckets_proofs ---------------------------
(***************************************************************************)
(* Both buckets implement IdealBucket and keep its bound, for every        *)
(* capacity, rate and number of callers. The allowance of the ideal bucket *)
(* is what a refill would leave in the token bucket, and the room that a   *)
(* leak would leave in the leaky one: it moves with time and grants, and   *)
(* not with the refills and leaks. The two modules have the variables of   *)
(* Bucket in common, as parameters of two sets of theorems.                *)
(***************************************************************************)
EXTENDS TokenBucket, LeakyBucket, TLAPS

LEMMA Products ==
  ASSUME NEW a \in Nat, NEW b \in Nat
  PROVE  /\ a * b \in Nat
         /\ (a + 1) * b = a * b + b
         /\ 0 * b = 0
         /\ b * a = a * b
  OBVIOUS

\* What a bucket of capacity cap has sent and could send at once, against what
\* its window has refilled: one unit of time, and the first moment of a window
LEMMA WindowGrows ==
  ASSUME NEW cap \in Nat, NEW rate \in Nat, NEW total \in Nat,
         NEW a \in Nat, NEW b \in Nat, NEW p \in Nat, NEW q,
         total + a <= cap + p, b <= a + rate, q = p + rate
  PROVE  total + b <= cap + q
  OBVIOUS

LEMMA WindowOpens ==
  ASSUME NEW cap \in Nat, NEW b \in 0 .. cap, NEW total, total = 0, NEW q, q = 0
  PROVE  total + b <= cap + q
  OBVIOUS

-----------------------------------------------------------------------------
(* The steps of Bucket.                                                     *)

\* A watch that is over has counted nothing, and who is inside asks for something
BucketInv ==
  /\ BucketTypeOK
  /\ elapsed = Unwatched => sent = 0
  /\ \A c \in Callers : pc[c] # "idle" => amount[c] > 0

LEMMA BucketInvInit == BucketInit => BucketInv
  BY BucketAssumption DEF BucketInit, BucketInv, BucketTypeOK, Unwatched

\* Every step of either bucket is one of these, but for try_acquire
LEMMA BucketStep ==
  ASSUME BucketInv,
         \/ \E c \in Callers :
              \/ \E most \in {Capacity, Capacity + 1}, label \in {"waiting", "trying"} :
                   Ask(c, most, label)
              \/ TakeLock(c) \/ Cancel(c) \/ \E n \in Int : WakeUp(c, n)
              \/ age' = 0 /\ (Leave(c) \/ FallAsleep(c))
         \/ age' = 0 /\ Look
         \/ Tick \/ Watch
         \/ UNCHANGED <<age, lock, pc, amount, sent, elapsed>>
  PROVE  BucketInv'
<1> USE BucketAssumption DEF BucketInv, BucketTypeOK, Unwatched, Goto, Return
<1>1. ASSUME NEW c \in Callers, NEW most \in {Capacity, Capacity + 1},
             NEW label \in {"waiting", "trying"}, Ask(c, most, label)
      PROVE  BucketInv'
  <2>1. PICK n \in 1 .. most : amount' = [amount EXCEPT ![c] = n]
    BY <1>1 DEF Ask
  <2>2. n \in 0 .. Capacity + 1 /\ n > 0
    OBVIOUS
  <2> QED  BY <1>1, <2>1, <2>2 DEF Ask
<1>2. ASSUME NEW c \in Callers, TakeLock(c) PROVE BucketInv'
  BY <1>2 DEF TakeLock
<1>3. ASSUME NEW c \in Callers, Cancel(c) PROVE BucketInv'
  BY <1>3 DEF Cancel
<1>4. ASSUME NEW c \in Callers, NEW n \in Int, WakeUp(c, n) PROVE BucketInv'
  BY <1>4 DEF WakeUp
<1>5. ASSUME NEW c \in Callers, age' = 0, Leave(c) PROVE BucketInv'
  <2>1. sent' \in Nat /\ (elapsed' = Unwatched => sent' = 0)
    BY <1>5 DEF Leave, Count
  <2> QED  BY <1>5, <2>1 DEF Leave
<1>6. ASSUME NEW c \in Callers, age' = 0, FallAsleep(c) PROVE BucketInv'
  BY <1>6 DEF FallAsleep
<1>7. CASE age' = 0 /\ Look
  BY <1>7 DEF Look
<1>8. CASE Tick
  BY <1>8 DEF Tick, Lesser
<1>9. CASE Watch
  BY <1>9 DEF Watch
<1>10. CASE UNCHANGED <<age, lock, pc, amount, sent, elapsed>>
  BY <1>10
<1> QED  BY <1>1, <1>2, <1>3, <1>4, <1>5, <1>6, <1>7, <1>8, <1>9, <1>10

\* The watch with a unit of time
LEMMA WatchOnTick ==
  ASSUME Tick
  PROVE  \/ elapsed # Unwatched /\ elapsed' = elapsed + 1 /\ UNCHANGED sent
         \/ elapsed' = Unwatched /\ sent' = 0
  BY DEF Tick, Unwatched

\* The age after a unit of time, and what it is worth
LEMMA AgeOnTick ==
  ASSUME BucketInv, Tick
  PROVE  /\ age * Rate \in Nat
         /\ \/ age' * Rate = age * Rate + Rate
            \/ age' * Rate = age * Rate /\ age * Rate >= Capacity
<1>0. /\ age \in 0 .. MaxAge /\ MaxAge \in Nat /\ Rate \in Nat /\ Capacity \in Nat
      /\ age' = Lesser(MaxAge, age + 1) /\ Rate * MaxAge >= Capacity
  BY BucketAssumption DEF BucketInv, BucketTypeOK, Tick
<1>1. CASE age < MaxAge
  <2>1. age' = age + 1
    BY <1>0, <1>1 DEF Lesser
  <2> QED  BY <1>0, <2>1, Products
<1>2. CASE age = MaxAge
  <2>1. age' = age
    BY <1>0, <1>2 DEF Lesser
  <2> QED  BY <1>0, <1>2, <2>1, Products
<1> QED  BY <1>0, <1>1, <1>2

\* The bound is inductive for the ideal bucket: a is the allowance before one of
\* its steps and b the allowance after it
LEMMA BoundStep ==
  ASSUME BucketInv, BucketInv',
         NEW a \in 0 .. Capacity, NEW b \in 0 .. Capacity,
         elapsed # Unwatched => sent + a <= Capacity + Rate * elapsed,
         \/ /\ b <= a + Rate
            /\ \/ elapsed # Unwatched /\ elapsed' = elapsed + 1 /\ UNCHANGED sent
               \/ elapsed' = Unwatched /\ sent' = 0
         \/ elapsed = Unwatched /\ elapsed' = 0 /\ a = b /\ UNCHANGED sent
         \/ /\ \E n \in 1 .. Capacity :
                 /\ b = a - n
                 /\ sent' = (IF elapsed # Unwatched THEN sent + n ELSE sent)
            /\ UNCHANGED elapsed
         \/ a = b /\ UNCHANGED <<sent, elapsed>>
  PROVE  elapsed' # Unwatched => sent' + b <= Capacity + Rate * elapsed'
<1>0. /\ sent \in Nat /\ sent' \in Nat
      /\ elapsed \in Nat \cup {Unwatched} /\ elapsed' \in Nat \cup {Unwatched}
      /\ elapsed = Unwatched => sent = 0
      /\ Rate \in Nat /\ Capacity \in Nat
  BY BucketAssumption DEF BucketInv, BucketTypeOK
<1>1. CASE b <= a + Rate /\ elapsed # Unwatched /\ elapsed' = elapsed + 1
           /\ UNCHANGED sent
  <2>1. elapsed \in Nat /\ elapsed + 1 \in Nat
    BY <1>0, <1>1
  <2>2. Rate * (elapsed + 1) = Rate * elapsed + Rate /\ Rate * elapsed \in Nat
    BY <1>0, <2>1, Products
  <2>3. Rate * elapsed' = Rate * elapsed + Rate
    BY <1>1, <2>2
  <2>4. sent + b <= Capacity + Rate * elapsed'
    BY <1>0, <1>1, <2>2, <2>3, WindowGrows
  <2> QED  BY <1>1, <2>4
<1>2. CASE elapsed' = Unwatched
  BY <1>2
<1>3. CASE elapsed = Unwatched /\ elapsed' = 0 /\ a = b /\ UNCHANGED sent
  <2>1. sent' = 0 /\ Rate * elapsed' = 0
    BY <1>0, <1>3, Products
  <2> QED  BY <1>0, <2>1, WindowOpens
<1>4. ASSUME NEW n \in 1 .. Capacity, b = a - n, UNCHANGED elapsed,
             sent' = (IF elapsed # Unwatched THEN sent + n ELSE sent)
      PROVE  elapsed' # Unwatched => sent' + b <= Capacity + Rate * elapsed'
  BY <1>0, <1>4
<1>5. CASE a = b /\ UNCHANGED <<sent, elapsed>>
  BY <1>5
<1> QED  BY <1>1, <1>2, <1>3, <1>4, <1>5

-----------------------------------------------------------------------------
(* The token bucket.                                                        *)

TokenInv == BucketInv /\ tokens \in 0 .. Capacity

LEMMA RefillBounds ==
  ASSUME NEW held \in 0 .. Capacity, NEW since \in Nat
  PROVE  /\ Lesser(Capacity, held + since * Rate) \in 0 .. Capacity
         /\ since = 0 => Lesser(Capacity, held + since * Rate) = held
<1>1. since * Rate \in Nat /\ (since = 0 => since * Rate = 0)
  BY BucketAssumption, Products
<1> QED  BY <1>1, BucketAssumption DEF Lesser

LEMMA RefilledType ==
  ASSUME TokenInv
  PROVE  Refilled \in 0 .. Capacity /\ (age = 0 => Refilled = tokens)
  BY RefillBounds, BucketAssumption DEF TokenInv, BucketInv, BucketTypeOK, Refilled

LEMMA RefilledTypeNext ==
  ASSUME TokenInv'
  PROVE  Refilled' \in 0 .. Capacity /\ (age' = 0 => Refilled' = tokens')
<1>1. tokens' \in 0 .. Capacity /\ age' \in Nat
  BY BucketAssumption DEF TokenInv, BucketInv, BucketTypeOK
<1> QED  BY <1>1, RefillBounds DEF Refilled

LEMMA TokenInvStep == TokenInv /\ [TokenNext]_tokenVars => TokenInv'
<1> SUFFICES ASSUME TokenInv, [TokenNext]_tokenVars PROVE TokenInv'
  OBVIOUS
<1>0. /\ Refilled \in 0 .. Capacity /\ tokens \in 0 .. Capacity /\ Capacity \in Nat
      /\ \A c \in Callers : amount[c] \in Nat
  BY RefilledType, BucketAssumption DEF TokenInv, BucketInv, BucketTypeOK
<1>1. BucketInv'
  <2>1. ASSUME NEW c \in Callers, TokenWake(c) PROVE \E n \in Int : WakeUp(c, n)
    BY <1>0, <2>1 DEF TokenWake
  <2> QED  BY <2>1, BucketStep
           DEF TokenInv, TokenNext, TokenProceed, TokenRequest, TokenGrant, TokenSleep,
               Refill, AvailableTokens, tokenVars
<1>2. tokens' \in 0 .. Capacity
  BY <1>0 DEF TokenNext, TokenProceed, TokenRequest, TokenGrant, TokenSleep,
              TokenWake, Refill, AvailableTokens, tokenVars
<1> QED  BY <1>1, <1>2 DEF TokenInv

LEMMA TokenInvariant == TokenSpec => []TokenInv
<1>1. TokenInit => TokenInv
  BY BucketInvInit DEF TokenInit, TokenInv
<1> QED  BY <1>1, TokenInvStep, PTL DEF TokenSpec

\* Every variable keeps its type; the bucket never holds more than its capacity
\* and never less than nothing.
THEOREM TokenTypeTheorem == TokenSpec => []TokenTypeOK
<1>1. TokenInv => TokenTypeOK
  BY DEF TokenInv, BucketInv, TokenTypeOK
<1> QED  BY <1>1, TokenInvariant, PTL

\* A unit of time adds Rate to what a refill would leave, up to Capacity
LEMMA RefilledOnTick ==
  ASSUME TokenInv, Tick, UNCHANGED tokens
  PROVE  Refilled' = Lesser(Capacity, Refilled + Rate)
<1> DEFINE grown == age * Rate
<1>0. tokens \in Nat /\ tokens <= Capacity /\ Capacity \in Nat /\ Rate \in Nat
  BY BucketAssumption DEF TokenInv
<1>1. /\ grown \in Nat
      /\ age' * Rate = grown + Rate \/ (age' * Rate = grown /\ grown >= Capacity)
  BY AgeOnTick DEF TokenInv
<1>2. Refilled = Lesser(Capacity, tokens + grown)
  BY DEF Refilled
<1>3. \/ Refilled' = Lesser(Capacity, tokens + (grown + Rate))
      \/ Refilled' = Lesser(Capacity, tokens + grown) /\ grown >= Capacity
  BY <1>1 DEF Refilled
<1> HIDE DEF grown
<1> QED  BY <1>0, <1>1, <1>2, <1>3 DEF Lesser

LEMMA RefillStep ==
  TokenInv /\ TokenInv' /\ [TokenNext]_tokenVars
  => [Refilling!Next]_<<Refilled, sent, elapsed>>
<1> SUFFICES ASSUME TokenInv, TokenInv', [TokenNext]_tokenVars
             PROVE  Refilling!Next \/ UNCHANGED <<Refilled, sent, elapsed>>
  OBVIOUS
<1>0. /\ Refilled \in 0 .. Capacity /\ (age = 0 => Refilled = tokens)
      /\ age' = 0 => Refilled' = tokens'
  BY RefilledType, RefilledTypeNext
<1> USE DEF Refilling!Next, Refilling!Watching, Refilling!Unwatched, Unwatched
<1>1. ASSUME NEW c \in Callers, TokenGrant(c)
      PROVE  Refilling!Next
  <2>1. amount[c] \in Nat /\ amount[c] > 0 /\ amount[c] <= Refilled
    BY <1>0, <1>1, BucketAssumption
    DEF TokenGrant, Leave, TokenInv, BucketInv, BucketTypeOK
  <2>2. amount[c] \in 1 .. Capacity
    BY <1>0, <2>1, BucketAssumption
  <2>3. Refilling!Grant(amount[c])
    BY <1>0, <1>1, <2>1 DEF TokenGrant, Leave, Count, Refilling!Grant
  <2> QED  BY <2>2, <2>3
<1>2. ASSUME NEW c \in Callers, TokenSleep(c)
      PROVE  UNCHANGED <<Refilled, sent, elapsed>>
  BY <1>0, <1>2 DEF TokenSleep, FallAsleep, Refill
<1>3. CASE AvailableTokens
  BY <1>0, <1>3 DEF AvailableTokens, Look, Refill
<1>4. ASSUME NEW c \in Callers, UNCHANGED tokens,
             Ask(c, Capacity, "waiting") \/ TakeLock(c) \/ Cancel(c)
               \/ WakeUp(c, amount[c] - tokens)
      PROVE  UNCHANGED <<Refilled, sent, elapsed>>
  BY <1>4 DEF Ask, TakeLock, WakeUp, Cancel, Refilled
<1>5. CASE Tick /\ UNCHANGED tokens
  <2>1. Refilled' = Refilling!Lesser(Capacity, Refilled + Rate)
    BY <1>5, RefilledOnTick DEF Lesser, Refilling!Lesser
  <2> QED  BY <1>5, <2>1, WatchOnTick DEF Refilling!Tick
<1>6. CASE Watch /\ UNCHANGED tokens
  BY <1>6 DEF Watch, Refilled, Refilling!Watch
<1>7. CASE UNCHANGED tokenVars
  BY <1>7 DEF tokenVars, Refilled
<1> QED  BY <1>1, <1>2, <1>3, <1>4, <1>5, <1>6, <1>7
         DEF TokenNext, TokenProceed, TokenRequest, TokenWake

\* Refilling only when somebody looks, under a lock that sleepers hold and the
\* cancelled give back, is refilling all the time.
THEOREM RefillTheorem == TokenSpec => RefillIdeal
<1>1. TokenInit => Refilling!Init
  <2> SUFFICES ASSUME TokenInit PROVE Refilling!Init
    OBVIOUS
  <2>1. TokenInv /\ age = 0
    BY BucketInvInit DEF TokenInit, TokenInv, BucketInit
  <2>2. Refilled = tokens
    BY <2>1, RefilledType
  <2> QED  BY <2>2 DEF TokenInit, BucketInit, Refilling!Init, Unwatched,
                       Refilling!Unwatched
<1> QED  BY <1>1, TokenInvariant, RefillStep, PTL
         DEF TokenSpec, RefillIdeal, Refilling!Spec, Refilling!vars

\* In a window of any length and position at most Capacity + Rate * elapsed
\* tokens are granted, for every capacity, rate and number of callers.
THEOREM BurstTheorem == TokenSpec => []BurstBounded
<1> USE DEF BurstBounded, Refilling!BurstBounded, Refilling!Watching,
            Refilling!Unwatched, Unwatched
<1>1. TokenInit => BurstBounded
  BY DEF TokenInit, BucketInit
<1>2. /\ TokenInv /\ TokenInv' /\ BurstBounded
      /\ [Refilling!Next]_<<Refilled, sent, elapsed>>
      => BurstBounded'
  <2> SUFFICES ASSUME TokenInv, TokenInv', BurstBounded,
                      [Refilling!Next]_<<Refilled, sent, elapsed>>
               PROVE  BurstBounded'
    OBVIOUS
  <2>1. Refilled \in 0 .. Capacity /\ Refilled' \in 0 .. Capacity
        /\ Capacity \in Nat /\ Rate \in Nat
    BY RefilledType, RefilledTypeNext, BucketAssumption
  <2>2. Refilling!Tick => Refilled' <= Refilled + Rate
    BY <2>1 DEF Refilling!Tick, Refilling!Lesser
  <2> QED  BY <2>1, <2>2, BoundStep
           DEF TokenInv, Refilling!Next, Refilling!Tick, Refilling!Watch,
               Refilling!Grant
<1> QED  BY <1>1, <1>2, TokenInvariant, RefillStep, PTL DEF TokenSpec

-----------------------------------------------------------------------------
(* The leaky bucket.                                                        *)

LeakyInv == BucketInv /\ level \in 0 .. Capacity

LEMMA LeakBounds ==
  ASSUME NEW held \in 0 .. Capacity, NEW since \in Nat,
         NEW left, left = (IF held >= since * Rate THEN held - since * Rate ELSE 0)
  PROVE  /\ left \in 0 .. Capacity /\ Capacity - left \in 0 .. Capacity
         /\ since = 0 => left = held
<1>1. since * Rate \in Nat /\ (since = 0 => since * Rate = 0)
  BY BucketAssumption, Products
<1> QED  BY <1>1, BucketAssumption

LEMMA RoomType ==
  ASSUME LeakyInv
  PROVE  /\ Leaked \in 0 .. Capacity /\ Room \in 0 .. Capacity
         /\ age = 0 => Leaked = level
  BY LeakBounds, BucketAssumption
  DEF LeakyInv, BucketInv, BucketTypeOK, Leaked, Room

LEMMA RoomTypeNext ==
  ASSUME LeakyInv'
  PROVE  /\ Leaked' \in 0 .. Capacity /\ Room' \in 0 .. Capacity
         /\ age' = 0 => Leaked' = level'
<1>1. level' \in 0 .. Capacity /\ age' \in Nat
  BY BucketAssumption DEF LeakyInv, BucketInv, BucketTypeOK
<1> QED  BY <1>1, LeakBounds DEF Leaked, Room

LEMMA LeakyInvStep == LeakyInv /\ [LeakyNext]_leakyVars => LeakyInv'
<1> SUFFICES ASSUME LeakyInv, [LeakyNext]_leakyVars PROVE LeakyInv'
  OBVIOUS
<1>0. /\ Leaked \in 0 .. Capacity /\ level \in 0 .. Capacity /\ Capacity \in Nat
      /\ \A c \in Callers : amount[c] \in Nat
  BY RoomType, BucketAssumption DEF LeakyInv, BucketInv, BucketTypeOK
<1>1. ASSUME NEW c \in Callers, Try(c) PROVE BucketInv'
  <2>1. age' = 0 /\ UNCHANGED <<lock, elapsed>> /\ Return(c)
    BY <1>1 DEF Try, Add, Leak
  <2>2. sent' \in Nat /\ (elapsed' = Unwatched => sent' = 0)
    BY <1>0, <1>1 DEF Try, Count, LeakyInv, BucketInv, BucketTypeOK
  <2> QED  BY <2>1, <2>2, BucketAssumption
           DEF LeakyInv, BucketInv, BucketTypeOK, Return, Goto
<1>2. BucketInv'
  <2>1. ASSUME NEW c \in Callers, LeakyWake(c) PROVE \E n \in Int : WakeUp(c, n)
    BY <1>0, <2>1 DEF LeakyWake
  <2> QED  BY <1>1, <2>1, BucketStep
           DEF LeakyInv, LeakyNext, LeakyProceed, LeakyRequest, LeakyGrant, LeakySleep,
               Leak, Add, WaterLevel, leakyVars
<1>3. level' \in 0 .. Capacity
  BY <1>0 DEF LeakyNext, LeakyProceed, LeakyRequest, Try, LeakyGrant, LeakySleep,
              LeakyWake, Leak, Add, Fits, WaterLevel, leakyVars
<1> QED  BY <1>2, <1>3 DEF LeakyInv

LEMMA LeakyInvariant == LeakySpec => []LeakyInv
<1>1. LeakyInit => LeakyInv
  BY BucketInvInit, BucketAssumption DEF LeakyInit, LeakyInv
<1> QED  BY <1>1, LeakyInvStep, PTL DEF LeakySpec

\* Every variable keeps its type; the level never exceeds the capacity.
THEOREM LeakyTypeTheorem == LeakySpec => []LeakyTypeOK
<1>1. LeakyInv => LeakyTypeOK
  BY DEF LeakyInv, BucketInv, LeakyTypeOK
<1> QED  BY <1>1, LeakyInvariant, PTL

\* A unit of time adds Rate to the room, up to Capacity
LEMMA RoomOnTick ==
  ASSUME LeakyInv, Tick, UNCHANGED level
  PROVE  Room' = Lesser(Capacity, Room + Rate)
<1> DEFINE gone == age * Rate
<1>0. level \in Nat /\ level <= Capacity /\ Capacity \in Nat /\ Rate \in Nat
  BY BucketAssumption DEF LeakyInv
<1>1. /\ gone \in Nat
      /\ age' * Rate = gone + Rate \/ (age' * Rate = gone /\ gone >= Capacity)
  BY AgeOnTick DEF LeakyInv
<1>2. Leaked = IF level >= gone THEN level - gone ELSE 0
  BY DEF Leaked
<1>3. \/ Leaked' = IF level >= gone + Rate THEN level - (gone + Rate) ELSE 0
      \/ /\ Leaked' = IF level >= gone THEN level - gone ELSE 0
         /\ gone >= Capacity
  BY <1>1 DEF Leaked
<1> HIDE DEF gone
<1> QED  BY <1>0, <1>1, <1>2, <1>3 DEF Room, Lesser

\* An amount that is added is granted
LEMMA AddGrants ==
  ASSUME LeakyInv, LeakyInv', NEW c \in Callers, pc[c] # "idle",
         Fits(amount[c]), Add(amount[c]), Count(amount[c]), UNCHANGED elapsed
  PROVE  Draining!Next
<1>0. /\ Leaked \in 0 .. Capacity /\ (age' = 0 => Leaked' = level')
      /\ Capacity \in Nat
  BY RoomType, RoomTypeNext, BucketAssumption
<1>1. amount[c] \in 1 .. Capacity + 1
  BY BucketAssumption DEF LeakyInv, BucketInv, BucketTypeOK
<1>2. /\ amount[c] \in 1 .. Capacity /\ amount[c] <= Room
      /\ Room' = Room - amount[c]
  BY <1>0, <1>1 DEF Add, Fits, Room
<1>3. Draining!Grant(amount[c])
  BY <1>2 DEF Count, Draining!Grant, Draining!Watching, Draining!Unwatched, Unwatched
<1> QED  BY <1>2, <1>3 DEF Draining!Next

LEMMA DrainStep ==
  LeakyInv /\ LeakyInv' /\ [LeakyNext]_leakyVars
  => [Draining!Next]_<<Room, sent, elapsed>>
<1> SUFFICES ASSUME LeakyInv, LeakyInv', [LeakyNext]_leakyVars
             PROVE  Draining!Next \/ UNCHANGED <<Room, sent, elapsed>>
  OBVIOUS
<1>0. /\ Leaked \in 0 .. Capacity /\ (age = 0 => Leaked = level)
      /\ age' = 0 => Leaked' = level'
  BY RoomType, RoomTypeNext
<1>1. ASSUME NEW c \in Callers, LeakyGrant(c)
      PROVE  Draining!Next
  BY <1>1, AddGrants DEF LeakyGrant, Leave
<1>2. ASSUME NEW c \in Callers, Try(c)
      PROVE  Draining!Next \/ UNCHANGED <<Room, sent, elapsed>>
  <2>1. CASE Fits(amount[c])
    BY <1>2, <2>1, AddGrants DEF Try
  <2>2. CASE ~Fits(amount[c])
    BY <1>0, <1>2, <2>2 DEF Try, Leak, Room
  <2> QED  BY <2>1, <2>2
<1>3. ASSUME NEW c \in Callers, LeakySleep(c)
      PROVE  UNCHANGED <<Room, sent, elapsed>>
  BY <1>0, <1>3 DEF LeakySleep, FallAsleep, Leak, Room
<1>4. CASE WaterLevel
  BY <1>0, <1>4 DEF WaterLevel, Look, Leak, Room
<1>5. ASSUME NEW c \in Callers, UNCHANGED level,
             Ask(c, Capacity, "waiting") \/ Ask(c, Capacity + 1, "trying")
               \/ TakeLock(c) \/ Cancel(c) \/ WakeUp(c, level + amount[c] - Capacity)
      PROVE  UNCHANGED <<Room, sent, elapsed>>
  BY <1>5 DEF Ask, TakeLock, WakeUp, Cancel, Room, Leaked
<1>6. CASE Tick /\ UNCHANGED level
  <2>1. Room' = Draining!Lesser(Capacity, Room + Rate)
    BY <1>6, RoomOnTick DEF Lesser, Draining!Lesser
  <2> QED  BY <1>6, <2>1, WatchOnTick
           DEF Draining!Next, Draining!Tick, Draining!Watching, Draining!Unwatched,
               Unwatched
<1>7. CASE Watch /\ UNCHANGED level
  BY <1>7 DEF Watch, Leaked, Room, Draining!Next, Draining!Watch, Draining!Watching,
              Draining!Unwatched, Unwatched
<1>8. CASE UNCHANGED leakyVars
  BY <1>8 DEF leakyVars, Room, Leaked
<1> QED  BY <1>1, <1>2, <1>3, <1>4, <1>5, <1>6, <1>7, <1>8
         DEF LeakyNext, LeakyProceed, LeakyRequest, LeakyWake

\* Leaking only when somebody looks, under a lock that sleepers hold and the
\* cancelled give back, is leaking all the time; and draining a level grants
\* what accumulating tokens grants.
THEOREM DrainTheorem == LeakySpec => DrainIdeal
<1>1. LeakyInit => Draining!Init
  <2> SUFFICES ASSUME LeakyInit PROVE Draining!Init
    OBVIOUS
  <2>1. LeakyInv /\ age = 0
    BY BucketInvInit, BucketAssumption DEF LeakyInit, LeakyInv, BucketInit
  <2>2. Room \in 0 .. Capacity
    BY <2>1, RoomType
  <2> QED  BY <2>2 DEF LeakyInit, BucketInit, Draining!Init, Unwatched,
                       Draining!Unwatched
<1> QED  BY <1>1, LeakyInvariant, DrainStep, PTL
         DEF LeakySpec, DrainIdeal, Draining!Spec, Draining!vars

\* In a window of any length and position at most Capacity + Rate * elapsed
\* units are let in, for every capacity, rate and number of callers.
THEOREM InflowTheorem == LeakySpec => []InflowBounded
<1> USE DEF InflowBounded, Draining!BurstBounded, Draining!Watching,
            Draining!Unwatched, Unwatched
<1>1. LeakyInit => InflowBounded
  BY DEF LeakyInit, BucketInit
<1>2. /\ LeakyInv /\ LeakyInv' /\ InflowBounded
      /\ [Draining!Next]_<<Room, sent, elapsed>>
      => InflowBounded'
  <2> SUFFICES ASSUME LeakyInv, LeakyInv', InflowBounded,
                      [Draining!Next]_<<Room, sent, elapsed>>
               PROVE  InflowBounded'
    OBVIOUS
  <2>1. Room \in 0 .. Capacity /\ Room' \in 0 .. Capacity
        /\ Capacity \in Nat /\ Rate \in Nat
    BY RoomType, RoomTypeNext, BucketAssumption
  <2>2. Draining!Tick => Room' <= Room + Rate
    BY <2>1 DEF Draining!Tick, Draining!Lesser
  <2> QED  BY <2>1, <2>2, BoundStep
           DEF LeakyInv, Draining!Next, Draining!Tick, Draining!Watch,
               Draining!Grant
<1> QED  BY <1>1, <1>2, LeakyInvariant, DrainStep, PTL DEF LeakySpec
=============================================================================
