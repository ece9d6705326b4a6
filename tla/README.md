# Formal models of helius-rate-limiter

TLA+ specifications of the limiter primitives and guards in
`src/helius_limiter/`, TLC configurations that check them on small instances,
and TLAPS proofs of their main safety properties for every value of the
constants. Line numbers refer to the files under `src/helius_limiter/`.

## The system

The library protects a monthly credit quota and a service that answers 429. Its
parts are small objects that a caller shares among threads (the plain classes)
or among tasks of one event loop (the `Async` mirrors).

| component | state | operations | shared how |
|---|---|---|---|
| `HeliusGuard` (guard.py) | the four primitives it owns | `request` | by threads, no lock |
| `CircuitBreaker` (circuit.py) | `failures`, `open_until` | `record_failure`, `record_success`, `trip`, `is_open` | no lock |
| `QuotaLimiter` (quota.py) | `used`, `window_start`, a JSON file | `charge`, `is_exhausted`, `remaining`, `reset` | no lock; the file outlives the process |
| `KeyRotator` (rotation.py) | `index`, `_exhausted` | `current`, `rotate` | no lock |
| `AsyncGuard` and its primitives (aio.py) | as above | as above | by tasks; a lock per primitive |
| `RateLimiter` (rate_limiter.py) | `last` | `acquire` | sleeps with its lock in hand |
| token bucket (token_bucket.py) | `tokens`, `updated_at` | `acquire`, `available_tokens` | sleeps with its lock in hand |
| leaky bucket (leaky_bucket.py) | `level`, `updated_at` | `acquire`, `try_acquire`, `water_level` | sleeps with its lock in hand |
| `ConcurrencyLimiter` (concurrency.py) | a semaphore, `_in_flight` | `acquire`, `release` | a semaphore and a lock beside it |
| persistent quota (persist.py) | `period`, `used`, a JSON file | `charge`, `remaining`, `is_exhausted`, `reset` | writes the file with its lock in hand, in a worker thread for tasks |
| `AdaptiveLimiter` (adaptive.py) | `rate`, `successes`, `_last` | `acquire`, `on_429`, `on_success` | a lock after the wrapped limiter |
| transports (transport.py) | a limiter and a circuit | `handle_request`, `send` | by threads or tasks |
| decorators (decorators.py) | none | wrap a function | |
| `PrometheusExporter` (prometheus.py) | counters and gauges | `on_event` | called by the others |
| backoff.py, weighted.py | none, a table | pure functions | |

How they interact: `request` asks the circuit and the quota on entry, then for
every attempt waits for the rate limiter, reads the current key and calls the
caller's function. The answer decides: success resets the circuit and charges
the quota; a 429 counts as a failure and may open the circuit; a 429 that says
"max usage reached" rotates the keys, and when all keys are marked opens the
circuit for a day; a 5xx or an exception is retried after a sleep. The
transports do the same for HTTP exchanges, around a circuit and a limiter that
they are given. An adaptive limiter passes a wrapped limiter first and then a
gate of its own. The decorators stack the primitives around one function, and
the exporter listens to the events of a circuit.

What is hard about it:

* threads share unlocked objects, so everything that is read before a call or a
  loop round may be stale after it: the circuit and quota checks of the entry,
  the key of the call, the count in `record_failure`, the index in `rotate`;
* tasks may be cancelled wherever they wait, lock in hand, with a worker
  thread that goes on without them or with a response half closed;
* limiters sleep while they hold the lock everyone else needs;
* the files of the two quotas must survive a crash between any two steps, one
  replaced at once and the other written in place, and a start may not be able to
  read what is there;
* callbacks, file writes and closes raise, between steps that belong together;
* time is read lazily: refills, leaks, windows and months take effect when
  somebody looks.

`PROJECT.json` lists these hazards one by one, each at its line.

What makes each component correct: a guard lets nobody in while its circuit is
open, spends no more than the quota and one charge per caller, stays on a key
that works, and answers every request; a bucket never grants more in any window
than a capacity and its refill, and never keeps its lock; a concurrency limiter
admits at most its cap and loses no permit; a persistent quota forgets no
charge it has returned from, as long as it can read its file when it starts; a
spacing limiter keeps its interval whatever the rate does meanwhile, and an
adaptive rate finds its way back; a transport closes each response or returns
it, unless it is the close that fails; a gauge of open circuits is never low by
mistake.

## Modules

| module | models | state and actions |
|---|---|---|
| `CircuitBreaker`, `QuotaLimiter`, `KeyRotator` | the primitives | the attributes, and an operator per attribute update or test. They have no `Next`: the guards that EXTEND them decide which updates happen in one step |
| `Guard` | `HeliusGuard.request` by threads | `pc` holds the code a thread is about to run; one action per stretch of code between two preemption points |
| `AsyncGuard` | `AsyncGuard.request` by tasks | `pc` holds what a task awaits; one action from each await to the next, and `Cancel` at each |
| `Admission` | abstract: what a guard promises about credits | enter, leave with a charge, a new window |
| `Bucket` | what both buckets share, threads and tasks | the lock, the callers, the clock and the watch; it has no `Next` |
| `TokenBucket`, `LeakyBucket` | a bucket each, over the `Bucket` they EXTEND | `tokens` or `level`, and the steps that change it |
| `IdealBucket` | abstract: an allowance that refills all the time | grant, tick, and a watch that may start at any moment |
| `ConcurrencyLimiter` | both concurrency limiters | semaphore, count, a step per critical section, callbacks that raise and tasks that are cancelled |
| `PersistentQuota` | both persistent trackers | tracker, file, lock, cancelled tasks' writes, crash, and a restart that can read the file (`Restart`) or cannot (`RestartUnread`) |
| `RateLimiter` | both rate limiters | the lock, the last grant, and the two halves of `acquire`; it has no `Next` |
| `AdaptiveLimiter` | both adaptive limiters, around a `RateLimiter` it EXTENDS | the two gates in a row, the AIMD state, the reports |
| `Spacing` | abstract: what a spacing limiter promises | grant, retune, tick |
| `Transport` | the three handlers of transport.py | exchanges over the operators of `CircuitBreaker` |
| `PrometheusExporter` | the gauge `circuit_open` | `OnEvent`; it has no `Next` |
| `Decorators` | an async function under the three decorators | `CircuitBreaker`, `QuotaLimiter` and `PrometheusExporter` composed, a step from each await to the next |
| `WeightedCosts` | what a method is charged | the table as constants, two operators |
| `QuotaFile` | `QuotaLimiter` with its state file, charged through `WeightedCosts` | clock, tracker, file, a step per call of each method, crash and restart |
| `MCQuotaFile` | | a table of weights for TLC |
| `*_proofs` | | theorems about the module they are named for; `Buckets_proofs` is about both buckets, `CircuitUsers_proofs` about `Transport` and `Decorators` |

A definition whose comment begins with "Mutation of" is not part of a
specification. It is the definition it names with a plausible bug, kept beside
it to show that the properties notice: putting it in that definition's place
makes the property it is listed with in `PROJECT.json` fail.

### Grain of the steps

CPython switches threads at calls and at the end of a loop round. Straight-line
attribute updates without a call between them are therefore one step, and every
call to another method is a point where others may run. So `record_failure` is
three steps (count and compare, trip, reset), `_roll_if_needed` two (its test,
its reset), `rotate` two for each round of its loop, and the checks on entry
three or four. `record_success` is one step. In aio.py a task gives way only at
an await that is not ready; the locks of the circuit and the quota are never
held across one, so they are never contended and all the code between two real
awaits is one step (`AsyncGuard`, `Decorators`).

`Transport` has one action for what comes back from each kind of answer, and the
three steps of `record_failure` after a 429. Before a retry it closes the response
and then sleeps, in two steps: the close is an await of its own in the async
handler, where the response is still open and the task may be cancelled (`Cancel`),
and in all three it may raise (`CloseRaises`). `_load` of persist.py is part of a
start: `Restart` reads the file and rolls over, and `RestartUnread` is its `except`
branch, which leaves the count at 0 and the file as it is. `QuotaFile` splits
`_persist` into reading the count, opening the file (which empties it) and writing it, each of
which may be the last before a crash. A sleep of `AdaptiveLimiter` ends when the
time is up or any time later.

### What the data is abstracted to

* Keys are positions, as in the code. The upstream state of keys is `spent`: a
  key whose usage has run out answers "max usage reached" until the next month
  (`NewMonth`). The function a request calls may answer anything else.
* `open_until` is the time left until it; `window_start` is whether the window is
  over. Credits of a charge come from `Costs`.
* Bucket amounts are whole numbers and time goes in units of `Rate` tokens. `age`
  is `time.monotonic() - updated_at`, and a sleep may last longer than asked.
  Nothing but the first `MaxAge` units of an unattended bucket matters, since by
  then it is full (or empty) whatever it held.
* Months are numbers; the file is the record last put in place.
* `Spacing` and its two implementations count time in ticks, `Second` of them to a
  second, and rates are whole requests per second. Time since a grant beyond
  `MaxSince` makes no difference, as it is longer than every interval.
* A state file that is written in place is missing, empty, torn or whole. A
  torn one is one that `json.load` does not take.
* A response is open or closed, and its body says "max usage reached" or not.
  One whose close has raised or was cancelled counts as open.
* Event callbacks are absent (`on_event=None`) or return at once, so that an
  async one is no further place where a task may be cancelled, with two
  exceptions: in `ConcurrencyLimiter` they may raise, and in `Decorators` the
  exporter is one. That "saturated" is emitted is left out: it changes no state.

History variables: `overtaken` (requests under way when the circuit opened),
`traffic` (whether the requests of a guard have come one at a time so far, and in
one month or several),
`settled` (credits of charges that returned, in `QuotaFile` of those made
`alone`, in `PersistentQuota` of those not written over by an `unread` tracker,
one that started without the file that was there), `outcome` (what the caller of
an exchange got), `lost` (permits of acquires that raised), `sentOpen` (requests sent
while the circuit was open), and the watch `sent`, `elapsed` of the buckets and
of the adaptive limiter. No action reads them to decide anything else.

## Runs

| run | instance | shows |
|---|---|---|
| `guard_threads` | 2 threads, 3 keys, 2 attempts, threshold 2, quota 2, charges 0 or 2 | `StreakAnswered`, `OpenAdmitsNobody`, `RotationRecovers`, `OvershootBounded`; as long as requests come one at a time, `SerialTripJustified`, `OpenMeansQuiet` and `RestsOnLiveKey`; the guard implements `Admission`; every request returns |
| `guard_month` | 1 thread, 2 keys, a new month | `LongTripJustified` fails: marks of the last month cause a 24-hour trip (finding) |
| `async_guard` | 3 tasks, 4 keys, 2 attempts | with cancellation at every await: `MarksBounded`, a spent key costs at most one mark per task; `Admission`; every request returns |
| `token`, `leaky` | 2 callers, capacity 4, rate 2 | the bucket implements `IdealBucket`; the lock comes back; for `token` the burst bound too, which follows |
| `concurrency` | 4 threads, 2 permits | the cap, the permits, the count, progress, with callbacks that raise and cancellation |
| `persist` | 2 callers, 2 months, charges 0 to 2, at most 3 credits, 2 orphaned writes | returned charges survive crashes, and starts that cannot read the file until one of them writes; otherwise the file goes forward |
| `persist_unread` | 1 caller, 1 month, at most 3 credits | `SpentStaysSaved` fails: after a start that could not read the file the next charge replaces a higher count (finding) |
| `adaptive` | 2 callers, a floor of 1 request a second, rates 2 to 4, 12 ticks to a second | `SlotKept` and `PaceKept`, both gates implement `Spacing`; `FloorHolds`, the wrapped limiter bounds the requests of every window; `RateRecovers` |
| `transport` | 3 exchanges of 2 attempts, threshold 2 | `OpenSendsBounded`; `ResponsesAccounted`, with a close that raises or is cancelled; `ExchangesEnd` |
| `decorators` | 3 tasks, threshold 2, quota 3, 2 credits a call | `AdmissionKept`, the same `Admission`; `OpenShown` and `GaugeRecovers`, the gauge; `DeadServiceTrips` |
| `quota_file` | 2 threads, charges of 1, 2 and 4 credits, windows of 2, a clock of 3 | `ChargesSurvive`, a charge made alone is in whatever can be loaded; `LoneWriteRepairs` |

Why the bounds are enough. Two threads with three keys already reach the races
over `index`: one thread marks and moves it while the other is between reading
a candidate and testing it. Four keys are one more than the marks three tasks can
cause with one spent key. Threshold 2 with two threads lets both pass the
comparison. A quota equal to one full charge lets every caller be the one that
overshoots. `OpenSeconds` and `ExhaustedSeconds` differ so that a shorter window
can replace a longer one. Capacity 4 at rate 2 has sleeps of one unit and of two,
amounts that fit and that do not, and `MaxAge = 2` fills any bucket; a watch of 3
units is longer than a full refill. Four threads on two permits have two that
wait while two release. Two orphaned writes are the fewest that can overtake each
other. `MaxUsed`, `MaxOrphans` and `Months` bound the state space of
`PersistentQuota` in the guards of `Charge`, `Cancel` and `NextMonth`. In `Guard` and
`AsyncGuard` nothing is capped: usage is bounded because requests are.

Twelve ticks are divisible by every rate from 1 to 4, so that intervals differ
and none is rounded; the wrapped limiter is the slower of the two at any rate, so
that it matters as a floor and callers it has spaced still bunch up behind one
that is late at the second gate, and the watch is as long as its interval. A decrease by half from 4 passes through 3 on
the way back. Three exchanges are enough for one to open the circuit while a
second is in front of the limiter and a third waits for its answer. The
quota of `decorators` admits a call of two credits after another one, which goes over. In
`quota_file`, `MaxTime` is one more than a window, so that one ends and the next
does not, and `MaxUsed` (in the guard of `Add`) leaves room for charges by both
callers; both bounds are in the guards. `sent` and `sentOpen` are bounded by what
they count.

Fairness. A request under way, a lock holder or a waiter that can go on does so:
the interpreter schedules its thread, the loop resumes its task, the called
function answers, a close ends or raises and sleeps end; in `AdaptiveLimiter` sleeps end because time
passes. Nobody is obliged to start a request, to cancel, to crash or to restart,
and in `Decorators`, `PersistentQuota` and `QuotaFile` nobody is obliged to anything:
`GaugeRecovers` and `DeadServiceTrips` name the calls they need in their premises,
as `RateRecovers` does. Neither a lock nor the semaphore promises a turn to a
particular waiter, so `HolderReleases` and `KeepsServing` speak of the lock and of
the waiters together and not of each caller.

### Findings

Two statements of the documentation that the code does not keep; `PROJECT.json`
quotes them beside the code:

* "opens a 24h circuit if all keys are exhausted": marks outlive the month (run
  `guard_month`);
* "a bot that restarts mid-month must resume from what it already spent":
  `_load` (persist.py:119) treats a file that it cannot read like one that is
  not there, and the next write replaces it (run `persist_unread`). A test wants
  that of a damaged file (tests/test_persist.py:119); it is the same for a
  passing OSError, when the file still holds the count.

Other things a user of the library may want to know, which the hazards in
`PROJECT.json` record at their lines and no run shows: the write of a cancelled
task's worker may come after a later charge's, which is why `ChargesSurvive` of
`PersistentQuota` speaks of the charges that returned without one; an exchange
that ends in the middle of closing a response leaves it neither closed nor
returned (`ResponsesAccounted` shows that this is the only way to one); `try_acquire`
waits behind a sleeper for the lock; a refusal of a concurrency limiter may come
without "saturated"; the sleep for a Retry-After delays the reporter alone; the
wrapped limiter is a floor for the number of requests and not for the gap between
two of them; and two threads may emit "tripped" and "reset" in the other order.

## Proofs

Every safety property that a passing run checks, invariant, action property or
refinement, is stated by a theorem for every value of the constants.

| module | theorems | along which invariant |
|---|---|---|
| `Guard_proofs` | `TypeTheorem`, `StreakTheorem`, `OpenTheorem`, `RotationTheorem`, `RefinementTheorem`, `OvershootTheorem` | `TypeInv`, `RotationInv`, see below |
| | `LongTripTheorem`, `RestTheorem`, `QuietTheorem` | for requests that come one at a time: `OneAtATime`, `SoloInv`, see below |
| `AsyncGuard_proofs` | `TypeTheorem`, `OpenTheorem`, `MarksTheorem`, `RefinementTheorem`, `OvershootTheorem` | `TypeInv` as in `Guard`, and `MarksInv` |
| `Buckets_proofs` | `TokenTypeTheorem`, `RefillTheorem`, `BurstTheorem`, `LeakyTypeTheorem`, `DrainTheorem`, `InflowTheorem` | the types, and the ideal bucket's bound under the refinement mapping |
| `ConcurrencyLimiter_proofs` | `TypeTheorem`, `PermitsTheorem`, `CountTheorem`, `CapTheorem` | permits, holders and count in one invariant, with cardinalities of the sets of threads |
| `AdaptiveLimiter_proofs` | `TypeTheorem`, `SlotTheorem`, `PaceTheorem`, `FloorTheorem` | see below |
| `PersistentQuota_proofs` | `TypeTheorem`, `ChargesTheorem`, `AdvanceTheorem` | see below |
| `QuotaFile_proofs` | `TypeTheorem`, `ChargesTheorem`, `RepairTheorem` | see below |
| `CircuitUsers_proofs` | `ExchangeTypeTheorem`, `ResponsesTheorem`, `SendsTheorem` (`Transport`) | `ExchangeInv`, `SendsBounded` |
| | `DecoratedTypeTheorem`, `ShownTheorem`, `RefinementTheorem`, `OvershootTheorem` (`Decorators`) | `DecoratedInv` |

The assumptions are those stated in the modules: finite sets of callers,
positive numbers as the constructors demand, `Costs` bounded by `MaxCost`, and a
`MaxSince` that is longer than the longest interval. No theorem adds one of its
own. Three properties of `Guard` have a premise in their statement instead, about
how requests have come (`traffic`): one at a time, from however many threads, and
for `SerialTripJustified` and `RestsOnLiveKey` within one month. The run
`guard_month` shows that the long trip is not justified without the second.

* Types in `Guard` are not inductive: `Backoff` adds to `attempt`. `TypeInv` adds
  that a thread that sleeps has an attempt left.
* `RotationRecovers` is not inductive: it does not say that the thread in `rotate`
  will find an unmarked key. `RotationInv` says which thread is on its way to one:
  one for which all the offsets it has passed lead, from the index as it is now,
  to marked keys (`Scanning`). Since the offsets reach every key
  (`OffsetsReachAll`), such a scan ends only at an unmarked key, or with all of
  them marked. Whoever moves the index moves it to an unmarked key, and whoever
  marks that one starts a scan of its own.
* `OneAtATime` says what `traffic` records: before the first overlap at most one
  request is under way, so that a step of one is the only thing that happens
  (`Alone`). `SerialTripJustified` and `RestsOnLiveKey` need that marks are about the keys
  that have run out. `SpentIsMarked`: every marked key is spent, and every spent
  key is marked or, for one more step, about to be. `KeyInUse` says why nothing
  else is ever marked: the key of the call in flight is still the current one
  when its answer comes, which needs that nobody else rotates. `OpenMeansQuiet`
  needs neither, nor that the month lasts: it is inductive with `TypeInv` and
  `OneAtATime`.
* `MarksBounded` counts marks against keys that have run out. `MarksInv` adds the
  calls that are under way with a key known to have run out (`Doomed`): each may
  still cost a mark, and the first report of a key pays for one mark of every
  task. It needs that a called key is current or marked, so that no new call
  goes to a spent key while another is unmarked.
* `AdmissionKept` is shown step by step for `Guard`, `AsyncGuard` and `Decorators`:
  each step is one of `Admission` or leaves what it speaks of alone
  (`PromiseStep`).
* `OvershootBounded` follows from what `Admission` promises: entering needs
  `used < MaxCredits`, and each caller leaves once. Its inductive form adds the
  charges that are outstanding, at most `MaxCost` (`Credits` in `Decorators`)
  for each caller inside (`Outstanding`), so that the quota can be passed only by what those who were
  admitted below it still owe. Each of the three modules has the argument
  for its own callers and costs.
* `RefillIdeal` and `DrainIdeal`: the ideal allowance is what the bucket would
  hold if somebody looked now (`Refilled`), or the room it would have (`Room`,
  `Capacity` less what has not leaked yet). A refill or a leak changes nothing
  under that mapping, a tick is an ideal tick, since age stops growing only when
  the bucket is full or empty whatever it held (`AgeOnTick`), and a grant is an
  ideal grant. `BoundStep`, stated once for both, is why the bound on a window is
  inductive: the window opens with an allowance of at most `Capacity` and gains
  `Rate` with each unit of time, and each grant moves an amount from the
  allowance to what was sent.
* `PaceKept` needs that a sleeper's time is right when it wakes, although it
  was computed earlier. Whoever sleeps in a gate holds its lock, and what is left
  of the sleep and the time since the last grant make up an interval of the rate
  as it is now, since every report needs the same lock. `SlotKept` is the same
  argument for a rate that never changes.
* `FloorHolds` counts requests, but the wrapped limiter spaces callers, who may
  stay between the gates. `FloorInv` counts the requests of the window and the
  callers between the gates together, less as many as may have been there when it
  began (`Passed`): with each that passes, the window must have grown by another
  interval (`FitsOnGrant`), by the spacing just proved.
* `ChargesSurvive` of `PersistentQuota` speaks of the file and the tracker, and a step
  may put an orphan's payload in the file, or the payload of a write that a crash
  cut short. `Inv` says of all of them, the file included, that they are of the
  tracker's period and lie between what is settled and what the tracker holds
  (`Kept`), and that the credits of the one charge that is being written are in
  the tracker and not yet settled. An unread tracker is the exception: it counts
  from zero, what is settled stays in the file alone, and its first write begins
  a new account, so that `settled` starts again with it. `FileAdvances` follows
  from the upper bound; it leaves out that first write, and `SpentStaysSaved`
  is what the code would have to keep to need no such exception.
* `ChargesSurvive` of `QuotaFile` is about a file that is written in place, by
  methods that may overlap. `CountKept` extends it to every count that a method has
  read and not yet written, since that one may be the next content of the file.
  A charge is settled only when it was made alone, and `LoneCharge` says why it can
  be: the tracker has its credits on top of what is settled, its payload is the
  tracker as it is now, and the file in front of it is empty, so that what it
  writes is whole. `LoneWriteRepairs` follows from the same part. `ChargeDue` keeps
  apart the methods that have a charge to add and those that only roll or reset,
  and `Inside` that a method cannot be alone beside another.
* `ResponsesAccounted` compares two places of an exchange. `ResponseKept` says what
  its response is at every place: open from the answer to the end of its close
  (`Keeping`), closed asleep, none on its way to the client. `RetriesFollow` adds
  that an exchange closes and sleeps only with an attempt left, without which it
  would return what it has closed. What the caller got (`outcome`) decides what the
  response must be at the end: "unclosed" is set only by an end in the middle of the
  close, so an error or a cancellation anywhere else that left a response open
  would violate it.
* `OpenSendsBounded` counts requests already sent and says nothing of those that may
  follow. `SendsBounded` adds them: while the circuit is open, what was sent and the
  attempts that exchanges still have (`AttemptsLeft`, a set of pairs of an
  exchange and an attempt, so that its cardinality is their number) are together
  at most `Retries` for every exchange but the one that tripped. A send takes a
  pair out of the set (`SendStep`), a trip starts with none for its own
  exchange (`OthersAttempts`), and no exchange gets in while the circuit is open.
* `OpenShown` is inductive with the types of `Decorators`, proved in two halves: the
  numbers with the gauge, and the two flags.

Proved and not checked by a run, since others say more about the same
instance: the type invariants of `Guard`, `AsyncGuard`, `AdaptiveLimiter`,
`ConcurrencyLimiter` and both buckets, `OpenAdmitsNobody` of `AsyncGuard`, `OvershootBounded`
of `AsyncGuard` and `Decorators`, and `InflowBounded` of `LeakyBucket`.

Only model-checked: liveness (`RequestsReturn`, `HolderReleases`,
`KeepsServing`, `RateRecovers`, `ExchangesEnd`, `GaugeRecovers`, `DeadServiceTrips`), which
is out of the prover's reach. `WeightedCosts` and `PrometheusExporter` have no
theorems of their own: their operators are used in those of `QuotaFile` and
`Decorators`.

## Not modelled, and the plan

Not modelled yet: callbacks that raise in the middle of `record_failure` or of an
exchange, async ones that are cancelled there, a
`charge` of the guard that raises, the synchronous decorators and other orders
of the stack, the exporter's counters, two processes on one state file.

Left out for good: backoff.py, whose arithmetic on header values decides only
how long a sleep is, and the models need only that it ends; imports; the
installation checks of optional clients; the examples; the wording of messages.
