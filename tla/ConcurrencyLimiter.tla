-------------------------- MODULE ConcurrencyLimiter --------------------------
(***************************************************************************)
(* concurrency.py's ConcurrencyLimiter, called by threads that pair each   *)
(* acquire that returns with a release (as the context manager does), and  *)
(* with CallersFail AsyncConcurrencyLimiter, called by tasks. The permits  *)
(* are in the semaphore and in_flight is a count beside it, behind a lock  *)
(* of its own: the two are updated one after the other. The critical       *)
(* sections of that lock are single steps. A task never waits for it, so   *)
(* that it takes the permit and is counted without a pause between; the    *)
(* steps of threads are finer. Event callbacks matter where they fail: one *)
(* that raises, or where a task is cancelled, makes acquire raise.         *)
(***************************************************************************)
EXTENDS Integers, FiniteSets

CONSTANTS
  Threads,
  MaxConcurrency,    \* max_concurrency
  CallersFail        \* whether callbacks may raise and tasks be cancelled

ASSUME LimiterAssumption ==
  /\ IsFiniteSet(Threads)
  /\ MaxConcurrency \in Nat \ {0}
  /\ CallersFail \in BOOLEAN

VARIABLES
  permits,           \* the value of _semaphore
  inFlight,          \* _in_flight
  pc,
  impatient,         \* acquire was called with blocking=False or a timeout
  lost               \* history: acquires that raised with their permit taken

vars == <<permits, inFlight, pc, impatient, lost>>

Init ==
  /\ permits = MaxConcurrency
  /\ inFlight = 0
  /\ pc = [t \in Threads |-> "idle"]
  /\ impatient = [t \in Threads |-> FALSE]
  /\ lost = 0

Step(t, from, to) == pc[t] = from /\ pc' = [pc EXCEPT ![t] = to]

Return(t, from) ==
  /\ Step(t, from, "idle")
  /\ impatient' = [impatient EXCEPT ![t] = FALSE]

\* acquire is called. That it may emit "saturated" first changes nothing here.
Request(t) ==
  /\ Step(t, "idle", "wait")
  /\ \E gives \in BOOLEAN : impatient' = [impatient EXCEPT ![t] = gives]
  /\ UNCHANGED <<permits, inFlight, lost>>

\* The callback of "saturated" raises, or a task is cancelled there or while it
\* waits for the semaphore
Abandon(t) ==
  /\ CallersFail
  /\ Return(t, "wait")
  /\ UNCHANGED <<permits, inFlight, lost>>

\* The semaphore lets the thread in
Take(t) ==
  /\ Step(t, "wait", "count")
  /\ permits > 0
  /\ permits' = permits - 1
  /\ UNCHANGED <<inFlight, impatient, lost>>

\* ... or, at once or when the time is up, it does not
Refuse(t) ==
  /\ impatient[t]
  /\ permits = 0
  /\ Step(t, "wait", "refused")
  /\ UNCHANGED <<permits, inFlight, impatient, lost>>

\* Mutation of GiveUp: a refused acquire releases what it never had
GiveUpReleases(t) ==
  /\ Return(t, "refused")
  /\ permits' = permits + 1
  /\ UNCHANGED <<inFlight, lost>>

\* acquire returns False
GiveUp(t) == Return(t, "refused") /\ UNCHANGED <<permits, inFlight, lost>>

\* acquire counts the thread and emits "acquired"
Count(t) ==
  /\ Step(t, "count", "announce")
  /\ inFlight' = inFlight + 1
  /\ UNCHANGED <<permits, impatient, lost>>

\* ... then returns True
Enter(t) ==
  /\ Step(t, "announce", "inside")
  /\ UNCHANGED <<permits, inFlight, impatient, lost>>

\* ... unless the callback raises or the task is cancelled in it: acquire, or
\* __enter__, raises, and nobody will release what it has taken
AnnounceFails(t) ==
  /\ CallersFail
  /\ Return(t, "announce")
  /\ lost' = lost + 1
  /\ UNCHANGED <<permits, inFlight>>

\* Mutation of Release: the permit is given back twice
ReleaseTwice(t) ==
  /\ Step(t, "inside", "uncount")
  /\ permits' = permits + 2
  /\ UNCHANGED <<inFlight, impatient, lost>>

\* Mutation of Release: the permit is not given back
ReleaseForgotten(t) ==
  /\ Step(t, "inside", "uncount")
  /\ UNCHANGED <<permits, inFlight, impatient, lost>>

\* release gives the permit back first
Release(t) ==
  /\ Step(t, "inside", "uncount")
  /\ permits' = permits + 1
  /\ UNCHANGED <<inFlight, impatient, lost>>

\* Mutation of Uncount: the count is not lowered
UncountForgotten(t) ==
  Return(t, "uncount") /\ UNCHANGED <<permits, inFlight, lost>>

\* ... then lowers the count and emits "released", the callback of which comes
\* too late to matter
Uncount(t) ==
  /\ Return(t, "uncount")
  /\ inFlight' = inFlight - 1
  /\ UNCHANGED <<permits, lost>>

Proceed(t) ==
  \/ Take(t) \/ Refuse(t) \/ GiveUp(t) \/ Count(t) \/ Enter(t)
  \/ Release(t) \/ Uncount(t)

Next ==
  \E t \in Threads :
    Request(t) \/ Proceed(t) \/ Abandon(t) \/ AnnounceFails(t)

Spec == Init /\ [][Next]_vars

\* Threads run, and the guarded work ends. threading.Semaphore promises no
\* turn to a thread that waits.
Fairness == \A t \in Threads : WF_vars(Proceed(t))

FairSpec == Spec /\ Fairness

-----------------------------------------------------------------------------

PcIn(labels) == {t \in Threads : pc[t] \in labels}

\* The threads at work between acquire and release
Working == PcIn({"inside"})

\* The threads that have a permit, and those that the count stands for
Holding == PcIn({"count", "announce", "inside"})
Counted == PcIn({"announce", "inside", "uncount"})

TypeOK ==
  /\ permits \in 0 .. MaxConcurrency
  /\ inFlight \in Int
  /\ pc \in [Threads -> {"idle", "wait", "refused", "count", "announce", "inside",
                         "uncount"}]
  /\ impatient \in [Threads -> BOOLEAN]
  /\ lost \in Nat

\* Never more than max_concurrency threads at work: the cap itself.
CapHolds == Cardinality(Working) <= MaxConcurrency

\* Every permit is in the semaphore or with one thread, whether acquires are
\* refused, time out, are cancelled or succeed; the only way to lose one is an
\* acquire that raises after it was granted (concurrency.py:45, 96), and that
\* loses exactly one.
PermitsConserved == permits + Cardinality(Holding) + lost = MaxConcurrency

\* in_flight counts the threads at work, those whose release is under way, and
\* what was lost; it runs behind the permits on both sides, so it can exceed the
\* cap for a moment (concurrency.py:49-51) but never by more than those threads.
CountExact == inFlight = Cardinality(Counted) + lost

\* While threads wait, permits keep being handed out: the limiter never seizes up
\* before every permit is lost. (If there is no end of waiters that abandon their
\* turn, each may do so before it is served.)
KeepsServing ==
  <>[][~ \E t \in Threads : Abandon(t)]_vars =>
    (PcIn({"wait"}) # {} ~>
       \/ PcIn({"count", "refused"}) # {}
       \/ PcIn({"wait"}) = {}
       \/ lost = MaxConcurrency)
=============================================================================
