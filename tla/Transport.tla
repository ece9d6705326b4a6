------------------------------ MODULE Transport ------------------------------
(***************************************************************************)
(* transport.py: one circuit shared by the exchanges of several callers.   *)
(* HttpxLimiterTransport.handle_request and RequestsLimiterAdapter.send    *)
(* run by threads, and with Cancel AsyncHttpxLimiterTransport by tasks:    *)
(* the three have the same control flow. Steps end where a thread may be   *)
(* preempted, at calls; between two awaits a task takes several of them.   *)
(* The limiter is a finite delay, on_event returns at once, and the client *)
(* underneath answers or raises.                                           *)
(***************************************************************************)
EXTENDS CircuitBreaker, FiniteSets

CONSTANTS
  Callers,           \* threads or tasks, each with one exchange at a time
  Retries,           \* retries
  ExhaustedSeconds,  \* MONTHLY_EXHAUSTION_OPEN_SECONDS
  Cancellable        \* whether an exchange may be cancelled (asyncio)

ASSUME TransportAssumption ==
  /\ IsFiniteSet(Callers)
  /\ Retries \in Nat \ {0}
  /\ ExhaustedSeconds \in Nat \ {0}
  /\ Cancellable \in BOOLEAN

VARIABLES
  pc,                \* what each caller is about to run or waits for
  attempt,           \* the loop variable
  response,          \* the last response of each caller's exchange: "none",
                     \* "open" or "closed"
  outcome,           \* history: what the caller got of its exchange: "nothing",
                     \* its "response", or an error "unclosed", which came while
                     \* a response was being closed
  sentOpen           \* history: requests sent since the circuit opened

exchanges == <<pc, attempt, response, outcome>>
vars == <<circuitVars, exchanges, sentOpen>>

Init ==
  /\ CircuitInit
  /\ pc = [c \in Callers |-> "idle"]
  /\ attempt = [c \in Callers |-> 0]
  /\ response = [c \in Callers |-> "none"]
  /\ outcome = [c \in Callers |-> "nothing"]
  /\ sentOpen = 0

At(c, label) == pc[c] = label
Goto(c, label) == pc' = [pc EXCEPT ![c] = label]
Respond(c, r) == response' = [response EXCEPT ![c] = r]

\* Mutation of LastAttempt: counted from one
LastAttemptFromOne(c) == attempt[c] = Retries

LastAttempt(c) == attempt[c] = Retries - 1

\* The exchange is over, and what becomes of its last response is up to the caller
End(c, what) ==
  /\ Goto(c, "idle")
  /\ attempt' = [attempt EXCEPT ![c] = 0]
  /\ outcome' = [outcome EXCEPT ![c] = what]

Return(c) == End(c, "response")
Raise(c) == End(c, IF At(c, "closing") THEN "unclosed" ELSE "nothing")

Continue(c, label) == Goto(c, label) /\ UNCHANGED <<attempt, outcome>>

\* The circuit lets the exchange begin, or CircuitOpenError is raised
Start(c) ==
  /\ At(c, "idle")
  /\ Goto(c, IF IsOpen THEN "idle" ELSE "limiter")
  /\ Respond(c, "none")
  /\ outcome' = [outcome EXCEPT ![c] = "nothing"]
  /\ UNCHANGED <<circuitVars, attempt, sentOpen>>

\* limiter.acquire() returns and the request goes out
Send(c) ==
  /\ At(c, "limiter")
  /\ Continue(c, "sending")
  /\ Respond(c, "none")
  /\ sentOpen' = (IF IsOpen THEN sentOpen + 1 ELSE 0)
  /\ UNCHANGED circuitVars

-----------------------------------------------------------------------------
\* What comes back

Answered(c) == At(c, "sending") /\ UNCHANGED <<circuitVars, sentOpen>>

\* The client raises: nothing is recorded
AnswerRaises(c) == Answered(c) /\ Raise(c) /\ UNCHANGED response

\* 429 with "max usage reached", and any other 429
AnswerMaxUsage(c) == Answered(c) /\ Continue(c, "tripping") /\ Respond(c, "open")
AnswerThrottled(c) == Answered(c) /\ Continue(c, "counting") /\ Respond(c, "open")

\* A status of 500 or more is tried again while attempts are left
AnswerUnavailable(c) ==
  /\ Answered(c)
  /\ Respond(c, "open")
  /\ IF LastAttempt(c) THEN Return(c) ELSE Continue(c, "closing")

\* Any other status from 400 on is returned as it is
AnswerRefused(c) == Answered(c) /\ Return(c) /\ Respond(c, "open")

AnswerOk(c) == Answered(c) /\ Continue(c, "succeeding") /\ Respond(c, "open")

Answer(c) ==
  \/ AnswerRaises(c) \/ AnswerMaxUsage(c) \/ AnswerThrottled(c)
  \/ AnswerUnavailable(c) \/ AnswerRefused(c) \/ AnswerOk(c)

-----------------------------------------------------------------------------
\* record_failure of the circuit: count and compare, trip, reset the count

FailCount(c) ==
  /\ At(c, "counting")
  /\ CountFailure
  /\ Continue(c, IF ReachesThreshold THEN "opening" ELSE "checking")
  /\ UNCHANGED <<openFor, response, sentOpen>>

FailTrip(c) ==
  /\ At(c, "opening")
  /\ Trip(OpenSeconds)
  /\ Continue(c, "clearing")
  /\ UNCHANGED <<failures, response, sentOpen>>

FailClear(c) ==
  /\ At(c, "clearing")
  /\ ClearStreak
  /\ Continue(c, "checking")
  /\ UNCHANGED <<openFor, response, sentOpen>>

\* Mutation of FailCheck: the circuit is not asked again
FailCheckUnchecked(c) ==
  /\ At(c, "checking")
  /\ IF LastAttempt(c) THEN Return(c) ELSE Continue(c, "closing")
  /\ UNCHANGED <<circuitVars, response, sentOpen>>

\* Mutation of FailCheck: the last attempt is backed off from as well
FailCheckPastLast(c) ==
  /\ At(c, "checking")
  /\ IF IsOpen THEN Return(c) ELSE Continue(c, "closing")
  /\ UNCHANGED <<circuitVars, response, sentOpen>>

\* The 429 is returned if the circuit is open by now or no attempt is left
FailCheck(c) ==
  /\ At(c, "checking")
  /\ IF IsOpen \/ LastAttempt(c) THEN Return(c) ELSE Continue(c, "closing")
  /\ UNCHANGED <<circuitVars, response, sentOpen>>

-----------------------------------------------------------------------------
\* The response is closed and the delay slept

Close(c) ==
  /\ At(c, "closing")
  /\ Respond(c, "closed")
  /\ Continue(c, "sleeping")
  /\ UNCHANGED <<circuitVars, sentOpen>>

\* close or aclose of the response raises, and the exchange ends with it
CloseRaises(c) ==
  /\ At(c, "closing")
  /\ Raise(c)
  /\ UNCHANGED <<circuitVars, response, sentOpen>>

\* Mutation of Sleep: the attempt is not counted
SleepUncounted(c) ==
  /\ At(c, "sleeping")
  /\ Continue(c, "limiter")
  /\ UNCHANGED <<circuitVars, response, sentOpen>>

\* The next round; were there none, the response would be returned
Sleep(c) ==
  /\ At(c, "sleeping")
  /\ IF LastAttempt(c)
       THEN Return(c)
       ELSE /\ attempt' = [attempt EXCEPT ![c] = @ + 1]
            /\ Goto(c, "limiter")
            /\ UNCHANGED outcome
  /\ UNCHANGED <<circuitVars, response, sentOpen>>

TripLong(c) ==
  /\ At(c, "tripping")
  /\ Trip(ExhaustedSeconds)
  /\ Return(c)
  /\ UNCHANGED <<failures, response, sentOpen>>

Success(c) ==
  /\ At(c, "succeeding")
  /\ RecordSuccess
  /\ sentOpen' = 0
  /\ Return(c)
  /\ UNCHANGED response

\* CancelledError where a task awaits the limiter, the client, the close of the
\* response or its sleep; the lock of the circuit is never waited for. The client
\* drops what it has not handed over.
Cancel(c) ==
  /\ Cancellable
  /\ pc[c] \in {"limiter", "sending", "closing", "sleeping"}
  /\ Raise(c)
  /\ UNCHANGED <<circuitVars, response, sentOpen>>

CircuitTick ==
  /\ Elapse
  /\ sentOpen' = (IF openFor' > 0 THEN sentOpen ELSE 0)
  /\ UNCHANGED <<failures, exchanges>>

Proceed(c) ==
  \/ Send(c) \/ Answer(c) \/ FailCount(c) \/ FailTrip(c) \/ FailClear(c)
  \/ FailCheck(c) \/ Close(c) \/ CloseRaises(c) \/ Sleep(c) \/ TripLong(c) \/ Success(c)

Next ==
  \/ \E c \in Callers : Start(c) \/ Proceed(c) \/ Cancel(c)
  \/ CircuitTick

Spec == Init /\ [][Next]_vars

\* Threads run, delays end, the client answers or raises, and close ends or
\* raises. Nobody has to start an exchange or to cancel one.
Fairness == \A c \in Callers : WF_vars(Proceed(c))

FairSpec == Spec /\ Fairness

-----------------------------------------------------------------------------

Labels == {"idle", "limiter", "sending", "counting", "opening", "clearing",
           "checking", "closing", "sleeping", "tripping", "succeeding"}

TypeOK ==
  /\ failures \in Nat /\ openFor \in Nat
  /\ pc \in [Callers -> Labels]
  /\ attempt \in [Callers -> 0 .. Retries - 1]
  /\ response \in [Callers -> {"none", "open", "closed"}]
  /\ outcome \in [Callers -> {"nothing", "response", "unclosed"}]
  /\ sentOpen \in Nat

\* An open circuit stops new exchanges, and every exchange that learns of it from
\* a 429 of its own (transport.py:105, 121). What still goes out are the attempts
\* of exchanges that were under way: the one that opened it sends no more, so
\* there are at most Retries for each of the others.
OpenSendsBounded ==
  IsOpen => sentOpen <= (Cardinality(Callers) - 1) * Retries

\* No exchange waits for its turn, for an answer or for a delay while it keeps a
\* response, no caller gets one that is closed, and a response that no caller got
\* is closed by the end of its exchange: unless that end came in the middle of
\* closing it, where close raised or the task was cancelled. That one way a
\* response is neither closed nor returned (transport.py:64-77, 124, 130, 138, 192).
ResponsesAccounted ==
  \A c \in Callers :
    /\ pc[c] \in {"limiter", "sending", "sleeping"} => response[c] # "open"
    /\ pc[c] = "idle" => (response[c] = "open" <=> outcome[c] \in {"response", "unclosed"})

\* Every exchange ends, whatever the service answers.
ExchangesEnd == \A c \in Callers : pc[c] # "idle" ~> pc[c] = "idle"
==============================================================================
