------------------------------ MODULE QuotaFile ------------------------------
(***************************************************************************)
(* QuotaLimiter of quota.py with a state file, behind the weights of       *)
(* weighted.py. Threads share it without a lock: a step ends at a call.    *)
(* The file is opened with "w", which empties it, and gets its content     *)
(* when it is closed; two writers that have both opened it write one over  *)
(* the other. The process may be killed at any moment, and writes may      *)
(* raise. AsyncQuotaTracker does the same with a lock around each method   *)
(* and no await within: its behaviours are those in which one caller at a  *)
(* time is inside. One process uses the file.                              *)
(***************************************************************************)
EXTENDS WeightedCosts, FiniteSets

CONSTANTS
  Callers,
  WindowSeconds,     \* window_seconds
  MaxTime,           \* the clock stops there
  MaxUsed            \* no charge is made that would lead beyond it

ASSUME FileAssumption ==
  /\ IsFiniteSet(Callers)
  /\ WindowSeconds \in Nat \ {0}
  /\ MaxTime \in Nat /\ MaxUsed \in Nat

VARIABLES
  clock,             \* time.time()
  up,                \* whether the process runs
  start, used,       \* the tracker: window_start and used
  file,
  pc,                \* what each caller is about to run
  todo,              \* what its method does after _roll_if_needed: "add" or
                     \* "return"; after the last write it is "return"
  amount,            \* the credits of its charge, 0 for other methods
  payload,           \* what its _persist writes
  alone,             \* history: nobody else has been inside since it came
  settled            \* history: credits of this window whose charge, made
                     \* alone, returned

tracker == <<start, used>>
callers == <<pc, todo, amount, payload>>
history == <<alone, settled>>
vars == <<clock, up, tracker, file, callers, history>>

Whole(s, u) == [state |-> "whole", start |-> s, used |-> u]
Unusable(why) == [state |-> why, start |-> 0, used |-> 0]
Missing == Unusable("missing")
Empty == Unusable("empty")
Torn == Unusable("torn")

\* json.load takes it
Readable == file.state \in {"missing", "whole"}

WindowOver(since) == clock - since >= WindowSeconds

ForAll(value) == [c \in Callers |-> value]

Init ==
  /\ clock = 0 /\ up = TRUE
  /\ start = 0 /\ used = 0
  /\ file = Missing
  /\ pc = ForAll("idle") /\ todo = ForAll("return") /\ amount = ForAll(0)
  /\ payload = ForAll(Missing) /\ alone = ForAll(FALSE)
  /\ settled = 0

At(c, label) == up /\ pc[c] = label
Goto(c, label) == pc' = [pc EXCEPT ![c] = label]

\* The method returns, or raises
Leave(c) ==
  /\ Goto(c, "idle")
  /\ todo' = [todo EXCEPT ![c] = "return"]
  /\ amount' = [amount EXCEPT ![c] = 0]
  /\ payload' = [payload EXCEPT ![c] = Missing]
  /\ alone' = [alone EXCEPT ![c] = FALSE]

-----------------------------------------------------------------------------
\* The methods

Request(c, label, what, credits) ==
  /\ At(c, "idle")
  /\ Goto(c, label)
  /\ todo' = [todo EXCEPT ![c] = what]
  /\ amount' = [amount EXCEPT ![c] = credits]
  /\ alone' = [d \in Callers |-> d = c /\ \A e \in Callers : pc[e] = "idle"]
  /\ UNCHANGED <<clock, up, tracker, file, payload, settled>>

\* WeightedCostLimiter.charge; is_exhausted or remaining; reset
CallCharge(c) ==
  \E m \in Methods, k \in Multipliers : Request(c, "test", "add", CreditsFor(m, k))
CallAsk(c) == Request(c, "test", "return", 0)
CallReset(c) == Request(c, "reset", "return", 0)

\* The test of _roll_if_needed; if the window is not over the method goes on
RollTest(c) ==
  /\ At(c, "test")
  /\ IF ~WindowOver(start) /\ todo[c] = "return"
       THEN Leave(c)
       ELSE /\ Goto(c, IF WindowOver(start) THEN "reset" ELSE "add")
            /\ UNCHANGED <<todo, amount, payload, alone>>
  /\ UNCHANGED <<clock, up, tracker, file, settled>>

\* Mutation of Reset: the window is moved on by its length
ResetMovesOn(c) ==
  /\ At(c, "reset")
  /\ start' = start + WindowSeconds /\ used' = 0
  /\ settled' = 0
  /\ Goto(c, "persist")
  /\ UNCHANGED <<clock, up, file, todo, amount, payload, alone>>

\* _roll_if_needed and reset start a window
Reset(c) ==
  /\ At(c, "reset")
  /\ start' = clock /\ used' = 0
  /\ settled' = 0
  /\ Goto(c, "persist")
  /\ UNCHANGED <<clock, up, file, todo, amount, payload, alone>>

Add(c) ==
  /\ At(c, "add")
  /\ used + amount[c] <= MaxUsed
  /\ used' = used + amount[c]
  /\ todo' = [todo EXCEPT ![c] = "return"]
  /\ Goto(c, "persist")
  /\ UNCHANGED <<clock, up, start, file, amount, payload, history>>

-----------------------------------------------------------------------------
\* _persist

Persist(c) ==
  /\ At(c, "persist")
  /\ payload' = [payload EXCEPT ![c] = Whole(start, used)]
  /\ Goto(c, "open")
  /\ UNCHANGED <<clock, up, tracker, file, todo, amount, history>>

\* Mutation of Open: the old content stays until it is written over
OpenKeeps(c) ==
  /\ At(c, "open")
  /\ file' = (IF file = Missing THEN Empty ELSE file)
  /\ Goto(c, "write")
  /\ UNCHANGED <<clock, up, tracker, todo, amount, payload, history>>

Open(c) ==
  /\ At(c, "open")
  /\ file' = Empty
  /\ Goto(c, "write")
  /\ UNCHANGED <<clock, up, tracker, todo, amount, payload, history>>

\* Dumped and closed. Where another writer has been since the file was emptied,
\* a longer content sticks out behind a shorter one.
Write(c) ==
  /\ At(c, "write")
  /\ file' \in {payload[c]} \cup (IF file = Empty THEN {} ELSE {Torn})
  /\ IF todo[c] = "add"
       THEN Goto(c, "add") /\ UNCHANGED <<todo, amount, payload, history>>
       ELSE /\ settled' = settled + (IF alone[c] THEN amount[c] ELSE 0)
            /\ Leave(c)
  /\ UNCHANGED <<clock, up, tracker>>

\* open raises, and the file is as it was; or dump or close does, and it is not
OpenFails(c) ==
  /\ At(c, "open")
  /\ Leave(c)
  /\ UNCHANGED <<clock, up, tracker, file, settled>>

WriteFails(c) ==
  /\ At(c, "write")
  /\ file' \in {file, Torn}
  /\ Leave(c)
  /\ UNCHANGED <<clock, up, tracker, settled>>

-----------------------------------------------------------------------------
\* The process

\* External: it is killed; what it was writing may be there in part
Crash ==
  /\ up
  /\ up' = FALSE
  /\ start' = 0 /\ used' = 0
  /\ file' \in {file} \cup (IF \E c \in Callers : pc[c] = "write" THEN {Torn} ELSE {})
  /\ pc' = ForAll("idle") /\ todo' = ForAll("return") /\ amount' = ForAll(0)
  /\ payload' = ForAll(Missing) /\ alone' = ForAll(FALSE)
  /\ UNCHANGED <<clock, settled>>

\* The constructor finds no file
StartAnew ==
  /\ ~up /\ file = Missing
  /\ up' = TRUE
  /\ start' = clock /\ used' = 0
  /\ UNCHANGED <<clock, file, callers, history>>

\* Mutation of Restart: a file that cannot be read counts for nothing
RestartAnyway ==
  /\ ~up /\ file # Missing
  /\ ~WindowOver(file.start)
  /\ up' = TRUE
  /\ start' = file.start /\ used' = file.used
  /\ UNCHANGED <<clock, file, callers, history>>

\* ... or loads it. A file that json.load does not take stops it every time.
Restart ==
  /\ ~up /\ file.state = "whole"
  /\ ~WindowOver(file.start)
  /\ up' = TRUE
  /\ start' = file.start /\ used' = file.used
  /\ UNCHANGED <<clock, file, callers, history>>

\* ... and finds its window over: a new one is begun and written,
RestartRolls ==
  /\ ~up /\ file.state = "whole"
  /\ WindowOver(file.start)
  /\ up' = TRUE
  /\ start' = clock /\ used' = 0
  /\ file' = Whole(clock, 0)
  /\ settled' = 0
  /\ UNCHANGED <<clock, callers, alone>>

\* ... or, where that raises, is not
RestartFails ==
  /\ ~up /\ file.state = "whole"
  /\ WindowOver(file.start)
  /\ file' \in {file, Empty, Torn}
  /\ UNCHANGED <<clock, up, tracker, callers, history>>

\* External: somebody removes a file that no process can start with
Repair ==
  /\ ~up /\ ~Readable
  /\ file' = Missing
  /\ settled' = 0
  /\ UNCHANGED <<clock, up, tracker, callers, alone>>

Tick ==
  /\ clock < MaxTime
  /\ clock' = clock + 1
  /\ UNCHANGED <<up, tracker, file, callers, history>>

Proceed(c) ==
  \/ RollTest(c) \/ Reset(c) \/ Add(c)
  \/ Persist(c) \/ Open(c) \/ Write(c) \/ OpenFails(c) \/ WriteFails(c)

Next ==
  \/ \E c \in Callers : CallCharge(c) \/ CallAsk(c) \/ CallReset(c) \/ Proceed(c)
  \/ Crash \/ StartAnew \/ Restart \/ RestartRolls \/ RestartFails \/ Repair
  \/ Tick

Spec == Init /\ [][Next]_vars

-----------------------------------------------------------------------------

TypeOK ==
  /\ clock \in 0 .. MaxTime /\ start \in 0 .. clock
  /\ up \in BOOLEAN
  /\ used \in 0 .. MaxUsed /\ settled \in 0 .. MaxUsed
  /\ file \in {Missing, Empty, Torn} \cup {Whole(s, u) : s \in 0 .. clock, u \in 0 .. MaxUsed}
  /\ pc \in [Callers -> {"idle", "test", "reset", "add", "persist", "open", "write"}]
  /\ todo \in [Callers -> {"add", "return"}]
  /\ alone \in [Callers -> BOOLEAN]

\* A charge that was made with nobody else inside the tracker, and returned, is
\* in every count the file holds from then on, and in every tracker that is loaded
\* from it, whatever overlaps, fails or crashes later: until its window is over
\* or reset, or the file is torn and removed by hand (quota.py:55-68).
ChargesSurvive ==
  settled > 0 =>
    /\ Readable => file.used >= settled
    /\ up => used >= settled

\* A torn or outdated file is made good by the next method that writes it with
\* nobody else inside (quota.py:67).
LoneWriteRepairs ==
  [][\A c \in Callers : Write(c) /\ alone[c] => file' = Whole(start, used)]_vars
==============================================================================
