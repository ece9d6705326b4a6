----------------------------- MODULE IdealBucket -----------------------------
(***************************************************************************)
(* What both buckets of the library promise: an allowance that grows by    *)
(* Rate with every unit of time up to Capacity and out of which amounts    *)
(* are granted. A watch that starts at any moment counts what is granted   *)
(* from then on (sent) and the time (elapsed, Unwatched when there is no   *)
(* watch): BurstBounded bounds the one by the other for every window of    *)
(* time, not only for those that begin with the limiter.                   *)
(***************************************************************************)
EXTENDS Integers

CONSTANTS Capacity, Rate

VARIABLES avail, sent, elapsed

vars == <<avail, sent, elapsed>>

Unwatched == -1
Watching == elapsed # Unwatched

Lesser(a, b) == IF a <= b THEN a ELSE b

Init == avail \in 0 .. Capacity /\ sent = 0 /\ elapsed = Unwatched

\* The watch may end with any unit of time
Tick ==
  /\ avail' = Lesser(Capacity, avail + Rate)
  /\ \/ Watching /\ elapsed' = elapsed + 1 /\ UNCHANGED sent
     \/ elapsed' = Unwatched /\ sent' = 0

Watch == ~Watching /\ elapsed' = 0 /\ UNCHANGED <<avail, sent>>

Grant(amount) ==
  /\ amount <= avail
  /\ avail' = avail - amount
  /\ sent' = (IF Watching THEN sent + amount ELSE sent)
  /\ UNCHANGED elapsed

Next == Tick \/ Watch \/ \E amount \in 1 .. Capacity : Grant(amount)

Spec == Init /\ [][Next]_vars

\* In a window of any length and position, what is granted and what could be
\* granted at once stay within one capacity and what the window refilled.
BurstBounded == Watching => sent + avail <= Capacity + Rate * elapsed
=============================================================================
