---------------------------- MODULE QuotaLimiter ----------------------------
(***************************************************************************)
(* The state of quota.py's QuotaLimiter without a state file               *)
(* (state_path=None, so _load and _persist return at once) and the tests   *)
(* and updates its methods are made of. windowOver stands for              *)
(* time.time() - window_start >= window_seconds.                           *)
(***************************************************************************)
EXTENDS Integers

CONSTANT MaxCredits  \* max_credits

ASSUME QuotaAssumption == MaxCredits \in Nat \ {0}

VARIABLES
  used,              \* credits charged in this window
  windowOver         \* the window has run out and nobody has rolled it

quotaVars == <<used, windowOver>>

QuotaInit == used = 0 /\ windowOver = FALSE

\* Mutation of IsExhausted: > for >=
IsExhaustedLate == used > MaxCredits

IsExhausted == used >= MaxCredits

\* The body of _roll_if_needed once its test has seen the window over
Roll == used' = 0 /\ windowOver' = FALSE

AddCharge(credits) == used' = used + credits /\ UNCHANGED windowOver

\* time.time() passes the end of the window
WindowEnds == windowOver' = TRUE /\ UNCHANGED used
=============================================================================
