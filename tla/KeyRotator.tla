----------------------------- MODULE KeyRotator -----------------------------
(***************************************************************************)
(* rotation.py's KeyRotator. A key is its position in the list, as in the  *)
(* code. rotate() is a loop over the offsets 1..len(keys) that reads       *)
(* self.index again in every round: Candidate is one round's candidate.    *)
(***************************************************************************)
EXTENDS Integers

CONSTANT NumKeys     \* len(keys)

ASSUME KeysAssumption == NumKeys \in Nat \ {0}

Keys == 0 .. NumKeys - 1

VARIABLES
  index,             \* position of the current key
  exhausted          \* _exhausted: positions rotate() has marked

rotatorVars == <<index, exhausted>>

RotatorInit == index = 0 /\ exhausted = {}

\* Mutation of MarkCurrent: the key is not marked
MarkCurrentForgotten == UNCHANGED exhausted

MarkCurrent == exhausted' = exhausted \cup {index}

Candidate(offset) == (index + offset) % NumKeys

\* rotate() run without interruption: the first unmarked key after index, or
\* False when that was the last one
RotateToNext ==
  /\ MarkCurrent
  /\ \E offset \in 1 .. NumKeys :
       /\ Candidate(offset) \notin exhausted'
       /\ \A passed \in 1 .. offset - 1 : Candidate(passed) \in exhausted'
       /\ index' = Candidate(offset)

RotateFails == MarkCurrent /\ exhausted' = Keys /\ UNCHANGED index
=============================================================================
