----------------------------- MODULE MCQuotaFile -----------------------------
(***************************************************************************)
(* An instance of QuotaFile with a table of weights: m1 is in it, the      *)
(* other methods weigh DefaultWeight.                                      *)
(***************************************************************************)
EXTENDS QuotaFile, TLC

CONSTANTS m1, m2

MCWeights == m1 :> 2
==============================================================================
