--------------------------- MODULE MC_CreditLedger ---------------------------
(***************************************************************************)
(* Three requests against an account small enough to be exhausted by one.  *)
(***************************************************************************)
EXTENDS CreditLedger, TLC

CONSTANTS free, growth

MCPlans == {free, growth}
MCAllowance == [p \in MCPlans |-> IF p = free THEN 0 ELSE 2]
MCNoCeiling == -1

RequestSymmetry == Permutations(Requests)
=============================================================================
