--------------------------- MODULE MCReconciliation -------------------------
(***************************************************************************)
(* Two calls of one operation each, on one destination: an egress to it or *)
(* an operation of another kind on it.                                     *)
(***************************************************************************)
EXTENDS Reconciliation

CONSTANTS s1, s2, a, b, k1, pk1, hk, hpk, d1

TwoCalls == [i \in Ids |-> IF i = a THEN s1 ELSE s2]

TargetedOperations ==
    { [egress |-> TRUE, target |-> d1], [egress |-> FALSE, target |-> d1] }
=============================================================================
