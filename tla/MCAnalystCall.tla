---------------------------- MODULE MCAnalystCall ---------------------------
(***************************************************************************)
(* One call of the example tool, its three operations in order.            *)
(***************************************************************************)
EXTENDS AnalystCall

CONSTANTS s1, a, b, c, k1, pk1, hk, hpk

OneCall == [i \in Ids |-> s1]

InOrder == [s \in Sessions |-> <<a, b, c>>]
=============================================================================
