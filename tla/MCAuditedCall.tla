---------------------------- MODULE MCAuditedCall ---------------------------
(***************************************************************************)
(* Small instances of calls over one connection.                           *)
(***************************************************************************)
EXTENDS AuditedCall

CONSTANTS s1, a, b, k1, pk1, hk, hpk

\* Two operations of one call, which may overlap.
OneCall == [i \in Ids |-> s1]
=============================================================================
