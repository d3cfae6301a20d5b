---------------------------- MODULE MCVerifiedCall --------------------------
(***************************************************************************)
(* The calls of MCAuditedCall, their ledgers read by the verifier.         *)
(***************************************************************************)
EXTENDS MCAuditedCall, VerifiedCall
=============================================================================
