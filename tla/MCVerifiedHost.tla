---------------------------- MODULE MCVerifiedHost --------------------------
(***************************************************************************)
(* The events of MCAuditHost, their ledgers read by the verifier.          *)
(***************************************************************************)
EXTENDS MCAuditHost, VerifiedHost
=============================================================================
