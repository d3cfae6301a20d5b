----------------------------- MODULE VerifiedHost ---------------------------
(***************************************************************************)
(* The host's ledger read by the verifier: what a conforming host seals    *)
(* must pass the checks of a verifier that holds the key registry as it is *)
(* now, the digest and the host's declared countersign.                    *)
(***************************************************************************)
EXTENDS AuditHost, Verifier

IssuesNow == verifyLedger(ledger, {digest(ledger)}, registry, Countersigns)

\* Whatever arrived, in whatever order and however often, the verifier finds
\* nothing in the ledger of a Level-2 host but numbers it never received or
\* refused - also after a key was revoked, a number was reused or the
\* countersigner threw.
LedgerVerifies ==
    Level = "L2" => \A issue \in IssuesNow : issue.kind = "signer-seq-gap"
=============================================================================
