----------------------------- MODULE VerifiedCall ---------------------------
(***************************************************************************)
(* The ledger of audited calls read by the verifier: what a reader without *)
(* access to the tool or the host can tell of an honest call over a        *)
(* connection that loses events and a host that may be unable to seal.     *)
(***************************************************************************)
EXTENDS AuditedCall, Verifier

sealedNumbers(s) ==
    {ledger[n].event.signer_seq : n \in {m \in DOMAIN ledger : ledger[m].event.session_id = s}}

RefusalIsSealed(i) ==
    \E n \in DOMAIN ledger : ledger[n].event.id = i /\ ledger[n].event.outcome = "aborted"

\* The numbers a session's ledger lacks below its largest, but for those of the
\* attempts whose refusal is sealed in their place.
Suppressed(s) ==
    {v \in 0..(nextSeq[s] - 1) :
       /\ v \notin sealedNumbers(s)
       /\ \E w \in sealedNumbers(s) : v < w
       /\ \A i \in OpsOf(s) :
             sent[i] # Nothing /\ sent[i].signer_seq = v => ~RefusalIsSealed(i)}

\* The values of the runs the verifier reports of a session.
Reported(s) ==
    UNION {u.run.first..u.run.last :
              u \in {v \in unaccountedSignerSeq(ledger) : v.session_id = s}}

\* The number of unaccounted values is exact (section 11.4): the verifier, which
\* sees the sealed records alone, reports as many values of a session as the
\* ledger lacks - at every moment, whichever refusals took the place of whichever
\* attempts, and however far the operations of a call overlapped.  It may report
\* others than those: a refusal accounts for the smallest one below it.
UnaccountedIsExact ==
    Signs => \A s \in Sessions : Cardinality(Reported(s)) = Cardinality(Suppressed(s))

\* An honest call verifies: of the ledger of calls over a connection that lost nothing
\* and a host that could always seal, the verifier reports nothing at all, at whatever
\* moment it is read and however the operations of a call overlap.  Otherwise it reports
\* missing numbers at most, and only of sessions with such a cause or given up.
HonestCallVerifies ==
    /\ \A issue \in verifyLedger(ledger, {digest(ledger)}, registry, Countersigns) :
          issue.kind = "signer-seq-gap"
    /\ \A s \in Sessions :
          Reported(s) # {} =>
            \/ s \in givenUp \cup outage
            \/ \E e \in lost : e.session_id = s
=============================================================================
