------------------------------- MODULE Verifier -----------------------------
(***************************************************************************)
(* The verifier (verify/verify.ts, verify.py): what anyone who holds the   *)
(* sealed records, the key registry and - if there is one - an anchored    *)
(* digest can establish, without the host.  It reads the records as they   *)
(* are stored: any field may have been changed.                            *)
(*                                                                         *)
(* The verifier here holds both registries, and the records are of the     *)
(* current version and of one partition under one host key; VerifierReport *)
(* has the rest.                                                           *)
(***************************************************************************)
EXTENDS AuditExchange, SequencesExt

Issue(record, kind, detail) == [record |-> record, kind |-> kind, detail |-> detail]

\* Issues that concern the ledger as a whole name no record.
Whole == 0

-----------------------------------------------------------------------------
(***************************************************************************)
(* The chain, record by record.                                            *)
(***************************************************************************)

\* Hash n is recomputed from the bytes of records 1 to n alone, so that a change
\* anywhere propagates to the last.
recomputed(records) ==
    LET hash[n \in 0..Len(records)] ==
          IF n = 0 THEN GENESIS_HASH
          ELSE computeRecordHash(records[n].event, records[n].seq, records[n].host_ts, hash[n - 1])
    IN hash

seqIssues(records) ==
    {Issue(n, "seq-gap", IF records[n].seq > n - 1 THEN "gap" ELSE "out-of-order") :
        n \in {m \in DOMAIN records : records[m].seq # m - 1}}

chainIssues(records) ==
    LET hash == recomputed(records) IN
         {Issue(n, "record-hash-mismatch", "prev-hash") :
             n \in {m \in DOMAIN records : records[m].previous_hash # hash[m - 1]}}
    \cup {Issue(n, "record-hash-mismatch", "body-hash") :
             n \in {m \in DOMAIN records : records[m].record_hash # hash[m]}}

\* Variant: a revoked key verifies nothing.
signatureIssues_current(records, keys) ==
    {Issue(n, "signature-invalid", "key") :
        n \in {m \in DOMAIN records :
                  LET e == records[m].event IN
                  /\ ~Unsigned(e)
                  /\ isCurrent(keys, e.key_id) => get(keys, e.key_id).publicKey # e.signed_by}}

\* The entry of the key id, revoked or not.
signatureIssues(records, keys) ==
    {Issue(n, "signature-invalid", "key") :
        n \in {m \in DOMAIN records :
                  LET e == records[m].event IN
                  /\ ~Unsigned(e)
                  /\ isRegistered(keys, e.key_id) => get(keys, e.key_id).publicKey # e.signed_by}}

\* A countersignature that is there verifies; `required` says that it must be.
countersignatureIssues(records, required) ==
         {Issue(n, "host-signature-invalid", "uncountersigned") :
             n \in {m \in DOMAIN records : required /\ records[m].host_signature = {}}}
    \cup {Issue(n, "host-signature-invalid", "invalid") :
             n \in {m \in DOMAIN records :
                       LET r == records[m] IN
                       /\ r.host_signature # {}
                       /\ r.host_signature # {countersignaturePayload(r.seq, r.host_ts,
                                                                      r.previous_hash, r.record_hash)}}}

\* An attempt of the same session and id was sealed before record n.
correlated(records, n) ==
    \E m \in 1..(n - 1) :
       IsAttempt(records[m].event) /\ SameOperation(records[m].event, records[n].event)

correlationIssues(records) ==
    {Issue(n, "orphaned-outcome", "never-accepted") :
        n \in {m \in DOMAIN records :
                  records[m].event.outcome \in {"success", "failed"} /\ ~correlated(records, m)}}

-----------------------------------------------------------------------------
(***************************************************************************)
(* Accounting for signer_seq (section 11.4).                               *)
(***************************************************************************)

\* The records that carry a Level-2 number.
numbered(records) == {n \in DOMAIN records : ~Unsigned(records[n].event)}

\* One issue for each record after the first under one number.
sharedSignerSeq(records) ==
    {n \in numbered(records) :
        \E m \in numbered(records) :
           /\ m < n
           /\ SameWindow(records[m].event, records[n].event)
           /\ records[m].event.signer_seq = records[n].event.signer_seq}

\* The numbered records of one key in one session.
group(records, key, s) ==
    {n \in numbered(records) : records[n].event.key_id = key /\ records[n].event.session_id = s}

Run(first, last) == [first |-> first, last |-> last]

\* The values below the largest in `present` that are not in it, as maximal runs in
\* order, from the gaps between the values that are.
missingRuns(present) ==
    LET runs[values \in SUBSET present] ==
          IF values = {} THEN << >>
          ELSE LET value == Max(values)
                   below == values \ {value}
                   next  == IF below = {} THEN 0 ELSE Max(below) + 1
               IN IF value > next THEN Append(runs[below], Run(next, value - 1)) ELSE runs[below]
    IN runs[present]

\* Variant: any sealed refusal accounts for a value, its attempt sealed or not.
refusals_correlatedToo(records, members) ==
    {n \in members :
       LET e == records[n].event IN
       e.outcome = "aborted" /\ e.reason \in {"host-rejected", "host-unavailable"}}

\* Sealed refusals of attempts that were not sealed.
refusals(records, members) ==
    {n \in members :
       LET e == records[n].event IN
       /\ e.outcome = "aborted" /\ e.reason \in {"host-rejected", "host-unavailable"}
       /\ ~correlated(records, n)}

\* Variant: a refusal accounts for a whole run.
accountFor_run(runs, refusal) ==
    IF runs = << >> \/ Head(runs).first >= refusal THEN runs ELSE Tail(runs)

\* A refusal accounts for the smallest value still missing below its own, which is
\* the first value of the first run.
accountFor(runs, refusal) ==
    IF runs = << >> \/ Head(runs).first >= refusal THEN runs
    ELSE IF Head(runs).first = Head(runs).last THEN Tail(runs)
    ELSE <<Run(Head(runs).first + 1, Head(runs).last)>> \o Tail(runs)

\* In ascending order of their numbers.
lastRefusal(records, refusing) ==
    LET value(n) == records[n].event.signer_seq IN
    CHOOSE n \in refusing :
       \A m \in refusing : value(m) < value(n) \/ (value(m) = value(n) /\ m <= n)

\* The runs of one key in one session that no sealed refusal accounts for.
unaccountedRuns(records, key, s) ==
    LET members  == group(records, key, s)
        value(n) == records[n].event.signer_seq
        left[refusing \in SUBSET refusals(records, members)] ==
          IF refusing = {} THEN missingRuns({value(n) : n \in members})
          ELSE LET n == lastRefusal(records, refusing)
               IN accountFor(left[refusing \ {n}], value(n))
    IN left[refusals(records, members)]

unaccountedSignerSeq(records) ==
    UNION {{[key_id |-> key, session_id |-> s, run |-> run] :
               run \in Range(unaccountedRuns(records, key, s))} : key \in KeyIds, s \in Sessions}

\* `anchored` holds the anchored digest, or nothing.
digestIssues(records, anchored) ==
    {Issue(Whole, "digest-mismatch", "anchor") :
        d \in {a \in anchored : a # recomputed(records)[Len(records)]}}

\* The issues of verifyLedger, given the tool-key registry.
verifyLedger(records, anchored, keys, required) ==
         seqIssues(records)
    \cup chainIssues(records)
    \cup signatureIssues(records, keys)
    \cup countersignatureIssues(records, required)
    \cup correlationIssues(records)
    \cup {Issue(Whole, "replay-detected", "shared") : n \in sharedSignerSeq(records)}
    \cup {Issue(Whole, "signer-seq-gap", "unaccounted") : u \in unaccountedSignerSeq(records)}
    \cup digestIssues(records, anchored)
=============================================================================
