----------------------------- MODULE VerifierReport -------------------------
(***************************************************************************)
(* The whole of verifyLedger (verify/verify.ts): a ledger as it may really *)
(* be stored - records of several versions, malformed or impossible to     *)
(* canonicalize, countersigned by somebody under some name - read by a     *)
(* verifier that was given some of its out-of-band inputs and not others.  *)
(* Verifier has the checks that need none of this.                         *)
(*                                                                         *)
(* A record carries the countersignature triple host_signature,            *)
(* host_key_id, log_id, each Nothing where it is absent, and its event a   *)
(* version.  OutOfDomain stands for any value outside the canonicalization *)
(* domain: as the body of an event, or as host_ts in place of any member   *)
(* of the record next to its event.                                        *)
(***************************************************************************)
EXTENDS Verifier

CONSTANTS OutOfDomain

ASSUME OutOfDomainAssumption == OutOfDomain \notin Nat

CurrentVersion == 1

isEarlier(event) == event.version < CurrentVersion

\* The inputs: each registry, digest and identity is given or not.
InputsOf(digests, toolRegistries, hostRegistries, identities) ==
    [anchored : SUBSET digests, keyRegistry : SUBSET toolRegistries,
     hostKeyRegistry : SUBSET hostRegistries, expectedIdentity : SUBSET identities,
     countersignatureRequired : BOOLEAN]

\* Otherwise the call throws instead of reporting.
disjointRegistries(inputs) ==
    \A tool \in inputs.keyRegistry, host \in inputs.hostKeyRegistry : ~sharesKeyWith(tool, host)

-----------------------------------------------------------------------------
(***************************************************************************)
(* The record by itself.                                                   *)
(***************************************************************************)

structureError(event) == ~WellFormed(event) \/ event.body = OutOfDomain

schemaIssues(records) ==
         {Issue(n, "schema-invalid", "structure") :
             n \in {m \in DOMAIN records : structureError(records[m].event)}}
    \cup {Issue(n, "schema-invalid", "version-regression") :
             n \in {m \in DOMAIN records :
                       \E k \in 1..(m - 1) : records[k].event.version > records[m].event.version}}

\* canonicalDomainError of the whole record.
hashable(r) == r.event.body # OutOfDomain /\ r.host_ts # OutOfDomain

\* A record that has no hash to recompute hands on the one it stores.
chainHash(records) ==
    LET hash[n \in 0..Len(records)] ==
          IF n = 0 THEN GENESIS_HASH
          ELSE IF ~hashable(records[n]) THEN records[n].record_hash
          ELSE computeRecordHash(records[n].event, records[n].seq, records[n].host_ts, hash[n - 1])
    IN hash

hashIssues(records) ==
    LET hash   == chainHash(records)
        hashed == {n \in DOMAIN records : hashable(records[n])}
    IN   {Issue(n, "record-hash-mismatch", "prev-hash") :
             n \in {m \in hashed : records[m].previous_hash # hash[m - 1]}}
    \cup {Issue(n, "record-hash-mismatch", "body-hash") :
             n \in {m \in hashed : records[m].record_hash # hash[m]}}

-----------------------------------------------------------------------------
(***************************************************************************)
(* Who confirmed it.                                                       *)
(***************************************************************************)

toolIssues(records, inputs) == UNION {signatureIssues(records, keys) : keys \in inputs.keyRegistry}

present(r) == {m \in {"host_signature", "host_key_id", "log_id"} : r[m] # Nothing}

triple == {"host_signature", "host_key_id", "log_id"}

\* The countersigned fields, the name of the ledger among them.
payloadOf(r) ==
    [log_id |-> r.log_id,
     fields |-> countersignaturePayload(r.seq, r.host_ts, r.previous_hash, r.record_hash)]

\* Variant: the verifier asks for a key that is still valid, as a tool does.
countersignatureCheck_current(hostRegistry, r) ==
    /\ isCurrent(hostRegistry, r.host_key_id)
    /\ r.host_signature = [payload |-> payloadOf(r),
                           by      |-> get(hostRegistry, r.host_key_id).publicKey]

\* For a verifier: a revoked key still confirms what was sealed under it.
countersignatureCheck(hostRegistry, r) ==
    /\ isRegistered(hostRegistry, r.host_key_id)
    /\ r.host_signature = [payload |-> payloadOf(r),
                           by      |-> get(hostRegistry, r.host_key_id).publicKey]

\* The records whose countersignature there is something to check of.
countersigned(records) ==
    {n \in DOMAIN records : present(records[n]) = triple /\ hashable(records[n])}

hostIssues(records, inputs) ==
         {Issue(n, "host-signature-invalid", "uncountersigned") :
             n \in {m \in DOMAIN records :
                       inputs.countersignatureRequired /\ present(records[m]) = {}}}
    \cup {Issue(n, "host-signature-invalid", "partial") :
             n \in {m \in DOMAIN records : present(records[m]) \notin {{}, triple}}}
    \cup {Issue(n, "host-signature-invalid", "invalid") :
             n \in {m \in countersigned(records) :
                       \E host \in inputs.hostKeyRegistry : ~countersignatureCheck(host, records[m])}}

\* Variant: the key alone names the partition.
mismatched_keyOnly(r, identity) ==
    present(r) # triple \/ r.host_key_id \notin identity.hostKeyIds

\* Variant: the name alone does.
mismatched_nameOnly(r, identity) == present(r) # triple \/ r.log_id # identity.logId

\* Compared as strings, whatever else is wrong with the record.
mismatched(r, identity) ==
    \/ present(r) # triple
    \/ r.log_id # identity.logId
    \/ r.host_key_id \notin identity.hostKeyIds

identityIssues(records, inputs) ==
    {Issue(n, "principal-mismatch", "identity") :
        n \in {m \in DOMAIN records :
                  \E identity \in inputs.expectedIdentity : mismatched(records[m], identity)}}

\* Variant: an empty ledger has nothing to compare.
anchorIssues_nonEmpty(records, inputs) ==
    {Issue(Whole, "digest-mismatch", "anchor") :
        d \in {a \in inputs.anchored : records # << >> /\ a # chainHash(records)[Len(records)]}}

\* An anchored digest is compared with the hash the last record should have.
anchorIssues(records, inputs) ==
    {Issue(Whole, "digest-mismatch", "anchor") :
        d \in {a \in inputs.anchored : a # chainHash(records)[Len(records)]}}

-----------------------------------------------------------------------------
(***************************************************************************)
(* The report.                                                             *)
(***************************************************************************)

\* Variant: earlier versions' numbers are read as this one's.
currentOnly_all(records) == records

\* Numbers of earlier versions ran per key across calls: the per-session checks
\* leave those records out.
currentOnly(records) ==
    [n \in DOMAIN records |->
       IF isEarlier(records[n].event)
       THEN [records[n] EXCEPT !.event.key_id = NoKey]
       ELSE records[n]]

accountingIssues(records) ==
         {Issue(Whole, "replay-detected", n) : n \in sharedSignerSeq(records)}
    \cup {Issue(Whole, "signer-seq-gap", run) : run \in unaccountedSignerSeq(records)}

issuesOf(records, inputs) ==
         schemaIssues(records)
    \cup seqIssues(records)
    \cup hashIssues(records)
    \cup toolIssues(records, inputs)
    \cup hostIssues(records, inputs)
    \cup identityIssues(records, inputs)
    \cup correlationIssues(records)
    \cup accountingIssues(currentOnly(records))
    \cup anchorIssues(records, inputs)

\* Variant: a check counts as skipped only if there was nothing at all to check with.
unchecked_bothMissing(records, inputs) ==
    IF inputs.keyRegistry = {} /\ inputs.hostKeyRegistry = {}
       /\ (countersigned(records) # {} \/ \E n \in DOMAIN records : ~Unsigned(records[n].event))
    THEN {"countersignature", "level-2-signature"}
    ELSE {}

\* The checks that applied to some record and could not be made.
unchecked(records, inputs) ==
         {"countersignature" : n \in {m \in countersigned(records) : inputs.hostKeyRegistry = {}}}
    \cup {"level-2-signature" :
             n \in {m \in DOMAIN records : ~Unsigned(records[m].event) /\ inputs.keyRegistry = {}}}

complete(records, inputs) ==
    disjointRegistries(inputs) /\ issuesOf(records, inputs) = {} /\ unchecked(records, inputs) = {}
=============================================================================
