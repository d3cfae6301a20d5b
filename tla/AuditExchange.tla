---------------------------- MODULE AuditExchange ---------------------------
(***************************************************************************)
(* What the two parties of the exchange share: the audit event             *)
(* (schema/event.ts) and the Attempt Response (transport/transport.ts).    *)
(***************************************************************************)
EXTENDS Ledger, KeyRegistry

CONSTANTS
    Sessions, Ids,
    Bodies,          \* what else an event says: its action, target and context
    Events,          \* the well-formed events that may be sent
    NoKey,           \* key_id of an event without the Level-2 fields
    Forged,          \* signer of an event whose signature verifies under no key
    Nothing          \* an absent map entry

Outcomes == {"attempted", "success", "failed", "aborted"}

AbortReasons == {"hash-mismatch", "host-rejected", "host-unavailable",
                 "host-uncountersigned", "host-signature-invalid"}

NoReason == "none"

AuditEvents ==
    [id : Ids, session_id : Sessions, outcome : Outcomes,
     reason : AbortReasons \cup {NoReason}, body : Bodies,
     key_id : KeyIds \cup {NoKey}, signer_seq : Nat,
     signed_by : PublicKeys \cup {Forged}]

\* The schema's presence rule: an aborted outcome names its abort code.
WellFormed(e) == e.outcome = "aborted" => e.reason # NoReason

IsAttempt(e) == e.outcome = "attempted"

Unsigned(e) == e.key_id = NoKey

\* Events are correlated by session and id, and numbered by session and key.
SameOperation(e, f) == e.session_id = f.session_id /\ e.id = f.id

SameWindow(e, f) == e.session_id = f.session_id /\ e.key_id = f.key_id

ASSUME EventsAssumption ==
    /\ Events \subseteq AuditEvents
    /\ \A e \in Events : WellFormed(e)
    /\ NoKey \notin KeyIds
    /\ Forged \notin PublicKeys

RejectReasons == {"schema-invalid", "replay-detected", "l2-unsigned",
                  "unknown-key", "signature-invalid"}

Responses ==
         [status : {"accept"}, seq : Nat, host_ts : Nat,
          previous_hash : Hashes(Events), record_hash : Hashes(Events),
          host_signature : SUBSET [seq : Nat, host_ts : Nat,
                                   previous_hash : Hashes(Events),
                                   record_hash : Hashes(Events)]]
    \cup [status : {"reject"}, reason : RejectReasons]
    \cup [status : {"unavailable"}, reason : {"internal-error"}]

Accept(record) ==
    [status |-> "accept", seq |-> record.seq, host_ts |-> record.host_ts,
     previous_hash |-> record.previous_hash, record_hash |-> record.record_hash,
     host_signature |-> record.host_signature]

Reject(reason) == [status |-> "reject", reason |-> reason]

Unavailable == [status |-> "unavailable", reason |-> "internal-error"]
=============================================================================
