------------------------------- MODULE Ledger -------------------------------
(***************************************************************************)
(* The tamper-evident ledger of one partition (ledger/ledger.ts): a        *)
(* sequence of sealed records, each of which commits to the one before it. *)
(*                                                                         *)
(* SHA-256 over the canonical form is modelled by what the chain relies    *)
(* on: it is injective.  A record hash is therefore the history it commits *)
(* to - the previous hash with one more link - and GENESIS_HASH is the     *)
(* empty history.  An ideal signature is the payload it was made over.     *)
(***************************************************************************)
EXTENDS Naturals, Sequences

GENESIS_HASH == << >>

Link(event, seq, host_ts) == [event |-> event, seq |-> seq, host_ts |-> host_ts]

computeRecordHash(event, seq, host_ts, previous_hash) ==
    Append(previous_hash, Link(event, seq, host_ts))

\* The fields a countersigning host signs; log_id is the partition's own name
\* and there is one partition here.
countersignaturePayload(seq, host_ts, previous_hash, record_hash) ==
    [seq |-> seq, host_ts |-> host_ts,
     previous_hash |-> previous_hash, record_hash |-> record_hash]

\* The hash the next record links to, and the digest a verifier anchors.
digest(records) ==
    IF records = << >> THEN GENESIS_HASH ELSE records[Len(records)].record_hash

\* Variant: positions counted from one.
sealedRecord_fromOne(records, event, host_ts, countersigns) ==
    LET seq           == Len(records) + 1
        previous_hash == digest(records)
    IN  [event |-> event, seq |-> seq, host_ts |-> host_ts,
         previous_hash |-> previous_hash,
         record_hash |-> computeRecordHash(event, seq, host_ts, previous_hash),
         host_signature |-> {}]

\* Ledger.append builds this record and pushes it: seq is the length before the
\* push.  host_signature holds the signed payload, or nothing: the triple is
\* there as a whole or not at all.
sealedRecord(records, event, host_ts, countersigns) ==
    LET seq           == Len(records)
        previous_hash == digest(records)
        record_hash   == computeRecordHash(event, seq, host_ts, previous_hash)
    IN  [event |-> event, seq |-> seq, host_ts |-> host_ts,
         previous_hash |-> previous_hash, record_hash |-> record_hash,
         host_signature |->
             IF countersigns
             THEN {countersignaturePayload(seq, host_ts, previous_hash, record_hash)}
             ELSE {}]

-----------------------------------------------------------------------------

Hashes(Events) == Seq([event : Events, seq : Nat, host_ts : Nat])

SealedRecords(Events) ==
    [event : Events, seq : Nat, host_ts : Nat,
     previous_hash : Hashes(Events), record_hash : Hashes(Events),
     host_signature : SUBSET [seq : Nat, host_ts : Nat,
                              previous_hash : Hashes(Events),
                              record_hash : Hashes(Events)]]
=============================================================================
