--------------------------- MODULE VerifierVectors --------------------------
(***************************************************************************)
(* The pinned verifier findings and the pinned accounting for signer_seq   *)
(* (vectors/fixtures.ts, vectors/generate.ts), with what the verifier must *)
(* report for each.  A verifier case is verified with any further inputs   *)
(* than its own; two accounting cases are sealed into one chain, in        *)
(* sessions of their own or in the same ones, in any order that keeps each *)
(* one's.                                                                  *)
(***************************************************************************)
EXTENDS VerifierReport, Fixtures

CONSTANTS
    TopOfDomain      \* stands for the largest value of the canonicalization domain

\* A session of a case, on one of the two sides its events may be sealed on.
CaseSessions == {SESSION_ABC, SESSION_XYZ} \X {1, 2}

ASSUME CasesAssumption ==
    /\ CaseSessions \subseteq Sessions
    /\ TopOfDomain \in Nat /\ TopOfDomain > 10

VERIFIER_LOG_ID == "acme#2026-07-15"

-----------------------------------------------------------------------------
(***************************************************************************)
(* The accounting cases: events of two sessions, the lane of which is the  *)
(* side they are sealed on.                                                *)
(***************************************************************************)

accIn(session, id, outcome, n, reason) ==
    [id |-> id, session_id |-> <<session, 1>>, outcome |-> outcome, reason |-> reason,
     body |-> "action", key_id |-> TOOL_KEY_ID, signer_seq |-> n, signed_by |-> ToolKey,
     version |-> CurrentVersion]

acc(id, outcome, n) == accIn(SESSION_ABC, id, outcome, n, NoReason)

refusal(id, n, reason) == accIn(SESSION_ABC, id, "aborted", n, reason)

Case(records, unaccounted) == [records |-> records, unaccounted |-> unaccounted]

ACCOUNTING_CASES == {
    Case(<<acc(1, "attempted", 0), acc(1, "success", 1), acc(2, "attempted", 2), acc(2, "failed", 3)>>, {}),
    Case(<<acc(1, "attempted", 0), acc(1, "success", 1),
           refusal(2, 3, "host-rejected"), acc(3, "attempted", 4)>>, {}),
    Case(<<acc(1, "attempted", 0), acc(2, "attempted", 2)>>, {Run(1, 1)}),
    Case(<<refusal(1, 2, "host-unavailable")>>, {Run(1, 1)}),
    Case(<<acc(1, "attempted", 0), accIn(SESSION_XYZ, 2, "attempted", 0, NoReason),
           acc(1, "success", 1), accIn(SESSION_XYZ, 2, "success", 1, NoReason)>>, {}),
    Case(<<acc(1, "attempted", 0), refusal(1, 2, "hash-mismatch")>>, {Run(1, 1)}),
    Case(<<acc(1, "attempted", 0), accIn(SESSION_XYZ, 1, "aborted", 1, "host-rejected")>>, {}),
    Case(<<acc(1, "attempted", 0), acc(3, "attempted", 2), refusal(2, 3, "host-rejected"),
           acc(1, "success", 4), acc(3, "success", 5)>>, {}),
    Case(<<acc(1, "attempted", 0), refusal(2, 5, "host-rejected")>>, {Run(2, 4)}),
    Case(<<acc(2, "attempted", 0), refusal(1, 2, "host-rejected"), acc(1, "attempted", 3)>>, {}),
    Case(<<acc(1, "attempted", 0), acc(2, "attempted", TopOfDomain)>>, {Run(1, TopOfDomain - 1)}) }

OnSide(event, side) == [event EXCEPT !.session_id = <<@[1], side>>]

-----------------------------------------------------------------------------
(***************************************************************************)
(* The verifier cases.                                                     *)
(***************************************************************************)

l1(id, outcome) ==
    [id |-> id, session_id |-> <<SESSION_ABC, 1>>, outcome |-> outcome, reason |-> NoReason,
     body |-> "action", key_id |-> NoKey, signer_seq |-> 0, signed_by |-> Forged,
     version |-> CurrentVersion]

IDENTITY == [logId |-> VERIFIER_LOG_ID, hostKeyIds |-> {HOST_KEY_ID}]

Verify(events, countersign, required, identity, kinds) ==
    [events |-> events, countersign |-> countersign, required |-> required,
     identity |-> identity, expect_kinds |-> kinds]

\* A kind is expected as often as it is listed: once for each record here.
Finding(n, kind) == [record |-> n, kind |-> kind]

Pair == <<l1(30, "attempted"), l1(30, "success")>>

VERIFIER_CASES == {
    Verify(Pair, <<"host", "host">>, TRUE, {IDENTITY}, {}),
    Verify(Pair, <<"host", "none">>, TRUE, {}, {Finding(2, "host-signature-invalid")}),
    Verify(Pair, <<"host", "none">>, FALSE, {}, {}),
    Verify(Pair, <<"other-host", "other-host">>, FALSE, {IDENTITY},
           {Finding(1, "principal-mismatch"), Finding(2, "principal-mismatch")}),
    Verify(Pair, <<"none", "none">>, FALSE, {IDENTITY},
           {Finding(1, "principal-mismatch"), Finding(2, "principal-mismatch")}),
    Verify(<<l1(31, "success"), l1(31, "attempted")>>, <<"host", "host">>, FALSE, {},
           {Finding(1, "orphaned-outcome")}),
    Verify(<<l1(32, "attempted"), [l1(33, "attempted") EXCEPT !.version = 0]>>,
           <<"host", "host">>, FALSE, {}, {Finding(2, "schema-invalid")}),
    Verify(<<[l1(34, "attempted") EXCEPT !.body = OutOfDomain]>>, <<"other-host">>, FALSE, {IDENTITY},
           {Finding(1, "principal-mismatch"), Finding(1, "schema-invalid")}) }

hostRegistry ==
    [k \in {HOST_KEY_ID, OTHER_HOST_KEY_ID} |->
       [publicKey |-> IF k = HOST_KEY_ID THEN HostKey ELSE OtherHostKey, revoked |-> FALSE]]

-----------------------------------------------------------------------------
VARIABLES
    chain,        \* the records sealed so far
    rest,         \* the events still to be sealed, of each side
    expected,     \* the case, or the two cases
    inputs        \* what the verifier is given

chainVars == <<chain, rest, expected, inputs>>

\* An event sealed behind the others, countersigned by the host named or by none.
\* What cannot be hashed is stored with the zero hash.
sealedAs(event, host) ==
    LET r        == sealedRecord(chain, event, Len(chain) + 1, FALSE)
        plain    == [event |-> event, seq |-> r.seq, host_ts |-> r.host_ts,
                     previous_hash |-> r.previous_hash,
                     record_hash |-> IF event.body = OutOfDomain THEN GENESIS_HASH ELSE r.record_hash,
                     host_signature |-> Nothing, host_key_id |-> Nothing, log_id |-> Nothing]
        labelled == [plain EXCEPT
                       !.host_key_id = IF host = "host" THEN HOST_KEY_ID ELSE OTHER_HOST_KEY_ID,
                       !.log_id = VERIFIER_LOG_ID]
    IN IF host = "none" THEN plain
       ELSE [labelled EXCEPT !.host_signature =
               [payload |-> payloadOf(labelled),
                by      |-> hostRegistry[labelled.host_key_id].publicKey]]

\* Of two accounting cases in the same sessions nothing is pinned.
CasesInit ==
    /\ chain = << >>
    /\ \/ \E one, other \in ACCOUNTING_CASES, side \in {1, 2} :
             /\ expected = IF side = 2 THEN <<one, other>> ELSE << >>
             /\ rest = <<one.records, [n \in DOMAIN other.records |-> OnSide(other.records[n], side)]>>
             /\ inputs = [anchored |-> {}, keyRegistry |-> {toolRegistry}, hostKeyRegistry |-> {},
                          expectedIdentity |-> {}, countersignatureRequired |-> FALSE]
       \/ \E case \in VERIFIER_CASES :
             /\ expected = <<case>>
             /\ rest = <<case.events>>
             /\ inputs \in {given \in InputsOf({}, {toolRegistry}, {hostRegistry}, case.identity) :
                              /\ given.expectedIdentity = case.identity
                              /\ given.countersignatureRequired = case.required}

countersignerOf(n) ==
    IF Len(expected) = 1 THEN expected[1].countersign[n] ELSE "none"

\* The generator seals the next event of a case.
sealNext(side) ==
    /\ rest[side] # << >>
    /\ chain' = Append(chain, sealedAs(Head(rest[side]), countersignerOf(Len(chain) + 1)))
    /\ rest' = [rest EXCEPT ![side] = Tail(@)]
    /\ UNCHANGED <<expected, inputs>>

CasesNext == \E side \in DOMAIN rest : sealNext(side)

CasesSpec == CasesInit /\ [][CasesNext]_chainVars
-----------------------------------------------------------------------------

AllSealed == \A side \in DOMAIN rest : rest[side] = << >>

KindsFound == {[record |-> issue.record, kind |-> issue.kind] : issue \in issuesOf(chain, inputs)}

\* Each verifier case is reported with the kinds it pins, for the records it pins
\* them for, whichever registries the verifier was given besides; and what it
\* could not check for want of one it says, unless nothing asked for it.  Two
\* accounting cases that share a ledger and a key are accounted for as if each
\* were alone: exactly the runs they pin, each in its own session, however their
\* records interleave.
CasesAsPinned ==
    AllSealed =>
      /\ Len(expected) = 1 =>
           /\ KindsFound = expected[1].expect_kinds
           /\ unchecked(chain, inputs) =
                IF inputs.hostKeyRegistry = {} /\ countersigned(chain) # {}
                THEN {"countersignature"} ELSE {}
      /\ Len(expected) = 2 =>
           \A side \in {1, 2} :
              {u.run : u \in {v \in unaccountedSignerSeq(chain) : v.session_id[2] = side}} =
                expected[side].unaccounted

\* Section 11.4 as a definition instead of a procedure: as many missing values are
\* accounted for as refusals of unsealed attempts can be given a missing value
\* below their own each, all different; those are the smallest ones; and the rest
\* is reported in maximal runs.  The procedure works on runs, in one pass.
AccountingIsExact ==
    \A key \in KeyIds, s \in Sessions :
       LET Of(n)    == chain[n].event.key_id = key /\ chain[n].event.session_id = s
           value(n) == chain[n].event.signer_seq
           numbers == {value(n) : n \in {m \in DOMAIN chain : Of(m)}}
           missing  == {v \in 0..TopOfDomain : v \notin numbers /\ \E w \in numbers : v < w}
           refusing == {n \in DOMAIN chain :
                          /\ Of(n)
                          /\ chain[n].event.outcome = "aborted"
                          /\ chain[n].event.reason \in {"host-rejected", "host-unavailable"}
                          /\ \A m \in 1..(n - 1) :
                                IsAttempt(chain[m].event)
                                  => ~SameOperation(chain[m].event, chain[n].event)}
           served(R) == \E f \in Injection(R, missing) : \A n \in R : f[n] < value(n)
           runs     == {u.run : u \in {v \in unaccountedSignerSeq(chain) :
                                         v.key_id = key /\ v.session_id = s}}
           reported == UNION {r.first..r.last : r \in runs}
           settled  == missing \ reported
       IN
       /\ reported \subseteq missing
       /\ \A v \in settled, w \in reported : v < w
       /\ \E R \in SUBSET refusing : served(R) /\ Cardinality(R) = Cardinality(settled)
       /\ \A R \in SUBSET refusing : served(R) => Cardinality(R) <= Cardinality(settled)
       /\ \A r \in runs : r.first <= r.last /\ r.last + 1 \notin reported
=============================================================================
