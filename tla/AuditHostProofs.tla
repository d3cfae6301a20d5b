--------------------------- MODULE AuditHostProofs --------------------------
(***************************************************************************)
(* Theorems about AuditHost, for every set of sessions, ids, keys and      *)
(* events, either level, countersigned or not.                             *)
(***************************************************************************)
EXTENDS AuditHost, TLAPS

-----------------------------------------------------------------------------
(***************************************************************************)
(* What the pieces of a handler preserve.                                  *)
(***************************************************************************)

\* The fields of an event that may arrive.
LEMMA EventFields ==
    ASSUME NEW e \in Events
    PROVE  /\ e.id \in Ids /\ e.session_id \in Sessions
           /\ e.outcome \in Outcomes /\ e.signer_seq \in Nat
           /\ e.key_id \in KeyIds \cup {NoKey}
BY EventsAssumption DEF AuditEvents

\* At Level 2 an event that verifies names a key of the registry.
LEMMA VerifiedKey ==
    ASSUME NEW e \in Events, Level = "L2", SignatureVerifies(e)
    PROVE  e.key_id \in KeyIds
BY EventFields DEF SignatureVerifies, Unsigned

\* Receiving an event of an open session keeps the window's type, and touches no
\* other session.
LEMMA MarkReceivedKeeps ==
    ASSUME NEW e \in Events, WindowOK, HistoryOK, SignatureVerifies(e), markReceived(e)
    PROVE  /\ received' \in [Sessions -> [KeyIds -> Nat \cup {NoneReceived}]]
           /\ \A s \in Sessions : s # e.session_id => received'[s] = received[s]
           /\ verified' \subseteq Events /\ verified \subseteq verified' /\ e \in verified'
<1>1. e.session_id \in Sessions /\ e.signer_seq \in Nat
  BY EventFields
<1>2. Level = "L2" => e.key_id \in KeyIds
  BY VerifiedKey
<1> QED
  BY <1>1, <1>2 DEF markReceived, WindowOK, HistoryOK

\* So does deciding it; a decided value stays decided.
LEMMA DecideKeeps ==
    ASSUME NEW e \in Events, WindowOK, SignatureVerifies(e), decide(e)
    PROVE  /\ decided' \in [Sessions -> [KeyIds -> SUBSET Nat]]
           /\ \A s \in Sessions : s # e.session_id => decided'[s] = decided[s]
           /\ \A s \in Sessions, k \in KeyIds : decided[s][k] \subseteq decided'[s][k]
           /\ Level = "L2" => e.signer_seq \in decided'[e.session_id][e.key_id]
<1>1. e.session_id \in Sessions /\ e.signer_seq \in Nat
  BY EventFields
<1>2. Level = "L2" => e.key_id \in KeyIds
  BY VerifiedKey
<1> QED
  BY <1>1, <1>2 DEF decide, WindowOK

\* The hash a record commits to.
LEMMA DigestIsHash ==
    ASSUME NEW records \in Seq(SealedRecords(Events))
    PROVE  digest(records) \in Hashes(Events)
<1>1. CASE records = << >>
  BY <1>1 DEF digest, GENESIS_HASH, Hashes
<1>2. CASE records # << >>
  <2>1. records[Len(records)] \in SealedRecords(Events)
    BY <1>2
  <2> QED
    BY <1>2, <2>1 DEF digest, SealedRecords
<1> QED
  BY <1>1, <1>2

\* What Ledger.append builds is a sealed record of that event, at the next
\* position, linked to the last one.
LEMMA SealedRecordOf ==
    ASSUME NEW records \in Seq(SealedRecords(Events)), NEW e \in Events,
           NEW ts \in Nat, NEW c \in BOOLEAN
    PROVE  LET r == sealedRecord(records, e, ts, c) IN
           /\ r \in SealedRecords(Events)
           /\ r.event = e /\ r.seq = Len(records) /\ r.host_ts = ts
           /\ r.previous_hash = digest(records)
           /\ r.record_hash = computeRecordHash(e, Len(records), ts, digest(records))
<1> DEFINE h == computeRecordHash(e, Len(records), ts, digest(records))
           p == countersignaturePayload(Len(records), ts, digest(records), h)
<1>1. digest(records) \in Hashes(Events) /\ Len(records) \in Nat
  BY DigestIsHash
<1>2. h \in Hashes(Events)
  BY <1>1 DEF computeRecordHash, Link, Hashes
<1>3. p \in [seq : Nat, host_ts : Nat,
             previous_hash : Hashes(Events), record_hash : Hashes(Events)]
  BY <1>1, <1>2 DEF countersignaturePayload
<1> HIDE DEF h, p
<1>4. sealedRecord(records, e, ts, c) =
        [event |-> e, seq |-> Len(records), host_ts |-> ts,
         previous_hash |-> digest(records), record_hash |-> h,
         host_signature |-> IF c THEN {p} ELSE {}]
  BY DEF sealedRecord, h, p
<1>5. (IF c THEN {p} ELSE {}) \in
        SUBSET [seq : Nat, host_ts : Nat,
                previous_hash : Hashes(Events), record_hash : Hashes(Events)]
  BY <1>3
<1> QED
  BY <1>1, <1>2, <1>4, <1>5 DEF SealedRecords, h

\* Sealing appends one record, of that event, and ticks the clock.
LEMMA SealKeeps ==
    ASSUME NEW e \in Events, SealedOK, seal(e)
    PROVE  /\ ledger' \in Seq(SealedRecords(Events)) /\ hostClock' \in 0..MaxHostClock
           /\ Len(ledger') = Len(ledger) + 1
           /\ ledger'[Len(ledger')] \in SealedRecords(Events)
           /\ ledger'[Len(ledger')] = sealedRecord(ledger, e, hostClock + 1, Countersigns)
           /\ \A i \in 1..Len(ledger) : ledger'[i] = ledger[i]
<1>1. hostClock \in Nat /\ MaxHostClock \in Nat /\ Countersigns \in BOOLEAN
  BY HostAssumption DEF SealedOK
<1>2. hostClock' = hostClock + 1 /\ hostClock' \in 0..MaxHostClock
  BY <1>1 DEF seal
<1> DEFINE r == sealedRecord(ledger, e, hostClock + 1, Countersigns)
<1>3. r \in SealedRecords(Events)
  BY <1>1, SealedRecordOf DEF SealedOK
<1> HIDE DEF r
<1>4. ledger' = Append(ledger, r)
  BY <1>2 DEF seal, r
<1> QED
  BY <1>2, <1>3, <1>4 DEF SealedOK, r

\* The anomalies a handler appends.
LEMMA AnomaliesTyped ==
    ASSUME NEW e \in Events, NEW attempt \in BOOLEAN
    PROVE  /\ gapFlag(e) \subseteq AnomalyEntries
           /\ LET fault == AdmissionFault(e, attempt) IN
                 Anomaly(e.id, fault.reason, fault.detail) \in AnomalyEntries
           /\ Anomaly(e.id, "signature-invalid", SignatureFault(e)) \in AnomalyEntries
           /\ \A detail \in Details :
                 /\ Anomaly(e.id, "replay-detected", detail) \in AnomalyEntries
                 /\ Anomaly(e.id, "orphaned-outcome", detail) \in AnomalyEntries
           /\ ReplayDetail(e) \in Details
<1>1. \A kind \in AnomalyKinds, detail \in Details :
        Anomaly(e.id, kind, detail) \in AnomalyEntries
  BY EventFields DEF Anomaly, AnomalyEntries
<1>2. gapFlag(e) \subseteq AnomalyEntries
  BY <1>1 DEF gapFlag, AnomalyKinds, Details
<1>3. AdmissionFault(e, attempt) \in [reason : {"schema-invalid", "replay-detected"},
                                      detail : {"channel", "session"}]
  BY DEF AdmissionFault
<1>4. AdmissionFault(e, attempt).reason \in AnomalyKinds
      /\ AdmissionFault(e, attempt).detail \in Details
  BY <1>3 DEF AnomalyKinds, Details
<1>5. SignatureFault(e) \in Details
  BY DEF SignatureFault, Details
<1>6. "signature-invalid" \in AnomalyKinds /\ "replay-detected" \in AnomalyKinds
      /\ "orphaned-outcome" \in AnomalyKinds
  BY DEF AnomalyKinds
<1>7. ReplayDetail(e) \in Details
  BY DEF ReplayDetail, Details
<1> QED
  BY <1>1, <1>2, <1>4, <1>5, <1>6, <1>7

\* An accept answers an event: a message that is none is rejected.
LEMMA AcceptsAnswerEvents ==
    ASSUME NEW a \in Answers, a.response.status = "accept"
    PROVE  a.event \in Events
BY DEF Answers, Reject

\* The answers a handler returns.
LEMMA AnswersTyped ==
    ASSUME NEW e \in Events
    PROVE  /\ \A response \in Responses : Reply(e, response) \subseteq Answers
           /\ Reply(e, Unavailable) \subseteq Answers
           /\ Reply(e, Reject(AdmissionFault(e, TRUE).reason)) \subseteq Answers
           /\ Reply(e, Reject(SignatureFault(e))) \subseteq Answers
           /\ Reply(e, Reject("replay-detected")) \subseteq Answers
           /\ \A record \in SealedRecords(Events) : Accept(record) \in Responses
<1>1. \A response \in Responses : Reply(e, response) \subseteq Answers
  BY DEF Reply, Answers
<1>2. Unavailable \in Responses
  BY DEF Unavailable, Responses
<1>3. \A reason \in RejectReasons : Reject(reason) \in Responses
  BY DEF Reject, Responses
<1>4. AdmissionFault(e, TRUE).reason \in {"schema-invalid", "replay-detected"}
  BY DEF AdmissionFault
<1>5. SignatureFault(e) \in {"l2-unsigned", "unknown-key", "signature-invalid"}
  BY DEF SignatureFault
<1>6. ASSUME NEW record \in SealedRecords(Events)
      PROVE  Accept(record) \in Responses
  BY DEF Accept, Responses, SealedRecords
<1> QED
  BY <1>1, <1>2, <1>3, <1>4, <1>5, <1>6 DEF RejectReasons

-----------------------------------------------------------------------------
(***************************************************************************)
(* Type correctness.                                                       *)
(***************************************************************************)

\* An attempt leaves every variable in its type, whichever way the handler ends.
LEMMA AttemptKeepsType ==
    ASSUME TypeOK, NEW e \in Events, NEW arrivedOn, handleAttempt(e, arrivedOn)
    PROVE  TypeOK'
<1> USE DEF TypeOK
<1>1. /\ e.id \in Ids /\ e.session_id \in Sessions
      /\ Admitted(e, TRUE, arrivedOn) => e.session_id \in sessions
  BY EventFields DEF Admitted, NotInFlight
<1>2. CASE rejectInadmissible(e, arrivedOn)
  <2>1. OutputOK'
    BY <1>2, AnomaliesTyped, AnswersTyped DEF rejectInadmissible, OutputOK
  <2> QED
    BY <1>2, <2>1 DEF rejectInadmissible, sessionVars, windowVars, bookVars, sealVars, envVars,
       historyVars, SessionsOK, WindowOK, BooksOK, SealedOK, EnvOK, HistoryOK, EndedIsForgotten
<1>3. CASE Admitted(e, TRUE, arrivedOn) /\ rejectUnverified(e)
  <2>1. OutputOK'
    BY <1>3, AnomaliesTyped, AnswersTyped DEF rejectUnverified, OutputOK
  <2>2. BooksOK' /\ EndedIsForgotten'
    BY <1>1, <1>3 DEF rejectUnverified, sessionVars, windowVars, BooksOK, EndedIsForgotten
  <2> QED
    BY <1>3, <2>1, <2>2 DEF rejectUnverified, sessionVars, windowVars, sealVars, envVars,
       historyVars, SessionsOK, WindowOK, SealedOK, EnvOK, HistoryOK
<1>4. CASE Admitted(e, TRUE, arrivedOn) /\ SignatureVerifies(e) /\ answerFromLedger(e)
  <2>1. sealedAttempts[e.id].response \in Responses
    BY <1>1, <1>4 DEF SealedOK, SealedAttempts, answerFromLedger, AttemptSealed
  <2>2. OutputOK'
    BY <1>4, <2>1, AnomaliesTyped, AnswersTyped DEF answerFromLedger, OutputOK
  <2>3. WindowOK' /\ HistoryOK' /\ EndedIsForgotten'
    BY <1>1, <1>4, MarkReceivedKeeps
       DEF answerFromLedger, sessionVars, bookVars, WindowOK, HistoryOK, EndedIsForgotten
  <2> QED
    BY <1>4, <2>2, <2>3 DEF answerFromLedger, sessionVars, bookVars, sealVars, envVars,
       SessionsOK, BooksOK, SealedOK, EnvOK
<1>5. CASE Admitted(e, TRUE, arrivedOn) /\ SignatureVerifies(e) /\ rejectReplay(e)
  <2>1. OutputOK'
    BY <1>5, AnomaliesTyped, AnswersTyped DEF rejectReplay, OutputOK
  <2>2. WindowOK' /\ HistoryOK'
    BY <1>5, MarkReceivedKeeps, DecideKeeps DEF rejectReplay, WindowOK, HistoryOK
  <2>3. BooksOK'
    BY <1>1, <1>5 DEF rejectReplay, BooksOK
  <2>4. /\ \A s \in Sessions : s # e.session_id =>
              received'[s] = received[s] /\ decided'[s] = decided[s]
        /\ UNCHANGED <<sessions, accepted, outcomes>>
    BY <1>5, MarkReceivedKeeps, DecideKeeps DEF rejectReplay, sessionVars
  <2>5. EndedIsForgotten'
    BY <1>1, <1>5, <2>4 DEF rejectReplay, BooksOK, EndedIsForgotten
  <2> QED
    BY <1>5, <2>1, <2>2, <2>3, <2>5 DEF rejectReplay, sessionVars, sealVars, envVars,
       SessionsOK, SealedOK, EnvOK
<1>6. CASE Admitted(e, TRUE, arrivedOn) /\ SignatureVerifies(e) /\ answerUnavailable(e)
  <2>1. OutputOK'
    BY <1>6, AnomaliesTyped, AnswersTyped DEF answerUnavailable, OutputOK
  <2>2. WindowOK' /\ HistoryOK' /\ EndedIsForgotten'
    BY <1>1, <1>6, MarkReceivedKeeps
       DEF answerUnavailable, sessionVars, bookVars, WindowOK, HistoryOK, EndedIsForgotten
  <2> QED
    BY <1>6, <2>1, <2>2 DEF answerUnavailable, sessionVars, bookVars, sealVars, envVars,
       SessionsOK, BooksOK, SealedOK, EnvOK
<1>7. CASE Admitted(e, TRUE, arrivedOn) /\ SignatureVerifies(e) /\ acceptAttempt(e)
  <2>1. /\ ledger' \in Seq(SealedRecords(Events)) /\ hostClock' \in 0..MaxHostClock
        /\ ledger'[Len(ledger')] \in SealedRecords(Events)
    BY <1>7, SealKeeps DEF acceptAttempt
  <2>2. Accept(ledger'[Len(ledger')]) \in Responses
    BY <2>1, AnswersTyped
  <2>3. OutputOK'
    BY <1>7, <2>2, AnomaliesTyped, AnswersTyped DEF acceptAttempt, OutputOK
  <2>4. WindowOK' /\ HistoryOK'
    BY <1>7, MarkReceivedKeeps, DecideKeeps DEF acceptAttempt, WindowOK, HistoryOK
  <2>5. BooksOK'
    BY <1>1, <1>7 DEF acceptAttempt, BooksOK
  <2>6. SealedOK'
    BY <1>1, <1>7, <2>1, <2>2 DEF acceptAttempt, SealedOK, SealedAttempts
  <2>7. /\ \A s \in Sessions : s # e.session_id =>
              received'[s] = received[s] /\ decided'[s] = decided[s]
        /\ UNCHANGED <<sessions, rejected, outcomes>>
    BY <1>7, MarkReceivedKeeps, DecideKeeps DEF acceptAttempt, sessionVars
  <2>8. EndedIsForgotten'
    BY <1>1, <1>7, <2>7 DEF acceptAttempt, BooksOK, EndedIsForgotten
  <2> QED
    BY <1>7, <2>3, <2>4, <2>5, <2>6, <2>8 DEF acceptAttempt, sessionVars, envVars, SessionsOK, EnvOK
<1>8. CASE Admitted(e, TRUE, arrivedOn) /\ SignatureVerifies(e) /\ attemptSealThrows(e)
  <2>1. OutputOK'
    BY <1>8, AnomaliesTyped DEF attemptSealThrows, OutputOK, NoReply
  <2>2. WindowOK' /\ HistoryOK' /\ EndedIsForgotten'
    BY <1>1, <1>8, MarkReceivedKeeps
       DEF attemptSealThrows, sessionVars, bookVars, WindowOK, HistoryOK, EndedIsForgotten
  <2>3. SealedOK'
    BY <1>8, HostAssumption DEF attemptSealThrows, signerThrows, SealedOK
  <2> QED
    BY <1>8, <2>1, <2>2, <2>3 DEF attemptSealThrows, sessionVars, bookVars, envVars,
       SessionsOK, BooksOK, EnvOK
<1> QED
  BY <1>2, <1>3, <1>4, <1>5, <1>6, <1>7, <1>8 DEF handleAttempt

\* So does an outcome.
LEMMA OutcomeKeepsType ==
    ASSUME TypeOK, NEW e \in Events, NEW arrivedOn, handleOutcome(e, arrivedOn)
    PROVE  TypeOK'
<1> USE DEF TypeOK
<1>1. /\ e.id \in Ids /\ e.session_id \in Sessions
      /\ Admitted(e, FALSE, arrivedOn) => e.session_id \in sessions
  BY EventFields DEF Admitted, NotInFlight
<1>2. UNCHANGED <<issued, sessions, unavailable, registry>> /\ answer' = {}
  BY DEF handleOutcome, sessionVars, envVars, NoReply
<1>3. SessionsOK' /\ EnvOK'
  BY <1>2 DEF SessionsOK, EnvOK
<1>4. CASE dropInadmissible(e, arrivedOn)
  <2>1. OutputOK'
    BY <1>2, <1>4, AnomaliesTyped DEF dropInadmissible, OutputOK
  <2> QED
    BY <1>2, <1>3, <1>4, <2>1 DEF dropInadmissible, windowVars, bookVars, sealVars, historyVars,
       WindowOK, BooksOK, SealedOK, HistoryOK, EndedIsForgotten
<1>5. CASE dropUnverified(e)
  <2>1. OutputOK'
    BY <1>2, <1>5, AnomaliesTyped DEF dropUnverified, OutputOK
  <2> QED
    BY <1>2, <1>3, <1>5, <2>1 DEF dropUnverified, windowVars, bookVars, sealVars, historyVars,
       WindowOK, BooksOK, SealedOK, HistoryOK, EndedIsForgotten
<1>6. CASE Admitted(e, FALSE, arrivedOn) /\ SignatureVerifies(e) /\ ignoreRepeat(e)
  <2>1. OutputOK'
    BY <1>2, <1>6, AnomaliesTyped DEF ignoreRepeat, OutputOK
  <2>2. WindowOK' /\ HistoryOK' /\ EndedIsForgotten'
    BY <1>1, <1>2, <1>6, MarkReceivedKeeps
       DEF ignoreRepeat, bookVars, WindowOK, HistoryOK, EndedIsForgotten
  <2> QED
    BY <1>3, <1>6, <2>1, <2>2 DEF ignoreRepeat, bookVars, sealVars, BooksOK, SealedOK
<1>7. CASE Admitted(e, FALSE, arrivedOn) /\ SignatureVerifies(e) /\ dropReplay(e)
  <2>1. OutputOK'
    BY <1>2, <1>7, AnomaliesTyped DEF dropReplay, OutputOK, Details
  <2>2. WindowOK' /\ HistoryOK'
    BY <1>7, MarkReceivedKeeps, DecideKeeps DEF dropReplay, WindowOK, HistoryOK
  <2>3. /\ \A s \in Sessions : s # e.session_id =>
              received'[s] = received[s] /\ decided'[s] = decided[s]
        /\ UNCHANGED <<accepted, rejected, outcomes>>
    BY <1>7, MarkReceivedKeeps, DecideKeeps DEF dropReplay, bookVars
  <2>4. EndedIsForgotten'
    BY <1>1, <1>2, <1>7, <2>3 DEF EndedIsForgotten
  <2> QED
    BY <1>3, <1>7, <2>1, <2>2, <2>4 DEF dropReplay, bookVars, sealVars, BooksOK, SealedOK
<1>8. CASE Admitted(e, FALSE, arrivedOn) /\ SignatureVerifies(e) /\ dropOrphan(e)
  <2>1. OutputOK'
    BY <1>2, <1>8, AnomaliesTyped DEF dropOrphan, OutputOK, Details
  <2>2. WindowOK' /\ HistoryOK'
    BY <1>8, MarkReceivedKeeps, DecideKeeps DEF dropOrphan, WindowOK, HistoryOK
  <2>3. /\ \A s \in Sessions : s # e.session_id =>
              received'[s] = received[s] /\ decided'[s] = decided[s]
        /\ UNCHANGED <<accepted, rejected, outcomes>>
    BY <1>8, MarkReceivedKeeps, DecideKeeps DEF dropOrphan, bookVars
  <2>4. EndedIsForgotten'
    BY <1>1, <1>2, <1>8, <2>3 DEF EndedIsForgotten
  <2> QED
    BY <1>3, <1>8, <2>1, <2>2, <2>4 DEF dropOrphan, bookVars, sealVars, BooksOK, SealedOK
<1>9. CASE Admitted(e, FALSE, arrivedOn) /\ SignatureVerifies(e) /\ dropUnavailable(e)
  <2>1. OutputOK'
    BY <1>2, <1>9, AnomaliesTyped DEF dropUnavailable, OutputOK
  <2>2. WindowOK' /\ HistoryOK' /\ EndedIsForgotten'
    BY <1>1, <1>2, <1>9, MarkReceivedKeeps
       DEF dropUnavailable, bookVars, WindowOK, HistoryOK, EndedIsForgotten
  <2> QED
    BY <1>3, <1>9, <2>1, <2>2 DEF dropUnavailable, bookVars, sealVars, BooksOK, SealedOK
<1>10. CASE Admitted(e, FALSE, arrivedOn) /\ SignatureVerifies(e) /\ sealOutcome(e)
  <2>1. OutputOK'
    BY <1>2, <1>10, AnomaliesTyped DEF sealOutcome, OutputOK
  <2>2. WindowOK' /\ HistoryOK'
    BY <1>10, MarkReceivedKeeps, DecideKeeps DEF sealOutcome, WindowOK, HistoryOK
  <2>3. BooksOK'
    BY <1>1, <1>10 DEF sealOutcome, BooksOK
  <2>4. SealedOK'
    BY <1>10, SealKeeps DEF sealOutcome, SealedOK
  <2>5. /\ \A s \in Sessions : s # e.session_id =>
              received'[s] = received[s] /\ decided'[s] = decided[s]
        /\ UNCHANGED <<accepted, rejected>>
    BY <1>10, MarkReceivedKeeps, DecideKeeps DEF sealOutcome
  <2>6. EndedIsForgotten'
    BY <1>1, <1>2, <1>10, <2>5 DEF sealOutcome, BooksOK, EndedIsForgotten
  <2> QED
    BY <1>3, <2>1, <2>2, <2>3, <2>4, <2>6
<1>11. CASE Admitted(e, FALSE, arrivedOn) /\ SignatureVerifies(e) /\ outcomeSealThrows(e)
  <2>1. OutputOK'
    BY <1>2, <1>11, AnomaliesTyped DEF outcomeSealThrows, OutputOK
  <2>2. WindowOK' /\ HistoryOK' /\ EndedIsForgotten'
    BY <1>1, <1>2, <1>11, MarkReceivedKeeps
       DEF outcomeSealThrows, bookVars, WindowOK, HistoryOK, EndedIsForgotten
  <2>3. SealedOK'
    BY <1>11, HostAssumption DEF outcomeSealThrows, signerThrows, SealedOK
  <2> QED
    BY <1>3, <1>11, <2>1, <2>2, <2>3 DEF outcomeSealThrows, bookVars, BooksOK
<1> QED
  BY <1>4, <1>5, <1>6, <1>7, <1>8, <1>9, <1>10, <1>11 DEF handleOutcome

\* And the session, registry and durability operations.
LEMMA CloseKeepsType ==
    ASSUME TypeOK, NEW s \in Sessions, closeSession(s)
    PROVE  TypeOK'
<1> USE DEF TypeOK, closeSession
<1>1. \A i \in Unresolved(s) :
         Anomaly(i, "unresolved-attempt", "unresolved") \in AnomalyEntries
  BY DEF Unresolved, BooksOK, Anomaly, AnomalyEntries, AnomalyKinds, Details
<1>2. OutputOK'
  BY <1>1 DEF OutputOK, NoReply
<1>3. WindowOK' /\ BooksOK'
  BY DEF forgetSession, WindowOK, BooksOK, NoneReceived
<1>4. EndedIsForgotten'
  BY DEF forgetSession, WindowOK, BooksOK, EndedIsForgotten
<1>5. HistoryOK' /\ SessionsOK'
  BY DEF forgetSession, HistoryOK, SessionsOK
<1> QED
  BY <1>2, <1>3, <1>4, <1>5 DEF sealVars, envVars, SealedOK, EnvOK

\* What is not a handler of the host leaves the types.
LEMMA EnvironmentKeepsType ==
    ASSUME TypeOK,
           \/ \E s \in Sessions : openSession(s)
           \/ setUnavailable
           \/ \E k \in KeyIds : revokeKey(k) \/ \E p \in PublicKeys : registerKey(k, p)
           \/ \E id \in Ids, attempt \in BOOLEAN : handleMalformed(id, attempt)
    PROVE  TypeOK'
<1> USE DEF TypeOK, NoReply, sessionVars, windowVars, bookVars, sealVars, envVars, historyVars
<1>1. CASE \E s \in Sessions : openSession(s)
  BY <1>1 DEF openSession, SessionsOK, WindowOK, BooksOK, SealedOK, EnvOK, OutputOK, HistoryOK,
     EndedIsForgotten
<1>2. CASE setUnavailable
  BY <1>2 DEF setUnavailable, SessionsOK, WindowOK, BooksOK, SealedOK, EnvOK, OutputOK,
     HistoryOK, EndedIsForgotten
<1>3. ASSUME NEW k \in KeyIds, revokeKey(k)
      PROVE  TypeOK'
  <2>1. registry' \in KeyRegistryType
    BY <1>3 DEF revokeKey, revoke, isRegistered, EnvOK, KeyRegistryType, RegisteredKey
  <2> QED
    BY <1>3, <2>1 DEF revokeKey, SessionsOK, WindowOK, BooksOK, SealedOK, EnvOK, OutputOK,
       HistoryOK, EndedIsForgotten
<1>4. ASSUME NEW k \in KeyIds, NEW p \in PublicKeys, registerKey(k, p)
      PROVE  TypeOK'
  <2>1. registry' \in KeyRegistryType
    BY <1>4 DEF registerKey, register, EnvOK, KeyRegistryType, RegisteredKey
  <2> QED
    BY <1>4, <2>1 DEF registerKey, SessionsOK, WindowOK, BooksOK, SealedOK, EnvOK, OutputOK,
       HistoryOK, EndedIsForgotten
<1>5. ASSUME NEW id \in Ids, NEW attempt \in BOOLEAN, handleMalformed(id, attempt)
      PROVE  TypeOK'
  <2>1. Anomaly(id, "schema-invalid", "structure") \in AnomalyEntries
    BY DEF Anomaly, AnomalyEntries, AnomalyKinds, Details
  <2>2. answer' \subseteq Answers
    BY <1>5 DEF handleMalformed, Reply, Answers
  <2> QED
    BY <1>5, <2>1, <2>2 DEF handleMalformed, SessionsOK, WindowOK, BooksOK, SealedOK, EnvOK, OutputOK,
       HistoryOK, EndedIsForgotten
<1> QED
  BY <1>1, <1>2, <1>3, <1>4, <1>5

\* No step leaves the types.
LEMMA TypeStep ==
    ASSUME TypeOK, [Next]_vars
    PROVE  TypeOK'
<1>1. CASE UNCHANGED vars
  BY <1>1 DEF vars, TypeOK, SessionsOK, WindowOK, BooksOK, SealedOK, EnvOK, OutputOK,
     HistoryOK, EndedIsForgotten
<1>2. CASE Next
  BY <1>2, AttemptKeepsType, OutcomeKeepsType, CloseKeepsType, EnvironmentKeepsType DEF Next
<1> QED
  BY <1>1, <1>2

\* The host starts with every variable in its type.
LEMMA TypeInit == Init => TypeOK
<1> SUFFICES ASSUME Init PROVE TypeOK
  OBVIOUS
<1>1. WindowOK /\ BooksOK /\ EndedIsForgotten
  BY DEF Init, InitWith, WindowOK, BooksOK, EndedIsForgotten
<1>2. SealedOK
  BY HostAssumption DEF Init, InitWith, SealedOK
<1>3. EnvOK
  BY DEF Init, InitWith, EnvOK, KeyRegistryType, emptyRegistry
<1> QED
  BY <1>1, <1>2, <1>3 DEF Init, InitWith, TypeOK, SessionsOK, OutputOK, HistoryOK, NoReply

\* Every variable keeps its type, and no session that is not open has an entry in
\* the window or the books.
THEOREM TypeCorrect == Spec => []TypeOK
<1>1. TypeOK /\ [Next]_vars => TypeOK'
  BY TypeStep
<1> QED
  BY <1>1, TypeInit, PTL DEF Spec

-----------------------------------------------------------------------------
(***************************************************************************)
(* What AuditHost seals, and in which order: the pairing of attempts with  *)
(* terminal records, the uniqueness of ids and of signer_seq values.       *)
(*                                                                         *)
(* Every step either seals one event of an open session or leaves the      *)
(* ledger and the entries of the open sessions alone (StepKind).  The      *)
(* invariant says that the books of the open sessions know every record of *)
(* theirs: a session that ended needs no books, since nothing of it is     *)
(* sealed again and its id is never issued again.                          *)
(***************************************************************************)

Seals(e) ==
    /\ e.session_id \in sessions /\ SignatureVerifies(e)
    /\ seal(e) /\ decide(e)
    /\ verified' = verified \cup {e}
    /\ UNCHANGED <<issued, sessions>>
    /\ \/ /\ IsAttempt(e) /\ FreshAttempt(e)
          /\ accepted' = [accepted EXCEPT ![e.session_id] = @ \cup {e.id}]
          /\ sealedAttempts' = [sealedAttempts EXCEPT ![e.id] =
                [canonical |-> e, response |-> Accept(ledger'[Len(ledger')])]]
          /\ UNCHANGED outcomes
       \/ /\ ~IsAttempt(e) /\ FreshOutcome(e) /\ ~Orphaned(e)
          /\ outcomes' = [outcomes EXCEPT ![e.session_id][e.id] = e]
          /\ UNCHANGED <<accepted, sealedAttempts>>

SealsNothing ==
    /\ UNCHANGED <<ledger, sealedAttempts>>
    /\ hostClock <= hostClock'
    /\ issued \subseteq issued'
    /\ \A s \in sessions' :
          /\ s \in sessions \/ s \notin issued
          /\ accepted'[s] = accepted[s] /\ outcomes'[s] = outcomes[s]
          /\ \A k \in KeyIds : decided[s][k] \subseteq decided'[s][k]
          /\ \A e \in verified : e.session_id = s => e \in verified'

\* An attempt seals its event or leaves the open sessions' books alone.
LEMMA AttemptKind ==
    ASSUME TypeOK, NEW e \in Events, NEW arrivedOn, handleAttempt(e, arrivedOn)
    PROVE  Seals(e) \/ SealsNothing
<1> USE DEF TypeOK
<1>0. hostClock \in Nat
  BY HostAssumption DEF SealedOK
<1>1. /\ hostClock \in Nat /\ e.session_id \in Sessions
      /\ Admitted(e, TRUE, arrivedOn) => e.session_id \in sessions /\ IsAttempt(e)
  BY <1>0, EventFields DEF Admitted, NotInFlight, WrongChannel, IsAttempt
<1>2. CASE rejectInadmissible(e, arrivedOn)
  BY <1>1, <1>2 DEF rejectInadmissible, SealsNothing, historyVars, sessionVars, windowVars, bookVars, sealVars
<1>3. CASE rejectUnverified(e)
  BY <1>1, <1>3 DEF rejectUnverified, SealsNothing, historyVars, sessionVars, windowVars, sealVars
<1>4. CASE answerFromLedger(e)
  BY <1>1, <1>4 DEF answerFromLedger, SealsNothing, markReceived, sessionVars, bookVars, sealVars
<1>5. CASE SignatureVerifies(e) /\ rejectReplay(e)
  <2>1. \A s \in Sessions, k \in KeyIds : decided[s][k] \subseteq decided'[s][k]
    BY <1>5, DecideKeeps DEF rejectReplay
  <2> QED
    BY <1>1, <1>5, <2>1 DEF rejectReplay, SealsNothing, markReceived, SessionsOK, sessionVars, sealVars
<1>6. CASE answerUnavailable(e)
  BY <1>1, <1>6 DEF answerUnavailable, SealsNothing, markReceived, sessionVars, bookVars, sealVars
<1>7. CASE Admitted(e, TRUE, arrivedOn) /\ SignatureVerifies(e) /\ acceptAttempt(e)
  BY <1>1, <1>7 DEF acceptAttempt, Seals, markReceived, sessionVars
<1>8. CASE attemptSealThrows(e)
  BY <1>1, <1>8 DEF attemptSealThrows, signerThrows, SealsNothing, markReceived, sessionVars,
     bookVars
<1> QED
  BY <1>2, <1>3, <1>4, <1>5, <1>6, <1>7, <1>8 DEF handleAttempt

\* So does an outcome.
LEMMA OutcomeKind ==
    ASSUME TypeOK, NEW e \in Events, NEW arrivedOn, handleOutcome(e, arrivedOn)
    PROVE  Seals(e) \/ SealsNothing
<1> USE DEF TypeOK
<1>0. hostClock \in Nat
  BY HostAssumption DEF SealedOK
<1>1. /\ hostClock \in Nat /\ e.session_id \in Sessions
      /\ Admitted(e, FALSE, arrivedOn) => e.session_id \in sessions /\ ~IsAttempt(e)
  BY <1>0, EventFields DEF Admitted, NotInFlight, WrongChannel, IsAttempt
<1>2. UNCHANGED <<issued, sessions>>
  BY DEF handleOutcome, sessionVars
<1>3. CASE dropInadmissible(e, arrivedOn)
  BY <1>1, <1>2, <1>3 DEF dropInadmissible, SealsNothing, historyVars, windowVars, bookVars, sealVars
<1>4. CASE dropUnverified(e)
  BY <1>1, <1>2, <1>4 DEF dropUnverified, SealsNothing, historyVars, windowVars, bookVars, sealVars
<1>5. CASE ignoreRepeat(e)
  BY <1>1, <1>2, <1>5 DEF ignoreRepeat, SealsNothing, markReceived, bookVars, sealVars
<1>6. CASE SignatureVerifies(e) /\ (dropReplay(e) \/ dropOrphan(e))
  <2>1. decide(e) /\ markReceived(e) /\ UNCHANGED <<bookVars, sealVars>>
    BY <1>6 DEF dropReplay, dropOrphan
  <2>2. \A s \in Sessions, k \in KeyIds : decided[s][k] \subseteq decided'[s][k]
    BY <1>6, <2>1, DecideKeeps
  <2> QED
    BY <1>1, <1>2, <2>1, <2>2 DEF SealsNothing, SessionsOK, markReceived, bookVars, sealVars
<1>7. CASE dropUnavailable(e)
  BY <1>1, <1>2, <1>7 DEF dropUnavailable, SealsNothing, markReceived, bookVars, sealVars
<1>8. CASE Admitted(e, FALSE, arrivedOn) /\ SignatureVerifies(e) /\ sealOutcome(e)
  BY <1>1, <1>2, <1>8 DEF sealOutcome, Seals, markReceived
<1>9. CASE outcomeSealThrows(e)
  BY <1>1, <1>2, <1>9 DEF outcomeSealThrows, signerThrows, SealsNothing, markReceived, bookVars
<1> QED
  BY <1>3, <1>4, <1>5, <1>6, <1>7, <1>8, <1>9 DEF handleOutcome

\* Every step seals one event of an open session or seals nothing.
LEMMA StepKind ==
    ASSUME TypeOK, [Next]_vars
    PROVE  (\E e \in Events : Seals(e)) \/ SealsNothing
<1>1. hostClock \in Nat
  BY HostAssumption DEF TypeOK, SealedOK
<1>2. CASE UNCHANGED vars
  BY <1>1, <1>2 DEF vars, SealsNothing, historyVars
<1>3. CASE \E s \in Sessions : openSession(s)
  BY <1>1, <1>3 DEF openSession, SealsNothing, historyVars, windowVars, bookVars, sealVars
<1>4. ASSUME NEW s \in Sessions, closeSession(s)
      PROVE  SealsNothing
  <2>1. /\ UNCHANGED <<issued, ledger, sealedAttempts, hostClock>>
        /\ sessions' = sessions \ {s} /\ verified' = {f \in verified : f.session_id # s}
        /\ \A t \in Sessions \ {s} :
              accepted'[t] = accepted[t] /\ outcomes'[t] = outcomes[t] /\ decided'[t] = decided[t]
    BY <1>4 DEF closeSession, forgetSession, sealVars, TypeOK, BooksOK, WindowOK
  <2> QED
    BY <1>1, <2>1 DEF SealsNothing, TypeOK, SessionsOK
<1>5. CASE \/ setUnavailable
           \/ \E k \in KeyIds : revokeKey(k) \/ \E p \in PublicKeys : registerKey(k, p)
           \/ \E id \in Ids, attempt \in BOOLEAN : handleMalformed(id, attempt)
  BY <1>1, <1>5 DEF setUnavailable, revokeKey, registerKey, handleMalformed, SealsNothing,
     sessionVars, windowVars, bookVars, sealVars, historyVars
<1> QED
  BY <1>2, <1>3, <1>4, <1>5, AttemptKind, OutcomeKind DEF Next

\* Sealing an event adds one record of it at the end, to the attempts or to the
\* terminal records.
LEMMA SealsAppends ==
    ASSUME TypeOK, NEW e \in Events, Seals(e)
    PROVE  LET n == Len(ledger) + 1 IN
           /\ n \in Nat /\ n \notin DOMAIN ledger
           /\ DOMAIN ledger' = DOMAIN ledger \cup {n}
           /\ \A i \in DOMAIN ledger : i \in Nat /\ i < n /\ ledger'[i] = ledger[i]
           /\ ledger'[n].event = e
           /\ AttemptRecords' = IF IsAttempt(e) THEN AttemptRecords \cup {n} ELSE AttemptRecords
           /\ TerminalRecords' = IF IsAttempt(e) THEN TerminalRecords ELSE TerminalRecords \cup {n}
<1> DEFINE n == Len(ledger) + 1
<1>1. /\ ledger \in Seq(SealedRecords(Events)) /\ hostClock + 1 \in Nat /\ Countersigns \in BOOLEAN
  BY HostAssumption DEF TypeOK, SealedOK
<1>2. /\ ledger' \in Seq(SealedRecords(Events)) /\ Len(ledger') = n
      /\ ledger'[n] = sealedRecord(ledger, e, hostClock + 1, Countersigns)
      /\ \A i \in 1..Len(ledger) : ledger'[i] = ledger[i]
  BY SealKeeps DEF TypeOK, Seals
<1>3. ledger'[n].event = e
  BY <1>1, <1>2, SealedRecordOf
<1>4. /\ Len(ledger) \in Nat /\ DOMAIN ledger = 1..Len(ledger)
      /\ DOMAIN ledger' = 1..n
  BY <1>1, <1>2
<1>5. /\ n \in Nat /\ n \notin DOMAIN ledger /\ DOMAIN ledger' = DOMAIN ledger \cup {n}
      /\ \A i \in DOMAIN ledger : i \in Nat /\ i < n /\ ledger'[i] = ledger[i]
  BY <1>2, <1>4
<1> HIDE DEF n
<1>6. /\ AttemptRecords' = IF IsAttempt(e) THEN AttemptRecords \cup {n} ELSE AttemptRecords
      /\ TerminalRecords' = IF IsAttempt(e) THEN TerminalRecords ELSE TerminalRecords \cup {n}
  BY <1>3, <1>5 DEF AttemptRecords, TerminalRecords, IsAttempt
<1> QED
  BY <1>3, <1>5, <1>6 DEF n

\* The events on record are events that may arrive.
LEMMA RecordedEvents ==
    ASSUME TypeOK, NEW i \in DOMAIN ledger
    PROVE  /\ ledger[i].event \in Events
           /\ ledger[i].event.id \in Ids /\ ledger[i].event.session_id \in Sessions
<1>1. ledger[i] \in SealedRecords(Events)
  BY DEF TypeOK, SealedOK
<1>2. ledger[i].event \in Events
  BY <1>1 DEF SealedRecords
<1> QED
  BY <1>2, EventFields

-----------------------------------------------------------------------------
(***************************************************************************)
(* The books of the open sessions.                                         *)
(***************************************************************************)

\* Sealing an event books it.
LEMMA SealsBooks ==
    ASSUME TypeOK, BooksMatchLedger, NEW e \in Events, Seals(e)
    PROVE  BooksMatchLedger'
<1> DEFINE n == Len(ledger) + 1
<1>1. /\ n \notin DOMAIN ledger
      /\ DOMAIN ledger' = DOMAIN ledger \cup {n}
      /\ \A i \in DOMAIN ledger : ledger'[i] = ledger[i]
      /\ ledger'[n].event = e
      /\ AttemptRecords' = IF IsAttempt(e) THEN AttemptRecords \cup {n} ELSE AttemptRecords
      /\ TerminalRecords' = IF IsAttempt(e) THEN TerminalRecords ELSE TerminalRecords \cup {n}
  BY SealsAppends
<1> HIDE DEF n
<1>2. AttemptRecords \subseteq DOMAIN ledger /\ TerminalRecords \subseteq DOMAIN ledger
  BY DEF AttemptRecords, TerminalRecords
<1>3. /\ issued' = issued /\ sessions' = sessions /\ e.session_id \in issued
      /\ e.id \in Ids /\ e.session_id \in Sessions /\ e \in Events /\ Nothing \notin Events
      /\ sessions \subseteq Sessions
  BY EventFields, NothingAssumption DEF Seals, TypeOK, SessionsOK
<1>4. \A i \in DOMAIN ledger' : ledger'[i].event.session_id \in issued'
  BY <1>1, <1>3 DEF BooksMatchLedger
<1>5. ASSUME NEW s \in sessions, NEW id \in Ids
      PROVE  id \in accepted'[s] <=> \E i \in AttemptRecords' : OfOperation(i, s, id)'
  <2>1. id \in accepted[s] <=> \E i \in AttemptRecords : OfOperation(i, s, id)
    BY <1>5 DEF BooksMatchLedger
  <2>2. id \in accepted'[s] <=>
          id \in accepted[s] \/ (IsAttempt(e) /\ s = e.session_id /\ id = e.id)
    BY <1>3, <1>5 DEF Seals, TypeOK, BooksOK
  <2> QED
    BY <1>1, <1>2, <2>1, <2>2 DEF OfOperation
<1>6. ASSUME NEW s \in sessions, NEW id \in Ids
      PROVE  outcomes'[s][id] # Nothing <=> \E i \in TerminalRecords' : OfOperation(i, s, id)'
  <2>1. outcomes[s][id] # Nothing <=> \E i \in TerminalRecords : OfOperation(i, s, id)
    BY <1>6 DEF BooksMatchLedger
  <2>2. outcomes'[s][id] # Nothing <=>
          outcomes[s][id] # Nothing \/ (~IsAttempt(e) /\ s = e.session_id /\ id = e.id)
    BY <1>3, <1>6 DEF Seals, TypeOK, BooksOK
  <2> QED
    BY <1>1, <1>2, <2>1, <2>2 DEF OfOperation
<1>7. \A i \in AttemptRecords' : sealedAttempts'[ledger'[i].event.id] # Nothing
  <2>1. \A id \in Ids : /\ sealedAttempts[id] # Nothing => sealedAttempts'[id] # Nothing
                        /\ IsAttempt(e) => sealedAttempts'[e.id] # Nothing
    <3>1. CASE IsAttempt(e)
      <4> DEFINE r == Accept(ledger'[Len(ledger')])
      <4>1. r \in Responses
        BY SealKeeps, AnswersTyped DEF Seals, TypeOK
      <4>2. [canonical |-> e, response |-> r] # Nothing
        BY <4>1, NothingAssumption DEF SealedAttempts
      <4>3. sealedAttempts' = [sealedAttempts EXCEPT ![e.id] = [canonical |-> e, response |-> r]]
        BY <3>1 DEF Seals
      <4> HIDE DEF r
      <4> QED
        BY <1>3, <4>2, <4>3 DEF TypeOK, SealedOK
    <3>2. CASE ~IsAttempt(e)
      BY <3>2 DEF Seals
    <3> QED
      BY <3>1, <3>2
  <2>2. \A i \in AttemptRecords : ledger[i].event.id \in Ids
    BY <1>2, RecordedEvents
  <2>3. ASSUME NEW i \in AttemptRecords
        PROVE  sealedAttempts'[ledger'[i].event.id] # Nothing
    <3>1. sealedAttempts[ledger[i].event.id] # Nothing /\ ledger'[i] = ledger[i]
      BY <1>1, <1>2, <2>3 DEF BooksMatchLedger
    <3> QED
      BY <2>1, <2>2, <2>3, <3>1
  <2>4. IsAttempt(e) => sealedAttempts'[ledger'[n].event.id] # Nothing
    BY <1>1, <1>3, <2>1
  <2> QED
    BY <1>1, <2>3, <2>4
<1> QED
  BY <1>3, <1>4, <1>5, <1>6, <1>7 DEF BooksMatchLedger

\* The books of the open sessions agree with the ledger.
THEOREM BooksTheorem == Spec => []BooksMatchLedger
<1>1. Init => BooksMatchLedger
  BY DEF Init, InitWith, BooksMatchLedger, AttemptRecords, TerminalRecords
<1>2. TypeOK /\ BooksMatchLedger /\ [Next]_vars => BooksMatchLedger'
  <2> SUFFICES ASSUME TypeOK, BooksMatchLedger, [Next]_vars PROVE BooksMatchLedger'
    OBVIOUS
  <2>1. CASE SealsNothing
    <3>1. /\ ledger' = ledger /\ AttemptRecords' = AttemptRecords
          /\ TerminalRecords' = TerminalRecords
          /\ \A i \in DOMAIN ledger, s \in Sessions, id \in Ids :
                OfOperation(i, s, id)' <=> OfOperation(i, s, id)
      BY <2>1 DEF SealsNothing, AttemptRecords, TerminalRecords, OfOperation
    <3>2. /\ \A i \in DOMAIN ledger' : ledger'[i].event.session_id \in issued'
          /\ \A i \in AttemptRecords' : sealedAttempts'[ledger'[i].event.id] # Nothing
      BY <2>1, <3>1 DEF SealsNothing, BooksMatchLedger
    <3>3. ASSUME NEW s \in sessions', NEW id \in Ids
          PROVE  /\ id \in accepted'[s] <=> \E i \in AttemptRecords' : OfOperation(i, s, id)'
                 /\ outcomes'[s][id] # Nothing
                      <=> \E i \in TerminalRecords' : OfOperation(i, s, id)'
      <4>1. CASE s \in sessions
        BY <2>1, <3>1, <3>3, <4>1
           DEF SealsNothing, BooksMatchLedger, OfOperation, AttemptRecords, TerminalRecords
      <4>2. CASE s \notin sessions
        <5>1. s \in Sessions /\ s \notin issued
          BY <2>1, <3>3, <4>2, TypeStep DEF SealsNothing, TypeOK, SessionsOK
        <5>2. accepted'[s] = {} /\ outcomes'[s][id] = Nothing
          BY <2>1, <3>3, <4>2, <5>1 DEF SealsNothing, TypeOK, EndedIsForgotten
        <5> QED
          BY <3>1, <5>1, <5>2
             DEF BooksMatchLedger, OfOperation, AttemptRecords, TerminalRecords
      <4> QED
        BY <4>1, <4>2
    <3> QED
      BY <3>2, <3>3 DEF BooksMatchLedger
  <2> QED
    BY <2>1, SealsBooks, StepKind
<1> QED
  BY <1>1, <1>2, TypeCorrect, PTL DEF Spec

-----------------------------------------------------------------------------
(***************************************************************************)
(* The order of the records.                                               *)
(***************************************************************************)

\* A property of the ledger alone holds when nothing is sealed.
LEMMA SameLedger ==
    ASSUME ledger' = ledger
    PROVE  /\ AttemptRecords' = AttemptRecords /\ TerminalRecords' = TerminalRecords
           /\ OneAttemptPerId => OneAttemptPerId'
           /\ OneTerminalRecord => OneTerminalRecord'
           /\ NoAttemptAfterTerminal => NoAttemptAfterTerminal'
           /\ OutcomeHasAttempt => OutcomeHasAttempt'
<1>1. AttemptRecords' = AttemptRecords /\ TerminalRecords' = TerminalRecords
  BY DEF AttemptRecords, TerminalRecords
<1> QED
  BY <1>1 DEF OneAttemptPerId, OneTerminalRecord, NoAttemptAfterTerminal, OutcomeHasAttempt,
     SameOperation

\* An attempt is sealed only under an id of which no attempt is sealed and only
\* while its operation has no terminal record.
LEMMA FreshAttemptIsNew ==
    ASSUME TypeOK, BooksMatchLedger, NEW e \in Events, Seals(e), IsAttempt(e)
    PROVE  /\ \A i \in AttemptRecords : ledger[i].event.id # e.id
           /\ \A j \in TerminalRecords : ~SameOperation(ledger[j].event, e)
<1>1. /\ sealedAttempts[e.id] = Nothing /\ outcomes[e.session_id][e.id] = Nothing
      /\ e.session_id \in sessions /\ e.id \in Ids
  BY EventFields DEF Seals, FreshAttempt, AttemptSealed, Concluded
<1>2. \A i \in AttemptRecords : sealedAttempts[ledger[i].event.id] # Nothing
  BY DEF BooksMatchLedger
<1>3. ~\E j \in TerminalRecords : OfOperation(j, e.session_id, e.id)
  BY <1>1 DEF BooksMatchLedger
<1> QED
  BY <1>1, <1>2, <1>3 DEF OfOperation, SameOperation

\* A terminal outcome is sealed only while its operation has none, and unless it
\* is aborted only after the attempt of its operation.
LEMMA FreshOutcomeIsNew ==
    ASSUME TypeOK, BooksMatchLedger, NEW e \in Events, Seals(e), ~IsAttempt(e)
    PROVE  /\ \A j \in TerminalRecords : ~SameOperation(ledger[j].event, e)
           /\ e.outcome # "aborted" => \E i \in AttemptRecords : SameOperation(ledger[i].event, e)
<1>1. /\ outcomes[e.session_id][e.id] = Nothing
      /\ e.outcome # "aborted" => e.id \in accepted[e.session_id]
      /\ e.session_id \in sessions /\ e.id \in Ids
  BY EventFields DEF Seals, FreshOutcome, Concluded, Orphaned, Correlated
<1>2. ~\E j \in TerminalRecords : OfOperation(j, e.session_id, e.id)
  BY <1>1 DEF BooksMatchLedger
<1>3. e.outcome # "aborted" => \E i \in AttemptRecords : OfOperation(i, e.session_id, e.id)
  BY <1>1 DEF BooksMatchLedger
<1> QED
  BY <1>2, <1>3 DEF OfOperation, SameOperation

PairingInv ==
    OneAttemptPerId /\ OneTerminalRecord /\ NoAttemptAfterTerminal /\ OutcomeHasAttempt

\* Sealing an attempt keeps the pairing of attempts and terminal records.
LEMMA SealsAttemptPairs ==
    ASSUME TypeOK, BooksMatchLedger, PairingInv, NEW e \in Events, Seals(e), IsAttempt(e)
    PROVE  PairingInv'
<1> DEFINE n == Len(ledger) + 1
<1>1. /\ n \in Nat /\ n \notin DOMAIN ledger /\ DOMAIN ledger' = DOMAIN ledger \cup {n}
      /\ \A i \in DOMAIN ledger : i \in Nat /\ i < n /\ ledger'[i] = ledger[i]
      /\ ledger'[n].event = e
      /\ AttemptRecords' = AttemptRecords \cup {n} /\ TerminalRecords' = TerminalRecords
  BY SealsAppends
<1> HIDE DEF n
<1>2. /\ \A i \in AttemptRecords : ledger[i].event.id # e.id
      /\ \A j \in TerminalRecords : ~SameOperation(ledger[j].event, e)
  BY FreshAttemptIsNew
<1>3. AttemptRecords \subseteq DOMAIN ledger /\ TerminalRecords \subseteq DOMAIN ledger
  BY DEF AttemptRecords, TerminalRecords
<1>4. OneAttemptPerId'
  BY <1>1, <1>2, <1>3 DEF PairingInv, OneAttemptPerId
<1>5. OneTerminalRecord'
  BY <1>1, <1>3 DEF PairingInv, OneTerminalRecord, SameOperation
<1>6. NoAttemptAfterTerminal'
  BY <1>1, <1>2, <1>3 DEF PairingInv, NoAttemptAfterTerminal, SameOperation
<1>7. OutcomeHasAttempt'
  BY <1>1, <1>3 DEF PairingInv, OutcomeHasAttempt, SameOperation, IsAttempt
<1> QED
  BY <1>4, <1>5, <1>6, <1>7 DEF PairingInv

\* So does sealing a terminal outcome.
LEMMA SealsOutcomePairs ==
    ASSUME TypeOK, BooksMatchLedger, PairingInv, NEW e \in Events, Seals(e), ~IsAttempt(e)
    PROVE  PairingInv'
<1> DEFINE n == Len(ledger) + 1
<1>1. /\ n \in Nat /\ n \notin DOMAIN ledger /\ DOMAIN ledger' = DOMAIN ledger \cup {n}
      /\ \A i \in DOMAIN ledger : i \in Nat /\ i < n /\ ledger'[i] = ledger[i]
      /\ ledger'[n].event = e
      /\ AttemptRecords' = AttemptRecords /\ TerminalRecords' = TerminalRecords \cup {n}
  BY SealsAppends
<1> HIDE DEF n
<1>2. /\ \A j \in TerminalRecords : ~SameOperation(ledger[j].event, e)
      /\ e.outcome # "aborted" => \E i \in AttemptRecords : SameOperation(ledger[i].event, e)
  BY FreshOutcomeIsNew
<1>3. AttemptRecords \subseteq DOMAIN ledger /\ TerminalRecords \subseteq DOMAIN ledger
  BY DEF AttemptRecords, TerminalRecords
<1>4. OneAttemptPerId'
  BY <1>1, <1>3 DEF PairingInv, OneAttemptPerId
<1>5. OneTerminalRecord'
  BY <1>1, <1>2, <1>3 DEF PairingInv, OneTerminalRecord, SameOperation
<1>6. NoAttemptAfterTerminal'
  BY <1>1, <1>3 DEF PairingInv, NoAttemptAfterTerminal, SameOperation
<1>7. OutcomeHasAttempt'
  <2>1. ASSUME NEW j \in DOMAIN ledger, ledger[j].event.outcome \in {"success", "failed"}
        PROVE  \E i \in AttemptRecords :
                  i < j /\ SameOperation(ledger'[i].event, ledger'[j].event)
    BY <1>1, <1>3, <2>1 DEF PairingInv, OutcomeHasAttempt, SameOperation
  <2>2. ASSUME e.outcome \in {"success", "failed"}
        PROVE  \E i \in AttemptRecords :
                  i < n /\ SameOperation(ledger'[i].event, ledger'[n].event)
    BY <1>1, <1>2, <1>3, <2>2 DEF SameOperation
  <2> QED
    BY <1>1, <2>1, <2>2 DEF OutcomeHasAttempt, SameOperation
<1> QED
  BY <1>4, <1>5, <1>6, <1>7 DEF PairingInv

\* In every ledger the host builds, an id is attempted once, an operation has one
\* terminal record and no attempt after it, and a success or failed record
\* follows its attempt.
THEOREM PairingTheorem ==
    Spec => [](/\ OneAttemptPerId /\ OneTerminalRecord
               /\ NoAttemptAfterTerminal /\ OutcomeHasAttempt)
<1>1. Init => PairingInv
  BY DEF Init, InitWith, PairingInv, OneAttemptPerId, OneTerminalRecord, NoAttemptAfterTerminal,
     OutcomeHasAttempt, AttemptRecords, TerminalRecords
<1>2. TypeOK /\ BooksMatchLedger /\ PairingInv /\ [Next]_vars => PairingInv'
  <2> SUFFICES ASSUME TypeOK, BooksMatchLedger, PairingInv, [Next]_vars PROVE PairingInv'
    OBVIOUS
  <2>1. CASE SealsNothing
    BY <2>1, SameLedger DEF SealsNothing, PairingInv
  <2> QED
    BY <2>1, StepKind, SealsAttemptPairs, SealsOutcomePairs
<1>3. PairingInv => /\ OneAttemptPerId /\ OneTerminalRecord
                    /\ NoAttemptAfterTerminal /\ OutcomeHasAttempt
  BY DEF PairingInv
<1> QED
  BY <1>1, <1>2, <1>3, TypeCorrect, BooksTheorem, PTL DEF Spec

-----------------------------------------------------------------------------
(***************************************************************************)
(* The chain AuditHost builds, the keys its records verify under, and what *)
(* an accept says of the chain.                                            *)
(***************************************************************************)

\* No record is of a later tick than the host's clock: a throwing countersigner
\* moves the clock and seals nothing.
ClockIsAhead ==
    \A i \in DOMAIN ledger : ledger[i].host_ts <= hostClock

\* The record that sealing an event appends.
LEMMA SealsRecord ==
    ASSUME TypeOK, NEW e \in Events, Seals(e)
    PROVE  LET n == Len(ledger) + 1
               r == ledger'[n]
           IN
           /\ n \in Nat /\ n >= 1 /\ Len(ledger') = n
           /\ DOMAIN ledger = 1..(n - 1) /\ DOMAIN ledger' = 1..n
           /\ \A i \in DOMAIN ledger : ledger'[i] = ledger[i]
           /\ hostClock' = hostClock + 1 /\ hostClock \in Nat
           /\ r.event = e /\ r.seq = n - 1 /\ r.host_ts = hostClock + 1
           /\ r.previous_hash = IF n = 1 THEN GENESIS_HASH ELSE ledger[n - 1].record_hash
           /\ r.record_hash = computeRecordHash(r.event, r.seq, r.host_ts, r.previous_hash)
<1> DEFINE n == Len(ledger) + 1
<1>1. /\ ledger \in Seq(SealedRecords(Events)) /\ Countersigns \in BOOLEAN
      /\ hostClock \in Nat /\ hostClock + 1 \in Nat /\ hostClock' = hostClock + 1
  BY HostAssumption DEF TypeOK, SealedOK, Seals, seal
<1>2. /\ ledger' \in Seq(SealedRecords(Events)) /\ Len(ledger') = n
      /\ ledger'[n] = sealedRecord(ledger, e, hostClock + 1, Countersigns)
      /\ \A i \in 1..Len(ledger) : ledger'[i] = ledger[i]
  BY SealKeeps DEF TypeOK, Seals
<1>3. /\ n \in Nat /\ n >= 1 /\ n - 1 = Len(ledger)
      /\ DOMAIN ledger = 1..(n - 1) /\ DOMAIN ledger' = 1..n
  BY <1>1, <1>2
<1>4. digest(ledger) = IF n = 1 THEN GENESIS_HASH ELSE ledger[n - 1].record_hash
  BY <1>1, <1>3 DEF digest
<1>5. /\ ledger'[n].event = e /\ ledger'[n].seq = n - 1 /\ ledger'[n].host_ts = hostClock + 1
      /\ ledger'[n].previous_hash = digest(ledger)
      /\ ledger'[n].record_hash = computeRecordHash(e, n - 1, hostClock + 1, digest(ledger))
  BY <1>1, <1>2, <1>3, SealedRecordOf
<1> QED
  BY <1>1, <1>2, <1>3, <1>4, <1>5

\* The chain holds: no step leaves a gap in the positions, breaks a link or turns
\* the clock back, whatever a throwing countersigner leaves half done.
THEOREM ChainTheorem == Spec => []ChainHolds
<1>1. Init => ChainHolds /\ ClockIsAhead
  BY DEF Init, InitWith, ChainHolds, ClockIsAhead
<1>2. TypeOK /\ ChainHolds /\ ClockIsAhead /\ [Next]_vars => ChainHolds' /\ ClockIsAhead'
  <2> SUFFICES ASSUME TypeOK, ChainHolds, ClockIsAhead, [Next]_vars
               PROVE  ChainHolds' /\ ClockIsAhead'
    OBVIOUS
  <2>1. /\ hostClock \in Nat
        /\ \A i \in DOMAIN ledger : i \in Nat /\ i >= 1 /\ ledger[i].host_ts \in Nat
    <3>1. ledger \in Seq(SealedRecords(Events)) /\ hostClock \in Nat
      BY HostAssumption DEF TypeOK, SealedOK
    <3>2. \A i \in DOMAIN ledger : i \in Nat /\ i >= 1 /\ ledger[i] \in SealedRecords(Events)
      BY <3>1
    <3> QED
      BY <3>1, <3>2 DEF SealedRecords
  <2>2. CASE SealsNothing
    <3>1. ledger' = ledger /\ hostClock <= hostClock' /\ hostClock' \in Nat
      BY <2>2, TypeStep, HostAssumption DEF SealsNothing, TypeOK, SealedOK
    <3>2. ClockIsAhead'
      BY <2>1, <3>1 DEF ClockIsAhead
    <3> QED
      BY <3>1, <3>2 DEF ChainHolds
  <2>3. ASSUME NEW e \in Events, Seals(e)
        PROVE  ChainHolds' /\ ClockIsAhead'
    <3> DEFINE n == Len(ledger) + 1
               r == ledger'[n]
    <3>1. /\ n \in Nat /\ n >= 1 /\ DOMAIN ledger = 1..(n - 1) /\ DOMAIN ledger' = 1..n
          /\ \A i \in DOMAIN ledger : ledger'[i] = ledger[i]
          /\ hostClock' = hostClock + 1
          /\ r.seq = n - 1 /\ r.host_ts = hostClock + 1
          /\ r.previous_hash = IF n = 1 THEN GENESIS_HASH ELSE ledger[n - 1].record_hash
          /\ r.record_hash = computeRecordHash(r.event, r.seq, r.host_ts, r.previous_hash)
      BY <2>3, SealsRecord
    <3> HIDE DEF n
    <3>2. ClockIsAhead'
      BY <2>1, <3>1 DEF ClockIsAhead
    <3>3. ASSUME NEW i \in DOMAIN ledger'
          PROVE  LET q == ledger'[i] IN
                 /\ q.seq = i - 1
                 /\ q.previous_hash = IF i = 1 THEN GENESIS_HASH ELSE ledger'[i - 1].record_hash
                 /\ q.record_hash =
                      computeRecordHash(q.event, q.seq, q.host_ts, q.previous_hash)
                 /\ i > 1 => ledger'[i - 1].host_ts < q.host_ts
      <4>1. i \in Nat /\ i >= 1 /\ (i > 1 => i - 1 \in DOMAIN ledger)
        BY <3>1
      <4>2. i > 1 => ledger'[i - 1] = ledger[i - 1] /\ ledger[i - 1].host_ts <= hostClock
                     /\ ledger[i - 1].host_ts \in Nat
        BY <2>1, <3>1, <4>1 DEF ClockIsAhead
      <4>3. CASE i = n
        BY <2>1, <3>1, <4>1, <4>2, <4>3
      <4>4. CASE i # n
        <5>1. i \in DOMAIN ledger /\ ledger'[i] = ledger[i]
          BY <3>1, <4>4
        <5> QED
          BY <4>1, <4>2, <5>1 DEF ChainHolds
      <4> QED
        BY <4>3, <4>4
    <3> QED
      BY <3>2, <3>3 DEF ChainHolds
  <2> QED
    BY <2>2, <2>3, StepKind
<1> QED
  BY <1>1, <1>2, TypeCorrect, PTL DEF Spec

-----------------------------------------------------------------------------
(***************************************************************************)
(* What an accept says.                                                    *)
(***************************************************************************)

\* The index of sealed attempts holds what the ledger holds.
IndexIsSealed ==
    \A id \in Ids :
       sealedAttempts[id] # Nothing =>
         \E n \in DOMAIN ledger :
            /\ ledger[n].event = sealedAttempts[id].canonical
            /\ sealedAttempts[id].response = Accept(ledger[n])

\* An accept, first or repeated, is the index's own entry of that attempt.
AcceptIsIndexed ==
    \A a \in answer :
       a.response.status = "accept" =>
         /\ sealedAttempts[a.event.id] # Nothing
         /\ sealedAttempts[a.event.id].canonical = a.event
         /\ sealedAttempts[a.event.id].response = a.response

\* Sealing an attempt enters its record in the index.
LEMMA SealsIndex ==
    ASSUME TypeOK, NEW e \in Events, Seals(e), IsAttempt(e)
    PROVE  /\ sealedAttempts'[e.id] # Nothing
           /\ sealedAttempts'[e.id] =
                [canonical |-> e, response |-> Accept(ledger'[Len(ledger')])]
           /\ \A id \in Ids : id # e.id => sealedAttempts'[id] = sealedAttempts[id]
<1> DEFINE r == Accept(ledger'[Len(ledger')])
<1>1. r \in Responses
  BY SealKeeps, AnswersTyped DEF Seals, TypeOK
<1>2. [canonical |-> e, response |-> r] # Nothing
  BY <1>1, NothingAssumption DEF SealedAttempts
<1>3. sealedAttempts' = [sealedAttempts EXCEPT ![e.id] = [canonical |-> e, response |-> r]]
  BY DEF Seals
<1>4. e.id \in Ids /\ DOMAIN sealedAttempts = Ids
  BY EventFields DEF TypeOK, SealedOK
<1> HIDE DEF r
<1>5. /\ sealedAttempts'[e.id] = [canonical |-> e, response |-> r]
      /\ \A id \in Ids : id # e.id => sealedAttempts'[id] = sealedAttempts[id]
  BY <1>3, <1>4
<1> QED
  BY <1>2, <1>5 DEF r

\* An attempt is answered with an accept only from the index.
LEMMA AttemptAnswer ==
    ASSUME TypeOK, NEW e \in Events, NEW arrivedOn, handleAttempt(e, arrivedOn)
    PROVE  AcceptIsIndexed'
<1>1. CASE rejectInadmissible(e, arrivedOn)
  BY <1>1 DEF rejectInadmissible, Reply, Reject, AcceptIsIndexed
<1>2. CASE rejectUnverified(e)
  BY <1>2 DEF rejectUnverified, Reply, Reject, AcceptIsIndexed
<1>3. CASE answerFromLedger(e)
  BY <1>3 DEF answerFromLedger, AttemptSealed, SameAttempt, Reply, AcceptIsIndexed, sealVars
<1>4. CASE rejectReplay(e)
  BY <1>4 DEF rejectReplay, Reply, Reject, AcceptIsIndexed
<1>5. CASE answerUnavailable(e)
  BY <1>5 DEF answerUnavailable, Reply, Unavailable, AcceptIsIndexed
<1>6. CASE Admitted(e, TRUE, arrivedOn) /\ SignatureVerifies(e) /\ acceptAttempt(e)
  <2>1. Seals(e) /\ IsAttempt(e)
    BY <1>6 DEF Admitted, NotInFlight, WrongChannel, IsAttempt, acceptAttempt, Seals,
       markReceived, sessionVars
  <2>2. answer' = {[event |-> e, response |-> Accept(ledger'[Len(ledger')])]}
    BY <1>6 DEF acceptAttempt, Reply
  <2>3. /\ sealedAttempts'[e.id] # Nothing
        /\ sealedAttempts'[e.id] =
             [canonical |-> e, response |-> Accept(ledger'[Len(ledger')])]
    BY <2>1, SealsIndex
  <2>4. \A a \in answer' :
           /\ sealedAttempts'[a.event.id] # Nothing
           /\ sealedAttempts'[a.event.id].canonical = a.event
           /\ sealedAttempts'[a.event.id].response = a.response
    BY <2>2, <2>3
  <2> QED
    BY <2>4 DEF AcceptIsIndexed
<1>7. CASE attemptSealThrows(e)
  BY <1>7 DEF attemptSealThrows, NoReply, AcceptIsIndexed
<1> QED
  BY <1>1, <1>2, <1>3, <1>4, <1>5, <1>6, <1>7 DEF handleAttempt

\* Nothing else is answered.
LEMMA StepAnswer ==
    ASSUME TypeOK, AcceptIsIndexed, [Next]_vars
    PROVE  AcceptIsIndexed'
<1> USE DEF AcceptIsIndexed, NoReply
<1>1. CASE UNCHANGED vars
  BY <1>1 DEF vars
<1>2. CASE \E s \in Sessions : openSession(s) \/ closeSession(s)
  BY <1>2 DEF openSession, closeSession
<1>3. CASE \/ setUnavailable
           \/ \E k \in KeyIds : revokeKey(k) \/ \E p \in PublicKeys : registerKey(k, p)
           \/ \E id \in Ids, attempt \in BOOLEAN : handleMalformed(id, attempt)
  BY <1>3 DEF setUnavailable, revokeKey, registerKey, handleMalformed, Reply, Reject
<1>4. CASE \E e \in Events : \E arrivedOn \in {{e.session_id}, {}} : handleOutcome(e, arrivedOn)
  BY <1>4 DEF handleOutcome
<1>5. CASE \E e \in Events : \E arrivedOn \in {{e.session_id}, {}} : handleAttempt(e, arrivedOn)
  BY <1>5, AttemptAnswer
<1> QED
  BY <1>1, <1>2, <1>3, <1>4, <1>5 DEF Next

\* The index of sealed attempts agrees with the ledger, at every step.
LEMMA IndexCorrect == Spec => []IndexIsSealed
<1>1. Init => IndexIsSealed
  BY DEF Init, InitWith, IndexIsSealed
<1>2. TypeOK /\ IndexIsSealed /\ [Next]_vars => IndexIsSealed'
  <2> SUFFICES ASSUME TypeOK, IndexIsSealed, [Next]_vars PROVE IndexIsSealed'
    OBVIOUS
  <2>1. CASE SealsNothing
    BY <2>1 DEF SealsNothing, IndexIsSealed
  <2>2. ASSUME NEW e \in Events, Seals(e)
        PROVE  IndexIsSealed'
    <3> DEFINE n == Len(ledger) + 1
    <3>1. /\ Len(ledger') = n /\ n \in DOMAIN ledger' /\ ledger'[n].event = e
          /\ \A i \in DOMAIN ledger : i \in DOMAIN ledger' /\ ledger'[i] = ledger[i]
      BY <2>2, SealsRecord
    <3> HIDE DEF n
    <3>2. ASSUME NEW id \in Ids, sealedAttempts'[id] # Nothing
          PROVE  \E i \in DOMAIN ledger' :
                    /\ ledger'[i].event = sealedAttempts'[id].canonical
                    /\ sealedAttempts'[id].response = Accept(ledger'[i])
      <4>1. CASE IsAttempt(e) /\ id = e.id
        <5>1. sealedAttempts'[e.id] =
                [canonical |-> e, response |-> Accept(ledger'[Len(ledger')])]
          BY <2>2, <4>1, SealsIndex
        <5>2. /\ ledger'[n].event = sealedAttempts'[id].canonical
              /\ sealedAttempts'[id].response = Accept(ledger'[n])
          BY <3>1, <4>1, <5>1
        <5> QED
          BY <3>1, <5>2
      <4>2. CASE ~(IsAttempt(e) /\ id = e.id)
        <5>1. sealedAttempts'[id] = sealedAttempts[id]
          BY <2>2, <4>2, SealsIndex DEF Seals
        <5>2. PICK i \in DOMAIN ledger :
                 /\ ledger[i].event = sealedAttempts[id].canonical
                 /\ sealedAttempts[id].response = Accept(ledger[i])
          BY <3>2, <5>1 DEF IndexIsSealed
        <5> QED
          BY <3>1, <5>1, <5>2
      <4> QED
        BY <4>1, <4>2
    <3> QED
      BY <3>2 DEF IndexIsSealed
  <2> QED
    BY <2>1, <2>2, StepKind
<1> QED
  BY <1>1, <1>2, TypeCorrect, PTL DEF Spec

\* An accept tells the truth, the first time and on every repeat: the record it
\* names is in the ledger, holds that very event and has the hash the tool
\* recomputes from the response.
THEOREM AcceptTheorem == Spec => []AcceptIsSealed
<1>1. Init => AcceptIsIndexed
  BY DEF Init, InitWith, AcceptIsIndexed, NoReply
<1>2. TypeOK /\ AcceptIsIndexed /\ [Next]_vars => AcceptIsIndexed'
  BY StepAnswer
<1>3. TypeOK /\ ChainHolds /\ IndexIsSealed /\ AcceptIsIndexed => AcceptIsSealed
  <2> SUFFICES ASSUME TypeOK, ChainHolds, IndexIsSealed, AcceptIsIndexed,
                      NEW a \in answer, a.response.status = "accept"
               PROVE  LET r == a.response IN
                      /\ r.seq + 1 \in DOMAIN ledger
                      /\ ledger[r.seq + 1].event = a.event
                      /\ ledger[r.seq + 1].record_hash = r.record_hash
                      /\ r.record_hash =
                           computeRecordHash(a.event, r.seq, r.host_ts, r.previous_hash)
    BY DEF AcceptIsSealed
  <2>1. a.event.id \in Ids
    BY AcceptsAnswerEvents, EventFields DEF TypeOK, OutputOK
  <2>2. PICK n \in DOMAIN ledger : ledger[n].event = a.event /\ a.response = Accept(ledger[n])
    BY <2>1 DEF AcceptIsIndexed, IndexIsSealed
  <2>3. n \in Nat /\ a.response.seq = n - 1 /\ a.response.seq + 1 = n
    <3>1. ledger \in Seq(SealedRecords(Events))
      BY DEF TypeOK, SealedOK
    <3>2. n \in Nat
      BY <3>1
    <3> QED
      BY <2>2, <3>2 DEF ChainHolds, Accept
  <2> QED
    BY <2>2, <2>3 DEF ChainHolds, Accept
<1> QED
  BY <1>1, <1>2, <1>3, TypeCorrect, ChainTheorem, IndexCorrect, PTL DEF Spec

\* An accept is, field by field, what the ledger holds of that very event.
AcceptIsRecord ==
    \A a \in answer :
       a.response.status = "accept" =>
         \E n \in DOMAIN ledger : ledger[n].event = a.event /\ a.response = Accept(ledger[n])

\* An accept names a record that is sealed.
LEMMA AcceptRecorded == Spec => []AcceptIsRecord
<1>1. Init => AcceptIsIndexed
  BY DEF Init, InitWith, AcceptIsIndexed, NoReply
<1>2. TypeOK /\ AcceptIsIndexed /\ [Next]_vars => AcceptIsIndexed'
  BY StepAnswer
<1>3. TypeOK /\ IndexIsSealed /\ AcceptIsIndexed => AcceptIsRecord
  <2> SUFFICES ASSUME TypeOK, IndexIsSealed, AcceptIsIndexed,
                      NEW a \in answer, a.response.status = "accept"
               PROVE  \E n \in DOMAIN ledger :
                         ledger[n].event = a.event /\ a.response = Accept(ledger[n])
    BY DEF AcceptIsRecord
  <2>1. a.event.id \in Ids
    BY AcceptsAnswerEvents, EventFields DEF TypeOK, OutputOK
  <2> QED
    BY <2>1 DEF AcceptIsIndexed, IndexIsSealed
<1> QED
  BY <1>1, <1>2, <1>3, TypeCorrect, IndexCorrect, PTL DEF Spec

\* A host that declares countersignatures makes one over every record, and over
\* that record's own fields; another makes none.
RecordsCountersigned ==
    \A n \in DOMAIN ledger :
       LET r == ledger[n] IN
       r.host_signature =
         IF Countersigns
         THEN {countersignaturePayload(r.seq, r.host_ts, r.previous_hash, r.record_hash)}
         ELSE {}

\* Every record that must be countersigned is, over its own fields.
LEMMA CountersignCorrect == Spec => []RecordsCountersigned
<1>1. Init => RecordsCountersigned
  BY DEF Init, InitWith, RecordsCountersigned
<1>2. TypeOK /\ RecordsCountersigned /\ [Next]_vars => RecordsCountersigned'
  <2> SUFFICES ASSUME TypeOK, RecordsCountersigned, [Next]_vars PROVE RecordsCountersigned'
    OBVIOUS
  <2>1. CASE SealsNothing
    BY <2>1 DEF SealsNothing, RecordsCountersigned
  <2>2. ASSUME NEW e \in Events, Seals(e)
        PROVE  RecordsCountersigned'
    <3> DEFINE n == Len(ledger) + 1
    <3>1. /\ DOMAIN ledger' = DOMAIN ledger \cup {n}
          /\ \A i \in DOMAIN ledger : ledger'[i] = ledger[i]
          /\ ledger'[n] = sealedRecord(ledger, e, hostClock + 1, Countersigns)
      BY <2>2, SealsAppends, SealKeeps DEF TypeOK, Seals
    <3> HIDE DEF n
    <3>2. LET r == ledger'[n] IN
          r.host_signature =
            IF Countersigns
            THEN {countersignaturePayload(r.seq, r.host_ts, r.previous_hash, r.record_hash)}
            ELSE {}
      BY <3>1 DEF sealedRecord
    <3> QED
      BY <3>1, <3>2 DEF RecordsCountersigned
  <2> QED
    BY <2>1, <2>2, StepKind
<1> QED
  BY <1>1, <1>2, TypeCorrect, PTL DEF Spec

-----------------------------------------------------------------------------
(***************************************************************************)
(* The keys the records verify under.                                      *)
(***************************************************************************)

\* A key id that is registered stays registered, with the key it has.
LEMMA RegistryGrows ==
    ASSUME TypeOK, [Next]_vars, NEW k \in KeyIds, isRegistered(registry, k)
    PROVE  isRegistered(registry', k) /\ registry'[k].publicKey = registry[k].publicKey
<1>1. registry \in [KeyIds -> RegisteredKey \cup {NotRegistered}] /\ registry[k] \in RegisteredKey
  BY DEF TypeOK, EnvOK, KeyRegistryType, isRegistered
<1>2. CASE registry' = registry
  BY <1>2
<1>3. ASSUME NEW j \in KeyIds, NEW p \in PublicKeys, registerKey(j, p)
      PROVE  registry'[k] = registry[k]
  BY <1>1, <1>3 DEF registerKey, register, isRegistered
<1>4. ASSUME NEW j \in KeyIds, revokeKey(j)
      PROVE  isRegistered(registry', k) /\ registry'[k].publicKey = registry[k].publicKey
  <2>1. CASE j # k
    BY <1>1, <1>4, <2>1 DEF revokeKey, revoke, isRegistered
  <2>2. CASE j = k
    <3>1. registry'[k] = [publicKey |-> registry[k].publicKey, revoked |-> TRUE]
      BY <1>1, <1>4, <2>2 DEF revokeKey, revoke
    <3>2. registry'[k] \in RegisteredKey
      BY <1>1, <3>1 DEF RegisteredKey
    <3>3. NotRegistered \notin RegisteredKey
      BY NotRegisteredAssumption DEF RegisteredKey
    <3>4. registry'[k] # NotRegistered
      BY <3>2, <3>3
    <3> QED
      BY <3>1, <3>4 DEF isRegistered
  <2> QED
    BY <2>1, <2>2
<1>5. ASSUME NEW e \in Events, NEW arrivedOn, handleAttempt(e, arrivedOn)
      PROVE  registry' = registry
  BY <1>5 DEF handleAttempt, rejectInadmissible, rejectUnverified, answerFromLedger, rejectReplay,
     answerUnavailable, acceptAttempt, attemptSealThrows, envVars
<1>6. ASSUME NEW e \in Events, NEW arrivedOn, handleOutcome(e, arrivedOn)
      PROVE  registry' = registry
  BY <1>6 DEF handleOutcome, envVars
<1>7. CASE \/ UNCHANGED vars
           \/ \E s \in Sessions : openSession(s) \/ closeSession(s)
           \/ setUnavailable
           \/ \E id \in Ids, attempt \in BOOLEAN : handleMalformed(id, attempt)
  BY <1>7 DEF vars, openSession, closeSession, setUnavailable, handleMalformed, envVars
<1> QED
  BY <1>2, <1>3, <1>4, <1>5, <1>6, <1>7 DEF Next, isRegistered

\* Every record sealed at Level 2 names a key id the registry knows.
KeysAreKnown ==
    Level = "L2" => \A i \in DOMAIN ledger : ledger[i].event.key_id \in KeyIds

\* Every sealed Level-2 record verifies against the registry as it is now: a key
\* id binds one key for its lifetime, and revoking keeps the entry.
THEOREM StillVerifyTheorem == Spec => []RecordsStillVerify
<1>1. Init => RecordsStillVerify /\ KeysAreKnown
  BY DEF Init, InitWith, RecordsStillVerify, KeysAreKnown
<1>2. TypeOK /\ RecordsStillVerify /\ KeysAreKnown /\ [Next]_vars
      => RecordsStillVerify' /\ KeysAreKnown'
  <2> SUFFICES ASSUME TypeOK, RecordsStillVerify, KeysAreKnown, [Next]_vars, Level = "L2",
                      NEW i \in DOMAIN ledger'
               PROVE  LET f == ledger'[i].event IN
                      /\ f.key_id \in KeyIds
                      /\ isRegistered(registry', f.key_id)
                      /\ f.signed_by = get(registry', f.key_id).publicKey
    BY DEF RecordsStillVerify, KeysAreKnown, verifyEventSignature
  <2>1. ASSUME NEW f, f.key_id \in KeyIds, isRegistered(registry, f.key_id),
               f.signed_by = get(registry, f.key_id).publicKey
        PROVE  /\ isRegistered(registry', f.key_id)
               /\ f.signed_by = get(registry', f.key_id).publicKey
    BY <2>1, RegistryGrows DEF get
  <2>2. CASE i \in DOMAIN ledger /\ ledger'[i] = ledger[i]
    <3>1. /\ ledger[i].event.key_id \in KeyIds
          /\ isRegistered(registry, ledger[i].event.key_id)
          /\ ledger[i].event.signed_by = get(registry, ledger[i].event.key_id).publicKey
      BY <2>2 DEF RecordsStillVerify, KeysAreKnown, verifyEventSignature
    <3> QED
      BY <2>1, <2>2, <3>1
  <2>3. ASSUME NEW e \in Events, Seals(e), i = Len(ledger) + 1
        PROVE  LET f == ledger'[i].event IN
               /\ f.key_id \in KeyIds
               /\ isRegistered(registry', f.key_id)
               /\ f.signed_by = get(registry', f.key_id).publicKey
    <3>1. ledger'[i].event = e
      BY <2>3, SealsRecord
    <3>2. /\ e.key_id \in KeyIds /\ isRegistered(registry, e.key_id)
          /\ e.signed_by = get(registry, e.key_id).publicKey
      BY <2>3, VerifiedKey
         DEF Seals, SignatureVerifies, KnownKey, isCurrent, verifyEventSignature
    <3> QED
      BY <2>1, <3>1, <3>2
  <2>4. \A e \in Events : Seals(e) =>
           i = Len(ledger) + 1 \/ (i \in DOMAIN ledger /\ ledger'[i] = ledger[i])
    BY SealsAppends
  <2>5. SealsNothing => i \in DOMAIN ledger /\ ledger'[i] = ledger[i]
    BY DEF SealsNothing
  <2> QED
    BY <2>2, <2>3, <2>4, <2>5, StepKind
<1> QED
  BY <1>1, <1>2, TypeCorrect, PTL DEF Spec

-----------------------------------------------------------------------------
(***************************************************************************)
(* The replay window of AuditHost: no value is sealed twice, and what the  *)
(* end of a call flags.                                                    *)
(***************************************************************************)

\* The number of every record of an open session is decided.
SealedIsDecided ==
    Level = "L2" =>
      \A i \in DOMAIN ledger :
         LET e == ledger[i].event IN
         e.session_id \in sessions =>
            e.key_id \in KeyIds /\ e.signer_seq \in decided[e.session_id][e.key_id]

\* Sealing an event decides its number.
LEMMA SealsDecides ==
    ASSUME TypeOK, SealedIsDecided, NEW e \in Events, Seals(e)
    PROVE  SealedIsDecided'
<1> SUFFICES ASSUME Level = "L2", NEW i \in DOMAIN ledger', ledger'[i].event.session_id \in sessions'
             PROVE  LET f == ledger'[i].event IN
                    f.key_id \in KeyIds /\ f.signer_seq \in decided'[f.session_id][f.key_id]
  BY DEF SealedIsDecided
<1> DEFINE n == Len(ledger) + 1
<1>1. /\ DOMAIN ledger' = DOMAIN ledger \cup {n} /\ ledger'[n].event = e
      /\ \A j \in DOMAIN ledger : ledger'[j] = ledger[j]
  BY SealsAppends
<1> HIDE DEF n
<1>2. /\ e.key_id \in KeyIds /\ e.signer_seq \in decided'[e.session_id][e.key_id]
      /\ \A s \in Sessions, k \in KeyIds : decided[s][k] \subseteq decided'[s][k]
      /\ sessions' = sessions /\ sessions \subseteq Sessions
  BY VerifiedKey, DecideKeeps DEF Seals, TypeOK, SessionsOK
<1>3. CASE i = n
  BY <1>1, <1>2, <1>3
<1>4. CASE i \in DOMAIN ledger
  BY <1>1, <1>2, <1>4 DEF SealedIsDecided
<1> QED
  BY <1>1, <1>3, <1>4

\* An event is sealed at Level 2 only under a number no record of its window has.
LEMMA SealedNumberIsNew ==
    ASSUME TypeOK, SealedIsDecided, NEW e \in Events, Seals(e), Level = "L2",
           NEW i \in DOMAIN ledger, SameWindow(ledger[i].event, e)
    PROVE  ledger[i].event.signer_seq # e.signer_seq
<1>1. e.session_id \in sessions /\ e.signer_seq \notin decided[e.session_id][e.key_id]
  BY DEF Seals, FreshAttempt, FreshOutcome, alreadyDecided
<1> QED
  BY <1>1 DEF SealedIsDecided, SameWindow

\* No two records share a signer_seq within one key and one session, whatever is
\* retried, repeated, reordered or dropped, and however many sessions and keys.
THEOREM NoSharedSignerSeqTheorem == Spec => []NoSharedSignerSeq
<1>1. Init => SealedIsDecided /\ NoSharedSignerSeq
  BY DEF Init, InitWith, SealedIsDecided, NoSharedSignerSeq
<1>2. /\ TypeOK /\ BooksMatchLedger /\ SealedIsDecided /\ NoSharedSignerSeq
      /\ [Next]_vars
      => SealedIsDecided' /\ NoSharedSignerSeq'
  <2> SUFFICES ASSUME TypeOK, BooksMatchLedger, SealedIsDecided, NoSharedSignerSeq, [Next]_vars
               PROVE  SealedIsDecided' /\ NoSharedSignerSeq'
    OBVIOUS
  <2>1. CASE SealsNothing
    <3>1. NoSharedSignerSeq'
      BY <2>1 DEF SealsNothing, NoSharedSignerSeq, SameWindow
    <3>2. \A i \in DOMAIN ledger : ledger[i].event.session_id \in issued
      BY DEF BooksMatchLedger
    <3>3. SealedIsDecided'
      BY <2>1, <3>2 DEF SealsNothing, SealedIsDecided
    <3> QED
      BY <3>1, <3>3
  <2>2. ASSUME NEW e \in Events, Seals(e)
        PROVE  SealedIsDecided' /\ NoSharedSignerSeq'
    <3> DEFINE n == Len(ledger) + 1
    <3>1. /\ DOMAIN ledger' = DOMAIN ledger \cup {n} /\ ledger'[n].event = e
          /\ \A j \in DOMAIN ledger : ledger'[j] = ledger[j]
      BY <2>2, SealsAppends
    <3> HIDE DEF n
    <3>2. Level = "L2" => \A i \in DOMAIN ledger :
             SameWindow(ledger[i].event, e) => ledger[i].event.signer_seq # e.signer_seq
      BY <2>2, SealedNumberIsNew
    <3>3. NoSharedSignerSeq'
      BY <3>1, <3>2 DEF NoSharedSignerSeq, SameWindow
    <3> QED
      BY <2>2, <3>3, SealsDecides
  <2> QED
    BY <2>1, <2>2, StepKind
<1> QED
  BY <1>1, <1>2, TypeCorrect, BooksTheorem, PTL DEF Spec

-----------------------------------------------------------------------------

\* The end of a call flags as unresolved exactly the attempts sealed in it whose
\* terminal record is not.
THEOREM UnresolvedTheorem == Spec => UnresolvedAtEnd
<1> DEFINE Left(s) == {id \in Ids : /\ \E n \in AttemptRecords : OfOperation(n, s, id)
                                    /\ ~\E n \in TerminalRecords : OfOperation(n, s, id)}
           EndsFlagged == \A s \in sessions \ sessions' :
              anomalies' = {Anomaly(i, "unresolved-attempt", "unresolved") : i \in Left(s)}
<1>1. TypeOK /\ BooksMatchLedger /\ [Next]_vars => [EndsFlagged]_vars
  <2> SUFFICES ASSUME TypeOK, BooksMatchLedger, Next, NEW s \in sessions \ sessions'
               PROVE  anomalies' =
                        {Anomaly(i, "unresolved-attempt", "unresolved") : i \in Left(s)}
    BY DEF vars
  <2>1. PICK t \in Sessions : closeSession(t)
    <3>1. \A t \in Sessions : openSession(t) => sessions \subseteq sessions'
      BY DEF openSession
    <3>2. setUnavailable => sessions' = sessions
      BY DEF setUnavailable, sessionVars
    <3>3. \A k \in KeyIds : revokeKey(k) => sessions' = sessions
      BY DEF revokeKey, sessionVars
    <3>4. \A k \in KeyIds, p \in PublicKeys : registerKey(k, p) => sessions' = sessions
      BY DEF registerKey, sessionVars
    <3>5. \A id \in Ids, attempt \in BOOLEAN : handleMalformed(id, attempt) => sessions' = sessions
      BY DEF handleMalformed, sessionVars
    <3>6. \A e \in Events : \A c : handleOutcome(e, c) => sessions' = sessions
      BY DEF handleOutcome, sessionVars
    <3>7. \A e \in Events : \A c : handleAttempt(e, c) => sessions' = sessions
      BY DEF handleAttempt, rejectInadmissible, rejectUnverified, answerFromLedger, rejectReplay,
         answerUnavailable, acceptAttempt, attemptSealThrows, sessionVars
    <3> QED
      BY <3>1, <3>2, <3>3, <3>4, <3>5, <3>6, <3>7 DEF Next
  <2>2. t = s /\ s \in sessions
    BY <2>1 DEF closeSession, forgetSession
  <2>3. Unresolved(s) = Left(s)
    BY <2>2 DEF Unresolved, BooksMatchLedger, TypeOK, BooksOK, SessionsOK
  <2> QED
    BY <2>1, <2>2, <2>3 DEF closeSession
<1>2. [EndsFlagged]_vars => [\A s \in sessions \ sessions' :
         anomalies' = {Anomaly(i, "unresolved-attempt", "unresolved") :
              i \in {id \in Ids : /\ \E n \in AttemptRecords : OfOperation(n, s, id)
                                  /\ ~\E n \in TerminalRecords : OfOperation(n, s, id)}}]_vars
  OBVIOUS
<1> QED
  BY <1>1, <1>2, TypeCorrect, BooksTheorem, PTL DEF Spec, UnresolvedAtEnd

-----------------------------------------------------------------------------
(***************************************************************************)
(* The window is exact: every step seals an event and decides its number,  *)
(* refuses an event and decides its number, or leaves the numbers of the   *)
(* open sessions alone.                                                    *)
(***************************************************************************)

SealsNumber(e) == Seals(e) /\ UNCHANGED refused

RefusesNumber(e) ==
    /\ e.session_id \in sessions /\ SignatureVerifies(e)
    /\ decide(e)
    /\ refused' = IF alreadyDecided(e) THEN refused ELSE refused \cup {e}
    /\ UNCHANGED <<ledger, issued, sessions>>

KeepsNumbers ==
    /\ UNCHANGED ledger
    /\ \A s \in sessions' : (s \in sessions \/ s \notin issued) /\ decided'[s] = decided[s]
    /\ \A f \in refused : f.session_id \in sessions' => f \in refused'
    /\ \A f \in refused' : f \in refused /\ (f.session_id \in sessions => f.session_id \in sessions')

\* An attempt does one of the three.
LEMMA AttemptNumber ==
    ASSUME TypeOK, NEW e \in Events, NEW arrivedOn, handleAttempt(e, arrivedOn)
    PROVE  SealsNumber(e) \/ RefusesNumber(e) \/ KeepsNumbers
<1>1. Admitted(e, TRUE, arrivedOn) => e.session_id \in sessions /\ IsAttempt(e)
  BY DEF Admitted, NotInFlight, WrongChannel, IsAttempt
<1>2. CASE rejectInadmissible(e, arrivedOn)
  BY <1>2 DEF rejectInadmissible, KeepsNumbers, sessionVars, windowVars, sealVars, historyVars
<1>3. CASE rejectUnverified(e)
  BY <1>3 DEF rejectUnverified, KeepsNumbers, sessionVars, windowVars, sealVars, historyVars
<1>4. CASE answerFromLedger(e)
  BY <1>4 DEF answerFromLedger, KeepsNumbers, sessionVars, sealVars
<1>5. CASE Admitted(e, TRUE, arrivedOn) /\ SignatureVerifies(e) /\ rejectReplay(e)
  BY <1>1, <1>5 DEF rejectReplay, RefusesNumber, sessionVars, sealVars
<1>6. CASE answerUnavailable(e)
  BY <1>6 DEF answerUnavailable, KeepsNumbers, sessionVars, sealVars
<1>7. CASE Admitted(e, TRUE, arrivedOn) /\ SignatureVerifies(e) /\ acceptAttempt(e)
  BY <1>1, <1>7 DEF acceptAttempt, SealsNumber, Seals, markReceived, sessionVars
<1>8. CASE attemptSealThrows(e)
  BY <1>8 DEF attemptSealThrows, signerThrows, KeepsNumbers, sessionVars
<1> QED
  BY <1>2, <1>3, <1>4, <1>5, <1>6, <1>7, <1>8 DEF handleAttempt

\* So does an outcome.
LEMMA OutcomeNumber ==
    ASSUME TypeOK, NEW e \in Events, NEW arrivedOn, handleOutcome(e, arrivedOn)
    PROVE  SealsNumber(e) \/ RefusesNumber(e) \/ KeepsNumbers
<1>1. /\ Admitted(e, FALSE, arrivedOn) => e.session_id \in sessions /\ ~IsAttempt(e)
      /\ UNCHANGED <<issued, sessions>>
  BY DEF handleOutcome, Admitted, NotInFlight, WrongChannel, IsAttempt, sessionVars
<1>2. CASE dropInadmissible(e, arrivedOn)
  BY <1>1, <1>2 DEF dropInadmissible, KeepsNumbers, windowVars, sealVars, historyVars
<1>3. CASE dropUnverified(e)
  BY <1>1, <1>3 DEF dropUnverified, KeepsNumbers, windowVars, sealVars, historyVars
<1>4. CASE ignoreRepeat(e)
  BY <1>1, <1>4 DEF ignoreRepeat, KeepsNumbers, sealVars
<1>5. CASE Admitted(e, FALSE, arrivedOn) /\ SignatureVerifies(e) /\ dropReplay(e)
  BY <1>1, <1>5 DEF dropReplay, RefusesNumber, sealVars
<1>6. CASE Admitted(e, FALSE, arrivedOn) /\ SignatureVerifies(e) /\ dropOrphan(e)
  BY <1>1, <1>6 DEF dropOrphan, FreshOutcome, RefusesNumber, sealVars
<1>7. CASE dropUnavailable(e)
  BY <1>1, <1>7 DEF dropUnavailable, KeepsNumbers, sealVars
<1>8. CASE Admitted(e, FALSE, arrivedOn) /\ SignatureVerifies(e) /\ sealOutcome(e)
  BY <1>1, <1>8 DEF sealOutcome, SealsNumber, Seals, markReceived
<1>9. CASE outcomeSealThrows(e)
  BY <1>1, <1>9 DEF outcomeSealThrows, signerThrows, KeepsNumbers
<1> QED
  BY <1>2, <1>3, <1>4, <1>5, <1>6, <1>7, <1>8, <1>9 DEF handleOutcome

\* And every step of the host.
LEMMA StepNumber ==
    ASSUME TypeOK, [Next]_vars
    PROVE  (\E e \in Events : SealsNumber(e) \/ RefusesNumber(e)) \/ KeepsNumbers
<1>1. CASE UNCHANGED vars
  BY <1>1 DEF vars, KeepsNumbers
<1>2. CASE \E s \in Sessions : openSession(s)
  BY <1>2 DEF openSession, KeepsNumbers, windowVars, sealVars, historyVars
<1>3. ASSUME NEW s \in Sessions, closeSession(s)
      PROVE  KeepsNumbers
  <2>1. /\ ledger' = ledger /\ sessions' = sessions \ {s}
        /\ refused' = {f \in refused : f.session_id # s}
        /\ \A t \in Sessions \ {s} : decided'[t] = decided[t]
    BY <1>3 DEF closeSession, forgetSession, sealVars, TypeOK, WindowOK
  <2> QED
    BY <2>1 DEF KeepsNumbers, TypeOK, SessionsOK
<1>4. CASE \/ setUnavailable
           \/ \E k \in KeyIds : revokeKey(k) \/ \E p \in PublicKeys : registerKey(k, p)
           \/ \E id \in Ids, attempt \in BOOLEAN : handleMalformed(id, attempt)
  BY <1>4 DEF setUnavailable, revokeKey, registerKey, handleMalformed, KeepsNumbers,
     sessionVars, windowVars, sealVars, historyVars
<1> QED
  BY <1>1, <1>2, <1>3, <1>4, AttemptNumber, OutcomeNumber DEF Next

\* What the numbers of a window come from.
Spent(s, k, n) ==
    \/ \E i \in DOMAIN ledger :
          /\ ledger[i].event.session_id = s /\ ledger[i].event.key_id = k
          /\ ledger[i].event.signer_seq = n
    \/ \E f \in refused : f.session_id = s /\ f.key_id = k /\ f.signer_seq = n

\* The window of every open session holds the numbers spent, and what was refused
\* is remembered of open sessions only.
SpentIsDecided ==
    /\ \A f \in refused : f.session_id \in sessions
    /\ Level = "L2" =>
         \A s \in sessions, k \in KeyIds : \A n \in Nat : n \in decided[s][k] <=> Spent(s, k, n)

\* No step lets the window and the numbers spent come apart.
LEMMA SpentStep ==
    ASSUME TypeOK, BooksMatchLedger, SpentIsDecided, [Next]_vars
    PROVE  SpentIsDecided'
<1>1. TypeOK' /\ sessions \subseteq Sessions /\ sessions' \subseteq Sessions
  BY TypeStep DEF TypeOK, SessionsOK
<1>2. ASSUME NEW e \in Events, SealsNumber(e)
      PROVE  SpentIsDecided'
  <2> DEFINE m == Len(ledger) + 1
  <2>1. /\ DOMAIN ledger' = DOMAIN ledger \cup {m} /\ ledger'[m].event = e
        /\ \A i \in DOMAIN ledger : ledger'[i] = ledger[i]
    BY <1>2, SealsAppends DEF SealsNumber
  <2> HIDE DEF m
  <2>2. refused' = refused /\ sessions' = sessions /\ e.session_id \in sessions
    BY <1>2 DEF SealsNumber, Seals
  <2>3. \A s \in sessions, k \in KeyIds : \A n \in Nat :
           Spent(s, k, n)' <=>
             Spent(s, k, n) \/ (s = e.session_id /\ k = e.key_id /\ n = e.signer_seq)
    BY <2>1, <2>2 DEF Spent
  <2>4. ASSUME Level = "L2"
        PROVE  \A s \in sessions, k \in KeyIds : \A n \in Nat :
           n \in decided'[s][k] <=>
             n \in decided[s][k] \/ (s = e.session_id /\ k = e.key_id /\ n = e.signer_seq)
    BY <1>1, <1>2, <2>4, VerifiedKey DEF SealsNumber, Seals, decide, TypeOK, WindowOK
  <2> QED
    BY <2>2, <2>3, <2>4 DEF SpentIsDecided
<1>3. ASSUME NEW e \in Events, RefusesNumber(e)
      PROVE  SpentIsDecided'
  <2>1. ledger' = ledger /\ sessions' = sessions /\ e.session_id \in sessions
    BY <1>3 DEF RefusesNumber
  <2>2. ASSUME Level = "L2"
        PROVE  \A s \in sessions, k \in KeyIds : \A n \in Nat :
           n \in decided'[s][k] <=>
             n \in decided[s][k] \/ (s = e.session_id /\ k = e.key_id /\ n = e.signer_seq)
    BY <1>1, <1>3, <2>2, VerifiedKey DEF RefusesNumber, decide, TypeOK, WindowOK
  <2>3. CASE alreadyDecided(e)
    <3>1. refused' = refused
      BY <1>3, <2>3 DEF RefusesNumber
    <3>2. \A s \in sessions, k \in KeyIds : \A n \in Nat : Spent(s, k, n)' <=> Spent(s, k, n)
      BY <2>1, <3>1 DEF Spent
    <3> QED
      BY <2>1, <2>2, <2>3, <3>1, <3>2 DEF SpentIsDecided, alreadyDecided
  <2>4. CASE ~alreadyDecided(e)
    <3>1. refused' = refused \cup {e}
      BY <1>3, <2>4 DEF RefusesNumber
    <3>2. \A s \in sessions, k \in KeyIds : \A n \in Nat :
             Spent(s, k, n)' <=>
               Spent(s, k, n) \/ (s = e.session_id /\ k = e.key_id /\ n = e.signer_seq)
      BY <2>1, <3>1 DEF Spent
    <3> QED
      BY <2>1, <2>2, <3>1, <3>2 DEF SpentIsDecided
  <2> QED
    BY <2>3, <2>4
<1>4. CASE KeepsNumbers
  <2>1. \A f \in refused' : f.session_id \in sessions'
    BY <1>4 DEF KeepsNumbers, SpentIsDecided
  <2>2. ASSUME Level = "L2", NEW s \in sessions', NEW k \in KeyIds, NEW n \in Nat
        PROVE  n \in decided'[s][k] <=> Spent(s, k, n)'
    <3>1. Spent(s, k, n)' <=> Spent(s, k, n)
      BY <1>4, <2>2 DEF KeepsNumbers, Spent
    <3>2. CASE s \in sessions
      BY <1>4, <2>2, <3>1, <3>2 DEF KeepsNumbers, SpentIsDecided
    <3>3. CASE s \notin sessions
      <4>1. s \in Sessions /\ s \notin issued /\ decided'[s] = decided[s]
        BY <1>1, <1>4, <2>2, <3>3 DEF KeepsNumbers
      <4>2. decided[s][k] = {}
        BY <2>2, <3>3, <4>1 DEF TypeOK, EndedIsForgotten
      <4>3. ~Spent(s, k, n)
        BY <3>3, <4>1 DEF Spent, BooksMatchLedger, SpentIsDecided
      <4> QED
        BY <3>1, <4>1, <4>2, <4>3
    <3> QED
      BY <3>2, <3>3
  <2> QED
    BY <2>1, <2>2 DEF SpentIsDecided
<1> QED
  BY <1>2, <1>3, <1>4, StepNumber

\* The window of an open session holds exactly the numbers it should.
LEMMA SpentCorrect == Spec => []SpentIsDecided
<1>1. Init => SpentIsDecided
  BY DEF Init, InitWith, SpentIsDecided
<1>2. TypeOK /\ BooksMatchLedger /\ SpentIsDecided /\ [Next]_vars => SpentIsDecided'
  BY SpentStep
<1> QED
  BY <1>1, <1>2, TypeCorrect, BooksTheorem, PTL DEF Spec

\* The replay window is exact: a value is decided if and only if a record was
\* sealed under it or an event that verified was refused under it.  Neither
\* `unavailable`, nor a dropped outcome, nor a throwing countersigner, nor an
\* idempotent repeat uses a number up.
THEOREM WindowTheorem == Spec => []WindowIsExact
<1>1. TypeOK /\ SpentIsDecided => WindowIsExact
  <2> SUFFICES ASSUME TypeOK, SpentIsDecided, Level = "L2", NEW s \in sessions, NEW k \in KeyIds
               PROVE  decided[s][k] = {e.signer_seq : e \in {f \in SealedEvents \cup refused :
                                                 f.session_id = s /\ f.key_id = k}}
    BY DEF WindowIsExact
  <2>1. decided[s][k] \subseteq Nat
    BY DEF TypeOK, WindowOK, SessionsOK
  <2>2. \A e \in SealedEvents \cup refused : e.signer_seq \in Nat
    BY RecordedEvents, EventFields DEF SealedEvents, TypeOK, HistoryOK
  <2>3. \A n \in Nat : n \in decided[s][k] <=> Spent(s, k, n)
    BY DEF SpentIsDecided
  <2>4. \A n \in Nat : Spent(s, k, n) <=>
           \E e \in SealedEvents \cup refused :
              e.session_id = s /\ e.key_id = k /\ e.signer_seq = n
    BY DEF Spent, SealedEvents
  <2> QED
    BY <2>1, <2>2, <2>3, <2>4
<1> QED
  BY <1>1, TypeCorrect, SpentCorrect, PTL

\* What a Level-2 host has refused stays refused, however often it comes again.
THEOREM RefusedTheorem == Spec => RefusedStaysRefused
<1>1. TypeOK /\ SpentIsDecided /\ [Next]_vars
      => (Level = "L2" /\ ledger' # ledger => ledger'[Len(ledger')].event \notin refused)
  <2> SUFFICES ASSUME TypeOK, SpentIsDecided, [Next]_vars, Level = "L2", ledger' # ledger
               PROVE  ledger'[Len(ledger')].event \notin refused
    OBVIOUS
  <2>1. PICK e \in Events : Seals(e)
    BY StepKind DEF SealsNothing
  <2>2. ledger'[Len(ledger')].event = e
    <3>1. Len(ledger') = Len(ledger) + 1
      BY <2>1, SealKeeps DEF Seals, TypeOK
    <3> QED
      BY <2>1, <3>1, SealsAppends
  <2>3. /\ e.session_id \in sessions /\ e.key_id \in KeyIds /\ e.signer_seq \in Nat
        /\ e.signer_seq \notin decided[e.session_id][e.key_id]
    BY <2>1, VerifiedKey, EventFields DEF Seals, FreshAttempt, FreshOutcome, alreadyDecided
  <2> QED
    BY <2>2, <2>3 DEF SpentIsDecided, Spent
<1> QED
  BY <1>1, TypeCorrect, SpentCorrect, PTL DEF Spec, RefusedStaysRefused

-----------------------------------------------------------------------------
(***************************************************************************)
(* The gaps AuditHost flags: the one number it keeps per key and session   *)
(* says as much as all the events that verified.                           *)
(***************************************************************************)

InWindow(f, s, k) == f.session_id = s /\ f.key_id = k

\* The highest value received is that of an event that verified, and no event
\* that verified has a higher one.
HighestReceived ==
    Level = "L2" =>
      \A s \in Sessions, k \in KeyIds :
         /\ \A f \in verified : InWindow(f, s, k) => f.signer_seq <= received[s][k]
         /\ \/ received[s][k] = NoneReceived
            \/ \E f \in verified : InWindow(f, s, k) /\ f.signer_seq = received[s][k]

GapAnomaly(e) == Anomaly(e.id, "signer-seq-gap", "gap")

\* An event verifies, and a gap is flagged if it skips ahead.
Receives(e) ==
    /\ e.session_id \in Sessions /\ SignatureVerifies(e)
    /\ markReceived(e)
    /\ GapAnomaly(e) \in anomalies' <=> SkipsAhead(e)

\* Nothing verifies; a session may be forgotten.
ReceivesNothing ==
    /\ verified' \subseteq verified
    /\ \A s \in Sessions :
          \/ /\ received'[s] = received[s]
             /\ \A f \in verified : f.session_id = s => f \in verified'
          \/ /\ received'[s] = [k \in KeyIds |-> NoneReceived]
             /\ \A f \in verified' : f.session_id # s

\* The flags a handler raises beside the gap are of other kinds.
LEMMA OtherFlags ==
    ASSUME NEW e \in Events
    PROVE  /\ GapAnomaly(e) \in gapFlag(e) <=> SkipsAhead(e)
           /\ \A detail : \A kind \in AnomalyKinds \ {"signer-seq-gap"} :
                 GapAnomaly(e) # Anomaly(e.id, kind, detail)
BY DEF gapFlag, GapAnomaly, Anomaly

\* An attempt counts as received once its signature verifies, however it is
\* answered.
LEMMA AttemptReceives ==
    ASSUME TypeOK, NEW e \in Events, NEW arrivedOn, handleAttempt(e, arrivedOn)
    PROVE  Receives(e) \/ ReceivesNothing
<1>1. e.session_id \in Sessions
  BY EventFields
<1>2. CASE rejectInadmissible(e, arrivedOn)
  BY <1>2 DEF rejectInadmissible, ReceivesNothing, windowVars, historyVars
<1>3. CASE rejectUnverified(e)
  BY <1>3 DEF rejectUnverified, ReceivesNothing, windowVars, historyVars
<1>4. CASE SignatureVerifies(e) /\ rejectReplay(e)
  <2>1. GapAnomaly(e) # Anomaly(e.id, "replay-detected", ReplayDetail(e))
    BY OtherFlags DEF AnomalyKinds
  <2>2. GapAnomaly(e) \in anomalies' <=> GapAnomaly(e) \in gapFlag(e)
    BY <1>4, <2>1 DEF rejectReplay
  <2> QED
    BY <1>1, <1>4, <2>2, OtherFlags DEF rejectReplay, Receives
<1>5. CASE /\ SignatureVerifies(e)
           /\ \/ answerFromLedger(e) \/ answerUnavailable(e)
              \/ acceptAttempt(e) \/ attemptSealThrows(e)
  <2>1. markReceived(e) /\ anomalies' = gapFlag(e)
    BY <1>5 DEF answerFromLedger, answerUnavailable, acceptAttempt, attemptSealThrows
  <2> QED
    BY <1>1, <1>5, <2>1, OtherFlags DEF Receives
<1> QED
  BY <1>2, <1>3, <1>4, <1>5 DEF handleAttempt

\* So does an outcome.
LEMMA OutcomeReceives ==
    ASSUME TypeOK, NEW e \in Events, NEW arrivedOn, handleOutcome(e, arrivedOn)
    PROVE  Receives(e) \/ ReceivesNothing
<1>1. e.session_id \in Sessions
  BY EventFields
<1>2. CASE dropInadmissible(e, arrivedOn)
  BY <1>2 DEF dropInadmissible, ReceivesNothing, windowVars, historyVars
<1>3. CASE dropUnverified(e)
  BY <1>3 DEF dropUnverified, ReceivesNothing, windowVars, historyVars
<1>4. CASE SignatureVerifies(e) /\ dropReplay(e)
  <2> DEFINE other == Anomaly(e.id, "replay-detected",
                              IF Concluded(e) THEN "correlation" ELSE "sequence")
  <2>1. GapAnomaly(e) # other
    BY OtherFlags DEF AnomalyKinds
  <2>2. anomalies' = gapFlag(e) \cup {other}
    BY <1>4 DEF dropReplay
  <2> HIDE DEF other
  <2> QED
    BY <1>1, <1>4, <2>1, <2>2, OtherFlags DEF dropReplay, Receives
<1>5. CASE SignatureVerifies(e) /\ dropOrphan(e)
  <2> DEFINE other == Anomaly(e.id, "orphaned-outcome",
                  IF e.id \in rejected[e.session_id] THEN "after-reject" ELSE "never-accepted")
  <2>1. GapAnomaly(e) # other
    BY OtherFlags DEF AnomalyKinds
  <2>2. anomalies' = gapFlag(e) \cup {other}
    BY <1>5 DEF dropOrphan
  <2> HIDE DEF other
  <2> QED
    BY <1>1, <1>5, <2>1, <2>2, OtherFlags DEF dropOrphan, Receives
<1>6. CASE /\ SignatureVerifies(e)
           /\ \/ ignoreRepeat(e) \/ dropUnavailable(e)
              \/ sealOutcome(e) \/ outcomeSealThrows(e)
  <2>1. markReceived(e) /\ anomalies' = gapFlag(e)
    BY <1>6 DEF ignoreRepeat, dropUnavailable, sealOutcome, outcomeSealThrows
  <2> QED
    BY <1>1, <1>6, <2>1, OtherFlags DEF Receives
<1> QED
  BY <1>2, <1>3, <1>4, <1>5, <1>6 DEF handleOutcome

\* Every step receives one event or nothing.
LEMMA StepReceives ==
    ASSUME TypeOK, [Next]_vars
    PROVE  (\E e \in Events : Receives(e)) \/ ReceivesNothing
<1>1. CASE UNCHANGED vars
  BY <1>1 DEF vars, ReceivesNothing
<1>2. CASE \E s \in Sessions : openSession(s)
  BY <1>2 DEF openSession, ReceivesNothing, windowVars, historyVars
<1>3. ASSUME NEW s \in Sessions, closeSession(s)
      PROVE  ReceivesNothing
  <2>1. /\ received' = [received EXCEPT ![s] = [k \in KeyIds |-> NoneReceived]]
        /\ verified' = {f \in verified : f.session_id # s}
    BY <1>3 DEF closeSession, forgetSession
  <2>2. /\ received'[s] = [k \in KeyIds |-> NoneReceived]
        /\ \A t \in Sessions \ {s} : received'[t] = received[t]
    BY <1>3, <2>1 DEF TypeOK, WindowOK
  <2> QED
    BY <2>1, <2>2 DEF ReceivesNothing
<1>4. CASE \/ setUnavailable
           \/ \E k \in KeyIds : revokeKey(k) \/ \E p \in PublicKeys : registerKey(k, p)
           \/ \E id \in Ids, attempt \in BOOLEAN : handleMalformed(id, attempt)
  BY <1>4 DEF setUnavailable, revokeKey, registerKey, handleMalformed, ReceivesNothing,
     windowVars, historyVars
<1> QED
  BY <1>1, <1>2, <1>3, <1>4, AttemptReceives, OutcomeReceives DEF Next

\* The highest value received is kept right.
LEMMA HighestStep ==
    ASSUME TypeOK, HighestReceived, [Next]_vars
    PROVE  HighestReceived'
<1> SUFFICES ASSUME Level = "L2", NEW s \in Sessions, NEW k \in KeyIds
             PROVE  /\ \A f \in verified' : InWindow(f, s, k) => f.signer_seq <= received'[s][k]
                    /\ \/ received'[s][k] = NoneReceived
                       \/ \E f \in verified' :
                             InWindow(f, s, k) /\ f.signer_seq = received'[s][k]
  BY DEF HighestReceived, InWindow
<1>1. /\ received[s][k] \in Nat \cup {NoneReceived}
      /\ received \in [Sessions -> [KeyIds -> Nat \cup {NoneReceived}]]
      /\ \A f \in verified : f.signer_seq \in Nat
  BY EventFields DEF TypeOK, WindowOK, HistoryOK
<1>2. /\ \A f \in verified : InWindow(f, s, k) => f.signer_seq <= received[s][k]
      /\ \/ received[s][k] = NoneReceived
         \/ \E f \in verified : InWindow(f, s, k) /\ f.signer_seq = received[s][k]
  BY DEF HighestReceived
<1>3. ASSUME NEW e \in Events, Receives(e)
      PROVE  /\ \A f \in verified' : InWindow(f, s, k) => f.signer_seq <= received'[s][k]
             /\ \/ received'[s][k] = NoneReceived
                \/ \E f \in verified' : InWindow(f, s, k) /\ f.signer_seq = received'[s][k]
  <2>1. /\ e.session_id \in Sessions /\ e.key_id \in KeyIds /\ e.signer_seq \in Nat
        /\ verified' = verified \cup {e}
    BY <1>3, VerifiedKey, EventFields DEF Receives, markReceived
  <2>2. CASE InWindow(e, s, k)
    <3>1. received'[s][k] = IF e.signer_seq > received[s][k] THEN e.signer_seq
                                                            ELSE received[s][k]
      BY <1>1, <1>3, <2>1, <2>2 DEF Receives, markReceived, InWindow
    <3> QED
      BY <1>1, <1>2, <2>1, <2>2, <3>1 DEF NoneReceived
  <2>3. CASE ~InWindow(e, s, k)
    <3>1. received'[s][k] = received[s][k]
      BY <1>1, <1>3, <2>1, <2>3 DEF Receives, markReceived, InWindow
    <3> QED
      BY <1>2, <2>1, <2>3, <3>1
  <2> QED
    BY <2>2, <2>3
<1>4. CASE ReceivesNothing
  BY <1>2, <1>4 DEF ReceivesNothing, InWindow
<1> QED
  BY <1>3, <1>4, StepReceives

\* A signer_seq gap is flagged the moment it opens and only then.
THEOREM GapTheorem == Spec => GapsAreFlagged
<1> DEFINE Opens(e) == \E m \in 0..(e.signer_seq - 1) :
                          \A f \in verified : SameWindow(e, f) => f.signer_seq < m
           Flagged == \A e \in verified' \ verified :
                         Level = "L2" =>
                           (Anomaly(e.id, "signer-seq-gap", "gap") \in anomalies' <=> Opens(e))
<1>1. Init => HighestReceived
  BY DEF Init, InitWith, HighestReceived
<1>2. TypeOK /\ HighestReceived /\ [Next]_vars => HighestReceived'
  BY HighestStep
<1>3. TypeOK /\ HighestReceived /\ [Next]_vars => Flagged
  <2> SUFFICES ASSUME TypeOK, HighestReceived, [Next]_vars, Level = "L2",
                      NEW e \in verified', e \notin verified
               PROVE  GapAnomaly(e) \in anomalies' <=> Opens(e)
    BY DEF GapAnomaly
  <2>1. e \in Events /\ Receives(e)
    BY StepReceives DEF Receives, ReceivesNothing, markReceived
  <2> DEFINE highest == received[e.session_id][e.key_id]
  <2>2. /\ e.session_id \in Sessions /\ e.key_id \in KeyIds /\ e.signer_seq \in Nat
        /\ highest \in Nat \cup {NoneReceived}
        /\ \A f \in verified : f.signer_seq \in Nat
    BY <2>1, VerifiedKey, EventFields DEF Receives, TypeOK, WindowOK, HistoryOK
  <2>3. /\ \A f \in verified : SameWindow(e, f) => f.signer_seq <= highest
        /\ highest = NoneReceived
             \/ \E f \in verified : SameWindow(e, f) /\ f.signer_seq = highest
    BY <2>2 DEF HighestReceived, InWindow, SameWindow
  <2>4. GapAnomaly(e) \in anomalies' <=> e.signer_seq > highest + 1
    BY <2>1 DEF Receives, SkipsAhead
  <2> HIDE DEF highest
  <2>5. ASSUME e.signer_seq > highest + 1
        PROVE  Opens(e)
    <3>1. highest + 1 \in 0..(e.signer_seq - 1)
      BY <2>2, <2>5 DEF NoneReceived
    <3>2. \A f \in verified : SameWindow(e, f) => f.signer_seq < highest + 1
      BY <2>2, <2>3 DEF NoneReceived
    <3> QED
      BY <3>1, <3>2
  <2>6. ASSUME NEW m \in 0..(e.signer_seq - 1),
               \A f \in verified : SameWindow(e, f) => f.signer_seq < m
        PROVE  e.signer_seq > highest + 1
    <3>1. m \in Nat /\ m <= e.signer_seq - 1
      BY <2>2, <2>6
    <3>2. highest < m
      BY <2>2, <2>3, <2>6, <3>1 DEF NoneReceived
    <3> QED
      BY <2>2, <3>1, <3>2 DEF NoneReceived
  <2> QED
    BY <2>4, <2>5, <2>6
<1>4. Spec => [][Flagged]_vars
  BY <1>1, <1>2, <1>3, TypeCorrect, PTL DEF Spec
<1> QED
  BY <1>4 DEF GapsAreFlagged

-----------------------------------------------------------------------------
(***************************************************************************)
(* What a lost answer costs: an event that is sealed may come again.       *)
(***************************************************************************)

\* A call that leaves the host as it was, and raises no alarm.
ChangesNothing ==
    /\ UNCHANGED <<sessionVars, windowVars, bookVars, sealVars, envVars, historyVars>>
    /\ anomalies' = {}

\* The event of the record arrives once more, verifies and is let in.
RepeatedAttempt(record, arrivedOn) ==
    SignatureVerifies(record.event) /\ Admitted(record.event, TRUE, arrivedOn)
    /\ handleAttempt(record.event, arrivedOn)

RepeatedOutcome(record, arrivedOn) ==
    SignatureVerifies(record.event) /\ Admitted(record.event, FALSE, arrivedOn)
    /\ handleOutcome(record.event, arrivedOn)

RepeatIsHarmless(record, arrivedOn) ==
    /\ RepeatedAttempt(record, arrivedOn) =>
          ChangesNothing /\ answer' = Reply(record.event, Accept(record))
    /\ RepeatedOutcome(record, arrivedOn) => ChangesNothing /\ answer' = NoReply

\* A byte-identical repeat of an event that is sealed, if its session is open and it
\* still verifies, changes nothing: nothing is sealed, decided, booked or flagged, and
\* an attempt gets the answer made of its own record.  However long ago it was sealed,
\* whatever came in between and whether or not the host can seal now.
RepeatsChangeNothing ==
    [][\A n \in DOMAIN ledger :
          \A arrivedOn \in {{ledger[n].event.session_id}, {}} :
             RepeatIsHarmless(ledger[n], arrivedOn)]_vars

\* The host knows what it sealed: each attempt with its response, and of the open
\* sessions that each event verified, and each terminal outcome.
SealedIsKnown ==
    \A n \in DOMAIN ledger :
       LET e == ledger[n].event IN
       /\ IsAttempt(e) =>
             sealedAttempts[e.id] = [canonical |-> e, response |-> Accept(ledger[n])]
       /\ e.session_id \in sessions =>
             /\ e \in verified
             /\ ~IsAttempt(e) => outcomes[e.session_id][e.id] = e

\* No step makes the host forget what it sealed.
LEMMA KnownStep ==
    ASSUME TypeOK, BooksMatchLedger, SealedIsKnown, [Next]_vars
    PROVE  SealedIsKnown'
<1>1. ASSUME NEW f \in Events, Seals(f)
      PROVE  SealedIsKnown'
  <2> DEFINE last == Len(ledger) + 1
  <2>1. /\ DOMAIN ledger' = DOMAIN ledger \cup {last} /\ last \notin DOMAIN ledger
        /\ \A i \in DOMAIN ledger : ledger'[i] = ledger[i]
        /\ ledger'[last].event = f /\ Len(ledger') = last
    BY <1>1, SealsAppends, SealsRecord
  <2> HIDE DEF last
  <2>2. /\ sessions' = sessions /\ verified' = verified \cup {f}
        /\ f.session_id \in Sessions /\ f.id \in Ids
    BY <1>1, EventFields DEF Seals
  <2>3. CASE IsAttempt(f)
    <3>1. /\ sealedAttempts'[f.id] = [canonical |-> f, response |-> Accept(ledger'[last])]
          /\ \A id \in Ids : id # f.id => sealedAttempts'[id] = sealedAttempts[id]
          /\ outcomes' = outcomes
      BY <1>1, <2>1, <2>3, SealsIndex DEF Seals
    <3>2. \A i \in AttemptRecords : ledger[i].event.id # f.id
      BY <1>1, <2>3, FreshAttemptIsNew
    <3>3. \A i \in DOMAIN ledger :
             IsAttempt(ledger[i].event) => ledger[i].event.id # f.id /\ ledger[i].event.id \in Ids
      BY <3>2, RecordedEvents DEF AttemptRecords, IsAttempt
    <3> QED
      BY <2>1, <2>2, <2>3, <3>1, <3>3 DEF SealedIsKnown
  <2>4. CASE ~IsAttempt(f)
    <3>1. /\ outcomes' = [outcomes EXCEPT ![f.session_id][f.id] = f]
          /\ sealedAttempts' = sealedAttempts
      BY <1>1, <2>4 DEF Seals
    <3>2. /\ outcomes'[f.session_id][f.id] = f
          /\ \A s \in Sessions, id \in Ids :
                s # f.session_id \/ id # f.id => outcomes'[s][id] = outcomes[s][id]
      BY <2>2, <3>1 DEF TypeOK, BooksOK
    <3>3. \A i \in TerminalRecords : ~SameOperation(ledger[i].event, f)
      BY <1>1, <2>4, FreshOutcomeIsNew
    <3>4. \A i \in DOMAIN ledger :
             /\ ledger[i].event.session_id \in Sessions /\ ledger[i].event.id \in Ids
             /\ ~IsAttempt(ledger[i].event) =>
                   ledger[i].event.session_id # f.session_id \/ ledger[i].event.id # f.id
      BY <3>3, RecordedEvents DEF TerminalRecords, IsAttempt, SameOperation
    <3> QED
      BY <2>1, <2>2, <2>4, <3>1, <3>2, <3>4 DEF SealedIsKnown
  <2> QED
    BY <2>3, <2>4
<1>2. CASE SealsNothing
  <2>1. /\ UNCHANGED <<ledger, sealedAttempts>>
        /\ \A s \in sessions' :
              /\ s \in sessions \/ s \notin issued
              /\ outcomes'[s] = outcomes[s]
              /\ \A e \in verified : e.session_id = s => e \in verified'
    BY <1>2 DEF SealsNothing
  <2>2. \A i \in DOMAIN ledger : ledger[i].event.session_id \in issued
    BY DEF BooksMatchLedger
  <2> QED
    BY <2>1, <2>2 DEF SealedIsKnown
<1> QED
  BY <1>1, <1>2, StepKind

\* What verified before is not received again.
LEMMA ReceivedBefore ==
    ASSUME TypeOK, HighestReceived, NEW e \in Events, e \in verified, SignatureVerifies(e),
           markReceived(e)
    PROVE  UNCHANGED <<received, verified>> /\ gapFlag(e) = {}
<1>1. CASE Level # "L2"
  BY <1>1 DEF markReceived, gapFlag, SkipsAhead
<1>2. CASE Level = "L2"
  <2>1. /\ e.session_id \in Sessions /\ e.key_id \in KeyIds /\ e.signer_seq \in Nat
        /\ received[e.session_id][e.key_id] \in Nat \cup {NoneReceived}
    BY <1>2, VerifiedKey, EventFields DEF TypeOK, WindowOK
  <2>2. e.signer_seq <= received[e.session_id][e.key_id]
    BY <1>2, <2>1 DEF HighestReceived, InWindow
  <2>3. /\ ~(e.signer_seq > received[e.session_id][e.key_id])
        /\ ~(e.signer_seq > received[e.session_id][e.key_id] + 1)
    BY <2>1, <2>2 DEF NoneReceived
  <2> QED
    BY <2>3 DEF markReceived, gapFlag, SkipsAhead
<1> QED
  BY <1>1, <1>2

\* A byte-identical repeat of a sealed event changes nothing, and a repeated attempt is
\* answered with its own record.
THEOREM RepeatTheorem == Spec => RepeatsChangeNothing
<1> DEFINE AllRepeat == \A n \in DOMAIN ledger :
                           \A arrivedOn \in {{ledger[n].event.session_id}, {}} :
                              RepeatIsHarmless(ledger[n], arrivedOn)
<1>1. Init => SealedIsKnown /\ HighestReceived
  BY DEF Init, InitWith, SealedIsKnown, HighestReceived
<1>2. TypeOK /\ BooksMatchLedger /\ SealedIsKnown /\ HighestReceived /\ [Next]_vars
      => SealedIsKnown' /\ HighestReceived'
  BY KnownStep, HighestStep
<1>3. TypeOK /\ SealedIsKnown /\ HighestReceived => AllRepeat
  <2> SUFFICES ASSUME TypeOK, SealedIsKnown, HighestReceived,
                      NEW n \in DOMAIN ledger, NEW arrivedOn
               PROVE  RepeatIsHarmless(ledger[n], arrivedOn)
    OBVIOUS
  <2> DEFINE e == ledger[n].event
             r == Accept(ledger[n])
  <2>1. e \in Events
    BY RecordedEvents
  <2>2. /\ IsAttempt(e) => sealedAttempts[e.id] = [canonical |-> e, response |-> r]
        /\ e.session_id \in sessions =>
              e \in verified /\ (~IsAttempt(e) => outcomes[e.session_id][e.id] = e)
    BY DEF SealedIsKnown
  <2>3. e # Nothing
    BY <2>1, NothingAssumption
  <2>4. IsAttempt(e) => sealedAttempts[e.id] # Nothing
    <3>1. ledger[n] \in SealedRecords(Events)
      BY DEF TypeOK, SealedOK
    <3>2. r \in Responses
      BY <2>1, <3>1, AnswersTyped
    <3> HIDE DEF e, r
    <3> QED
      BY <2>1, <2>2, <3>2, NothingAssumption DEF SealedAttempts
  <2>5. /\ RepeatedAttempt(ledger[n], arrivedOn) <=>
              SignatureVerifies(e) /\ Admitted(e, TRUE, arrivedOn) /\ handleAttempt(e, arrivedOn)
        /\ RepeatedOutcome(ledger[n], arrivedOn) <=>
              SignatureVerifies(e) /\ Admitted(e, FALSE, arrivedOn) /\ handleOutcome(e, arrivedOn)
    BY DEF RepeatedAttempt, RepeatedOutcome
  <2> HIDE DEF e, r
  <2>6. ASSUME RepeatedAttempt(ledger[n], arrivedOn)
        PROVE  ChangesNothing /\ answer' = Reply(e, r)
    <3>1. SignatureVerifies(e) /\ Admitted(e, TRUE, arrivedOn) /\ handleAttempt(e, arrivedOn)
      BY <2>5, <2>6
    <3>2. IsAttempt(e) /\ e.session_id \in sessions
      BY <3>1 DEF Admitted, NotInFlight, WrongChannel, IsAttempt
    <3>3. AttemptSealed(e) /\ SameAttempt(e) /\ sealedAttempts[e.id].response = r
      BY <2>2, <2>4, <3>2 DEF AttemptSealed, SameAttempt
    <3>4. answerFromLedger(e)
      BY <2>3, <3>1, <3>3 DEF handleAttempt, rejectInadmissible, rejectUnverified, rejectReplay,
         ReplayedAttempt, answerUnavailable, acceptAttempt, attemptSealThrows, FreshAttempt
    <3>5. UNCHANGED <<received, verified>> /\ gapFlag(e) = {}
      BY <2>1, <2>2, <3>1, <3>2, <3>4, ReceivedBefore DEF answerFromLedger
    <3> QED
      BY <3>3, <3>4, <3>5 DEF ChangesNothing, answerFromLedger, windowVars, historyVars
  <2>7. ASSUME RepeatedOutcome(ledger[n], arrivedOn)
        PROVE  ChangesNothing /\ answer' = NoReply
    <3>1. SignatureVerifies(e) /\ Admitted(e, FALSE, arrivedOn) /\ handleOutcome(e, arrivedOn)
      BY <2>5, <2>7
    <3>2. ~IsAttempt(e) /\ e.session_id \in sessions
      BY <3>1 DEF Admitted, NotInFlight, WrongChannel, IsAttempt
    <3>3. Concluded(e) /\ SameOutcome(e)
      BY <2>2, <2>3, <3>2 DEF Concluded, SameOutcome
    <3>4. ignoreRepeat(e) /\ answer' = NoReply /\ UNCHANGED <<sessionVars, envVars>>
      BY <2>3, <3>1, <3>3 DEF handleOutcome, dropInadmissible, dropUnverified, dropReplay,
         ReplayedOutcome, dropOrphan, dropUnavailable, sealOutcome, outcomeSealThrows, FreshOutcome
    <3>5. UNCHANGED <<received, verified>> /\ gapFlag(e) = {}
      BY <2>1, <2>2, <3>1, <3>2, <3>4, ReceivedBefore DEF ignoreRepeat
    <3> QED
      BY <3>4, <3>5 DEF ChangesNothing, ignoreRepeat, windowVars, historyVars
  <2> QED
    BY <2>6, <2>7 DEF RepeatIsHarmless, e, r
<1>4. Spec => [][AllRepeat]_vars
  BY <1>1, <1>2, <1>3, TypeCorrect, BooksTheorem, PTL DEF Spec
<1> QED
  BY <1>4 DEF RepeatsChangeNothing
=============================================================================
