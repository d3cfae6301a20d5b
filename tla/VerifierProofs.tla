----------------------------- MODULE VerifierProofs -------------------------
(***************************************************************************)
(* What the verifier finds in the host's ledger.                           *)
(*                                                                         *)
(* AccountingProofs has what its accounting computes of any records; what  *)
(* that says of honest calls follows from what is invariant of them: where *)
(* each number of a session is (NumbersReported), that they are sealed in  *)
(* their order (NumbersAscend), and that a refusal has a higher number     *)
(* than its attempt (EndsNumberedLater).                                   *)
(***************************************************************************)
EXTENDS VerifiedHost, VerifiedCall, AuditedCallProofs, AccountingProofs

-----------------------------------------------------------------------------
(***************************************************************************)
(* What the host seals verifies.                                           *)
(***************************************************************************)

\* The hashes the chain must show: that of no record, then each record's own.
chainHashes == [n \in 0..Len(ledger) |-> IF n = 0 THEN GENESIS_HASH ELSE ledger[n].record_hash]

\* The hashes recomputed from the bytes of the records are the hashes they carry.
LEMMA RecomputedIsCarried ==
    ASSUME TypeOK, ChainHolds
    PROVE  recomputed(ledger) = chainHashes
<1> DEFINE Step(h) ==
        [n \in 0..Len(ledger) |->
            IF n = 0 THEN GENESIS_HASH
            ELSE computeRecordHash(ledger[n].event, ledger[n].seq, ledger[n].host_ts, h[n - 1])]
<1>1. recomputed(ledger) = CHOOSE h : h = Step(h)
  BY DEF recomputed
<1> HIDE DEF Step
<1>2. /\ chainHashes = [n \in 0..Len(ledger) |-> chainHashes[n]]
      /\ \A n \in 0..Len(ledger) :
            chainHashes[n] = IF n = 0 THEN GENESIS_HASH ELSE ledger[n].record_hash
      /\ Len(ledger) \in Nat /\ DOMAIN ledger = 1..Len(ledger)
  BY DEF chainHashes, TypeOK, SealedOK
<1>3. \A n \in DOMAIN ledger :
         /\ ledger[n].previous_hash = IF n = 1 THEN GENESIS_HASH ELSE ledger[n - 1].record_hash
         /\ ledger[n].record_hash = computeRecordHash(ledger[n].event, ledger[n].seq,
                                                      ledger[n].host_ts, ledger[n].previous_hash)
  BY DEF ChainHolds
<1>4. \A n \in 0..Len(ledger) : n # 0 =>
         /\ n \in DOMAIN ledger /\ n - 1 \in 0..Len(ledger)
         /\ ledger[n].previous_hash = chainHashes[n - 1]
  <2> SUFFICES ASSUME NEW n \in 0..Len(ledger), n # 0
               PROVE  /\ n \in DOMAIN ledger /\ n - 1 \in 0..Len(ledger)
                      /\ ledger[n].previous_hash = chainHashes[n - 1]
    OBVIOUS
  <2>1. n \in DOMAIN ledger /\ n - 1 \in 0..Len(ledger) /\ (n = 1 <=> n - 1 = 0)
    BY <1>2
  <2> QED
    BY <1>2, <1>3, <2>1
<1>5. ASSUME NEW h, h = Step(h)
      PROVE  h = chainHashes
  <2>1. /\ h = [n \in 0..Len(ledger) |-> h[n]]
        /\ \A n \in 0..Len(ledger) :
              h[n] = IF n = 0 THEN GENESIS_HASH
                     ELSE computeRecordHash(ledger[n].event, ledger[n].seq, ledger[n].host_ts, h[n - 1])
    BY <1>5 DEF Step
  <2> DEFINE Differ == {n \in 0..Len(ledger) : h[n] # chainHashes[n]}
  <2>2. Differ = {}
    <3> SUFFICES ASSUME Differ # {} PROVE FALSE
      OBVIOUS
    <3>1. Differ \subseteq Nat
      OBVIOUS
    <3>2. PICK n \in Differ : \A m \in Differ : ~(<<m, n>> \in OpToRel(<, Nat))
      BY <3>1, NatLessThanWellFounded, WFMin
    <3>3. \A m \in Differ : ~(m < n)
      BY <3>1, <3>2 DEF OpToRel
    <3>4. n \in 0..Len(ledger) /\ n # 0
      BY <1>2, <2>1
    <3>5. n - 1 \in 0..Len(ledger) /\ n - 1 < n
      BY <1>2, <3>4
    <3>6. h[n - 1] = chainHashes[n - 1]
      BY <3>3, <3>5
    <3>7. h[n] = computeRecordHash(ledger[n].event, ledger[n].seq, ledger[n].host_ts, h[n - 1])
      BY <2>1, <3>4
    <3>8. h[n - 1] = ledger[n].previous_hash /\ n \in DOMAIN ledger
      BY <1>4, <3>4, <3>6
    <3>9. h[n] = ledger[n].record_hash
      BY <1>3, <3>7, <3>8
    <3> QED
      BY <1>2, <3>4, <3>9
  <2>3. \A n \in 0..Len(ledger) : h[n] = chainHashes[n]
    BY <2>2
  <2> QED
    BY <1>2, <2>1, <2>3
<1>6. chainHashes = Step(chainHashes)
  <2>1. \A n \in 0..Len(ledger) : n # 0 =>
           ledger[n].record_hash =
             computeRecordHash(ledger[n].event, ledger[n].seq, ledger[n].host_ts, chainHashes[n - 1])
    BY <1>3, <1>4
  <2> QED
    BY <2>1 DEF Step, chainHashes
<1> QED
  BY <1>1, <1>5, <1>6

\* Chain and digest are in order.
LEMMA ChainHasNoIssues ==
    ASSUME TypeOK, ChainHolds
    PROVE  /\ seqIssues(ledger) = {} /\ chainIssues(ledger) = {}
           /\ digestIssues(ledger, {digest(ledger)}) = {}
<1>1. /\ Len(ledger) \in Nat /\ DOMAIN ledger = 1..Len(ledger)
      /\ ledger \in Seq(SealedRecords(Events))
  BY DEF TypeOK, SealedOK
<1>2. \A n \in DOMAIN ledger :
         /\ ledger[n].seq = n - 1
         /\ ledger[n].previous_hash = IF n = 1 THEN GENESIS_HASH ELSE ledger[n - 1].record_hash
  BY DEF ChainHolds
<1>3. /\ recomputed(ledger) = chainHashes
      /\ \A n \in 0..Len(ledger) :
            chainHashes[n] = IF n = 0 THEN GENESIS_HASH ELSE ledger[n].record_hash
  BY RecomputedIsCarried DEF chainHashes
<1> HIDE DEF recomputed
<1>4. \A n \in DOMAIN ledger :
         ledger[n].previous_hash = chainHashes[n - 1] /\ ledger[n].record_hash = chainHashes[n]
  <2> SUFFICES ASSUME NEW n \in DOMAIN ledger
               PROVE  ledger[n].previous_hash = chainHashes[n - 1]
                      /\ ledger[n].record_hash = chainHashes[n]
    OBVIOUS
  <2>1. /\ n \in 0..Len(ledger) /\ n - 1 \in 0..Len(ledger) /\ n # 0
        /\ n = 1 <=> n - 1 = 0
    BY <1>1
  <2> QED
    BY <1>2, <1>3, <2>1
<1>5. seqIssues(ledger) = {}
  BY <1>2 DEF seqIssues
<1>6. chainIssues(ledger) = {}
  BY <1>3, <1>4 DEF chainIssues
<1>7. digest(ledger) = chainHashes[Len(ledger)]
  BY <1>1, <1>3 DEF digest
<1>8. digestIssues(ledger, {digest(ledger)}) = {}
  BY <1>3, <1>7 DEF digestIssues
<1> QED
  BY <1>5, <1>6, <1>8

\* Every signature verifies under the registry as it is now.
LEMMA SignaturesHaveNoIssues ==
    ASSUME Level = "L2", RecordsStillVerify
    PROVE  signatureIssues(ledger, registry) = {}
BY DEF signatureIssues, RecordsStillVerify, verifyEventSignature

\* Every countersignature that must be there is, and verifies.
LEMMA CountersignaturesHaveNoIssues ==
    ASSUME RecordsCountersigned
    PROVE  countersignatureIssues(ledger, Countersigns) = {}
<1>1. \A n \in DOMAIN ledger :
         LET r == ledger[n] IN
         /\ Countersigns => r.host_signature # {}
         /\ r.host_signature # {} =>
              r.host_signature = {countersignaturePayload(r.seq, r.host_ts, r.previous_hash, r.record_hash)}
  BY DEF RecordsCountersigned
<1> QED
  BY <1>1 DEF countersignatureIssues

\* No terminal record is orphaned.
LEMMA OutcomesHaveNoIssues ==
    ASSUME TypeOK, OutcomeHasAttempt
    PROVE  correlationIssues(ledger) = {}
<1>1. DOMAIN ledger = 1..Len(ledger) /\ Len(ledger) \in Nat
  BY DEF TypeOK, SealedOK
<1>2. ASSUME NEW n \in DOMAIN ledger, ledger[n].event.outcome \in {"success", "failed"}
      PROVE  correlated(ledger, n)
  <2>1. PICK m \in AttemptRecords : m < n /\ SameOperation(ledger[m].event, ledger[n].event)
    BY <1>2 DEF OutcomeHasAttempt
  <2>2. m \in 1..(n - 1) /\ IsAttempt(ledger[m].event)
    BY <1>1, <2>1 DEF AttemptRecords
  <2> QED
    BY <2>1, <2>2 DEF correlated
<1> QED
  BY <1>2 DEF correlationIssues

\* No number is shared.
LEMMA NumbersHaveNoIssues ==
    ASSUME TypeOK, Level = "L2", NoSharedSignerSeq
    PROVE  sharedSignerSeq(ledger) = {}
<1>1. DOMAIN ledger = 1..Len(ledger) /\ Len(ledger) \in Nat
  BY DEF TypeOK, SealedOK
<1> SUFFICES ASSUME NEW n \in sharedSignerSeq(ledger) PROVE FALSE
  OBVIOUS
<1>2. PICK m \in numbered(ledger) :
         /\ m < n /\ SameWindow(ledger[m].event, ledger[n].event)
         /\ ledger[m].event.signer_seq = ledger[n].event.signer_seq
  BY DEF sharedSignerSeq
<1>3. m \in DOMAIN ledger /\ n \in DOMAIN ledger /\ m # n
  BY <1>1, <1>2 DEF sharedSignerSeq, numbered
<1> QED
  BY <1>2, <1>3 DEF NoSharedSignerSeq

\* What a Level-2 host seals verifies: whatever arrived, in whatever order and how
\* often, and whatever became of the keys, the verifier finds nothing in its ledger
\* but numbers that never arrived or were refused.
THEOREM VerifiesTheorem == Spec => []LedgerVerifies
<1>1. /\ TypeOK /\ ChainHolds /\ RecordsStillVerify /\ RecordsCountersigned
      /\ OutcomeHasAttempt /\ NoSharedSignerSeq
      => LedgerVerifies
  <2> SUFFICES ASSUME TypeOK, ChainHolds, RecordsStillVerify, RecordsCountersigned,
                      OutcomeHasAttempt, NoSharedSignerSeq, Level = "L2", NEW issue \in IssuesNow
               PROVE  issue.kind = "signer-seq-gap"
    BY DEF LedgerVerifies
  <2>1. /\ seqIssues(ledger) = {} /\ chainIssues(ledger) = {}
        /\ digestIssues(ledger, {digest(ledger)}) = {}
    BY ChainHasNoIssues
  <2>2. /\ signatureIssues(ledger, registry) = {}
        /\ countersignatureIssues(ledger, Countersigns) = {}
    BY SignaturesHaveNoIssues, CountersignaturesHaveNoIssues
  <2>3. correlationIssues(ledger) = {} /\ sharedSignerSeq(ledger) = {}
    BY OutcomesHaveNoIssues, NumbersHaveNoIssues
  <2>4. issue \in {Issue(Whole, "signer-seq-gap", "unaccounted") : u \in unaccountedSignerSeq(ledger)}
    BY <2>1, <2>2, <2>3 DEF IssuesNow, verifyLedger
  <2> QED
    BY <2>4 DEF Issue
<1> QED
  BY <1>1, TypeCorrect, ChainTheorem, StillVerifyTheorem, CountersignCorrect, PairingTheorem,
     NoSharedSignerSeqTheorem, PTL

\* So does the ledger of calls over a connection, whatever is lost, repeated, late
\* or given up.
COROLLARY CallsVerifyTheorem == CallSpec => []LedgerVerifies
BY VerifiesTheorem, CallImplementsHost, PTL
-----------------------------------------------------------------------------
(***************************************************************************)
(* Where the numbers of a session are.                                     *)
(***************************************************************************)

Carries(e, s, v) == e.session_id = s /\ e.signer_seq = v

\* A number is of a sealed record.
Recorded(s, v) == \E n \in DOMAIN ledger : Carries(ledger[n].event, s, v)

\* The event with a number is on the connection or sealed.
Arrives(s, v) ==
    \/ \E n \in DOMAIN toHost : IsEvent(toHost[n]) /\ Carries(toHost[n].event, s, v)
    \/ Recorded(s, v)

\* What may keep a number of a session from the ledger for good.
HasCause(s) == LossIn(s) \/ s \in outage \cup givenUp

NumbersReported ==
    Signs =>
      \A s \in Sessions : HasCause(s) \/ \A v \in Nat : v < nextSeq[s] => Arrives(s, v)

\* What the host takes off the connection it seals, or has sealed, or has a cause for.
LEMMA TakenIsRecorded ==
    ASSUME AlwaysKnown, FlagInv, TakesEvent, [CallNext]_allVars,
           NEW s \in Sessions, ~HasCause(s)', Head(toHost).event.session_id = s,
           NEW v, Carries(Head(toHost).event, s, v)
    PROVE  Recorded(s, v)'
<1> DEFINE e == Head(toHost).event
<1>1. /\ toHost # << >> /\ IsEvent(Head(toHost)) /\ (Late(e) \/ Takes(e))
      /\ outage' = IF hadOutage THEN outage \cup {e.session_id} ELSE outage
      /\ UNCHANGED givenUp
  BY DEF TakesEvent
<1>2. e \in Events /\ e.session_id = s /\ Carries(e, s, v)
  BY <1>1, HeadEvent DEF AlwaysKnown, FlagInv
<1> HIDE DEF e
<1>3. ~Late(e) /\ ~hadOutage
  BY <1>1, <1>2 DEF Late, HasCause
<1>4. CASE Seals(e)
  <2>1. Len(ledger) + 1 \in DOMAIN ledger' /\ ledger'[Len(ledger) + 1].event = e
    BY <1>2, <1>4, SealsAppends DEF AlwaysKnown
  <2> QED
    BY <1>2, <2>1 DEF Recorded, Carries
<1>5. ASSUME NEW n \in DOMAIN ledger, ledger[n].event = e
      PROVE  Recorded(s, v)'
  <2>1. n \in DOMAIN ledger' /\ ledger'[n] = ledger[n]
    BY HostStep, RecordsStay DEF AlwaysKnown
  <2> QED
    BY <1>2, <1>5, <2>1 DEF Recorded, Carries
<1> QED
  BY <1>1, <1>3, <1>4, <1>5 DEF Takes

\* No step takes a number from the connection that it neither seals nor has a cause for.
LEMMA NumbersReportedStep ==
    ASSUME AlwaysKnown, FlagInv, NumbersReported, [CallNext]_allVars
    PROVE  NumbersReported'
<1> SUFFICES ASSUME Signs, NEW s \in Sessions, ~HasCause(s)', NEW v \in Nat, v < nextSeq'[s]
             PROVE  Arrives(s, v)'
  BY DEF NumbersReported
<1>1. ~HasCause(s) /\ ~LossIn(s)' /\ s \notin outage' /\ s \notin givenUp'
  BY CausesStay DEF HasCause, LossIn
<1>2. v < nextSeq[s] => Arrives(s, v)
  BY <1>1 DEF NumbersReported
<1>3. ASSUME NEW n \in DOMAIN ledger, Carries(ledger[n].event, s, v)
      PROVE  Arrives(s, v)'
  <2>1. n \in DOMAIN ledger' /\ ledger'[n] = ledger[n]
    BY HostStep, RecordsStay DEF AlwaysKnown
  <2> QED
    BY <1>3, <2>1 DEF Arrives, Recorded, Carries
<1>4. CASE toolSteps
  <2>1. ASSUME NEW n \in DOMAIN toHost, IsEvent(toHost[n]), Carries(toHost[n].event, s, v)
        PROVE  Arrives(s, v)'
    <3>1. n \in DOMAIN toHost' /\ toHost'[n] = toHost[n]
      BY <1>4, ToolAddsBehind
    <3> QED
      BY <2>1, <3>1 DEF Arrives, Carries, IsEvent
  <2>2. CASE v < nextSeq[s]
    BY <1>2, <1>3, <2>1, <2>2 DEF Arrives, Recorded
  <2>3. CASE ~(v < nextSeq[s])
    <3>1. nextSeq' # nextSeq
      BY <2>3
    <3>2. PICK i \in Ids : \E m : Stamps(i, m)
      BY <1>4, <3>1, ToolKind DEF Repeats, Performs, respond
    <3>3. PICK m : Stamps(i, m)
      BY <3>2
    <3>4. /\ nextSeq' = [nextSeq EXCEPT ![SessionOf[i]] = @ + 1]
          /\ m.event.signer_seq = nextSeq[SessionOf[i]]
      BY <3>3 DEF Stamps
    <3>5. nextSeq[s] \in Nat /\ nextSeq \in [Sessions -> 0..(MaxSignerSeq + 1)] /\ SessionOf[i] \in Sessions
      BY ToolAssumption DEF AlwaysKnown, ToolInv, ToolTypeOK
    <3>6. SessionOf[i] = s /\ v = nextSeq[s]
      BY <2>3, <3>4, <3>5
    <3>7. /\ m \in Messages /\ IsEvent(m) /\ Sends(m) /\ m.event.session_id = s
          /\ Carries(m.event, s, v)
      BY <3>3, <3>4, <3>6, SentEvent DEF FlagInv, Carries
    <3>8. m.event \notin lost'
      BY <1>1, <3>7 DEF LossIn
    <3>9. Len(toHost) + 1 \in DOMAIN toHost' /\ toHost'[Len(toHost) + 1] = m
      BY <3>7, <3>8, SendsBehind
    <3> QED
      BY <3>7, <3>9 DEF Arrives, Carries, IsEvent
  <2> QED
    BY <2>2, <2>3
<1>5. CASE ~toolSteps
  <2>1. v < nextSeq[s]
    BY <1>5, RestKind
  <2>2. ASSUME NEW n \in DOMAIN toHost, IsEvent(toHost[n]), Carries(toHost[n].event, s, v)
        PROVE  Arrives(s, v)'
    <3>1. CASE toHost' = toHost
      BY <2>2, <3>1 DEF Arrives, Carries, IsEvent
    <3>2. CASE (TakesEvent \/ TakesResult) /\ n # 1
      <4>1. n - 1 \in DOMAIN toHost' /\ toHost'[n - 1] = toHost[n]
        BY <3>2, TakenOff DEF TakesEvent, TakesResult
      <4> QED
        BY <2>2, <4>1 DEF Arrives, Carries, IsEvent
    <3>3. CASE TakesEvent /\ n = 1
      <4>1. Head(toHost) = toHost[n]
        BY <3>3, HeadOf DEF TakesEvent, AlwaysKnown
      <4> QED
        BY <1>1, <2>2, <3>3, <4>1, TakenIsRecorded DEF HasCause, LossIn, Carries, Arrives
    <3>4. ~(TakesResult /\ n = 1)
      BY <2>2, HeadOf DEF TakesResult, IsEvent, AlwaysKnown
    <3>5. ASSUME NEW t \in Sessions, callAudited(t) \/ callGivenUp(t)
          PROVE  toHost' = toHost
      BY <3>5, Begins, GivenUp
    <3> QED
      BY <1>5, <3>1, <3>2, <3>3, <3>4, <3>5, RestKind DEF Quiet
  <2> QED
    BY <1>2, <1>3, <2>1, <2>2 DEF Arrives, Recorded
<1> QED
  BY <1>4, <1>5

\* A number is of an event ahead of the kth on the connection.
Ahead(k, s, v) ==
    \E j \in DOMAIN toHost : j < k /\ IsEvent(toHost[j]) /\ Carries(toHost[j].event, s, v)

\* Without a cause, the records of a session are sealed in the order of their numbers:
\* none is sealed before one with a lower number, nor comes to the host before it.
NumbersAscend ==
    Signs =>
      \A s \in Sessions :
         \/ HasCause(s)
         \/ /\ \A n \in DOMAIN ledger : ledger[n].event.session_id = s =>
                 \A v \in 0..(ledger[n].event.signer_seq - 1) : Recorded(s, v)
            /\ \A k \in DOMAIN toHost : IsEvent(toHost[k]) /\ toHost[k].event.session_id = s =>
                 \A v \in 0..(toHost[k].event.signer_seq - 1) : Recorded(s, v) \/ Ahead(k, s, v)

\* What the tool adds to the connection has a number that all lower ones are ahead of.
LEMMA AddedAscends ==
    ASSUME AlwaysKnown, FlagInv, NumbersReported, NumbersAscend, toolSteps, Signs,
           NEW s \in Sessions, ~HasCause(s),
           NEW k \in DOMAIN toHost', IsEvent(toHost'[k]), toHost'[k].event.session_id = s,
           NEW v \in 0..(toHost'[k].event.signer_seq - 1)
    PROVE  Recorded(s, v) \/ Ahead(k, s, v)'
<1>1. \A j \in DOMAIN toHost : j \in DOMAIN toHost' /\ toHost'[j] = toHost[j]
  BY ToolAddsBehind
<1>2. ASSUME NEW j \in DOMAIN toHost, j < k, IsEvent(toHost[j]), Carries(toHost[j].event, s, v)
      PROVE  Ahead(k, s, v)'
  BY <1>1, <1>2 DEF Ahead, Carries, IsEvent
<1>3. CASE k \in DOMAIN toHost
  <2>1. toHost'[k] = toHost[k]
    BY <1>1, <1>3
  <2>2. Recorded(s, v) \/ Ahead(k, s, v)
    BY <1>3, <2>1 DEF NumbersAscend, IsEvent
  <2> QED
    BY <1>2, <2>2 DEF Ahead
<1>4. CASE k \notin DOMAIN toHost
  <2>1. PICK i \in Ids : \E m : (Stamps(i, m) \/ Repeats(i, m)) /\ toHost'[k] = m
    <3>1. ASSUME NEW i \in Ids, NEW m, Stamps(i, m) \/ Repeats(i, m)
          PROVE  toHost'[k] = m
      BY <1>4, <3>1, SentEvent, SendsBehind DEF FlagInv
    <3>2. ASSUME NEW i \in Ids, Performs(i)
          PROVE  FALSE
      BY <1>4, <3>2 DEF Performs
    <3>3. ASSUME NEW t \in Sessions, respond(t)
          PROVE  FALSE
      <4>1. toHost' = Append(toHost, ResultMessage(t)) /\ toHost \in Seq(Messages)
        BY <3>3 DEF respond, AlwaysKnown, ToolInv, ToolTypeOK
      <4>2. toHost'[k] = ResultMessage(t)
        BY <1>4, <4>1
      <4> QED
        BY <4>2 DEF IsEvent, ResultMessage
    <3> QED
      BY <3>1, <3>2, <3>3, ToolKind
  <2>2. PICK m : (Stamps(i, m) \/ Repeats(i, m)) /\ toHost'[k] = m
    BY <2>1
  <2>3. /\ m \in Messages /\ Sends(m) /\ m.event.session_id = s /\ SessionOf[i] = s
        /\ v \in 0..(m.event.signer_seq - 1)
    BY <2>2, SentEvent DEF FlagInv
  <2>4. nextSeq[s] \in Nat
    BY ToolAssumption DEF AlwaysKnown, ToolInv, ToolTypeOK
  <2>5. m.event.signer_seq <= nextSeq[s] /\ m.event.signer_seq \in Nat
    <3>1. CASE Stamps(i, m)
      BY <2>3, <2>4, <3>1 DEF Stamps
    <3>2. CASE Repeats(i, m)
      <4>1. m.event \in Built
        BY <3>2 DEF Repeats, Built
      <4>2. m.event.signer_seq < nextSeq[s] /\ m.event.signer_seq \in Nat
        BY <2>3, <4>1, BuiltEvents DEF FlagInv, NumbersTell
      <4> QED
        BY <2>4, <4>2
    <3> QED
      BY <2>2, <3>1, <3>2
  <2>6. v \in Nat /\ v < nextSeq[s]
    BY <2>3, <2>4, <2>5
  <2>7. Arrives(s, v)
    BY <2>6 DEF NumbersReported
  <2>8. \A j \in DOMAIN toHost : j < k
    BY <1>4, <2>3, SendsBehind
  <2> QED
    BY <1>2, <2>7, <2>8 DEF Arrives, Recorded
<1> QED
  BY <1>3, <1>4

\* The order is kept.
LEMMA NumbersAscendStep ==
    ASSUME AlwaysKnown, FlagInv, NumbersReported, NumbersAscend, [CallNext]_allVars
    PROVE  NumbersAscend'
<1> SUFFICES ASSUME Signs, NEW s \in Sessions, ~HasCause(s)'
             PROVE  /\ \A n \in DOMAIN ledger' : ledger'[n].event.session_id = s =>
                         \A v \in 0..(ledger'[n].event.signer_seq - 1) : Recorded(s, v)'
                    /\ \A k \in DOMAIN toHost' :
                         IsEvent(toHost'[k]) /\ toHost'[k].event.session_id = s =>
                           \A v \in 0..(toHost'[k].event.signer_seq - 1) :
                              Recorded(s, v)' \/ Ahead(k, s, v)'
  BY DEF NumbersAscend, IsEvent
<1>1. ~HasCause(s)
  BY CausesStay DEF HasCause, LossIn
<1>2. ASSUME NEW v, Recorded(s, v)
      PROVE  Recorded(s, v)'
  BY <1>2, HostStep, RecordsStay DEF AlwaysKnown, Recorded, Carries
<1>3. ASSUME ledger' = ledger, NEW n \in DOMAIN ledger', ledger'[n].event.session_id = s,
             NEW v \in 0..(ledger'[n].event.signer_seq - 1)
      PROVE  Recorded(s, v)'
  BY <1>1, <1>2, <1>3 DEF NumbersAscend
<1>4. ASSUME toHost' = toHost, NEW k \in DOMAIN toHost', IsEvent(toHost'[k]),
             toHost'[k].event.session_id = s, NEW v \in 0..(toHost'[k].event.signer_seq - 1)
      PROVE  Recorded(s, v)' \/ Ahead(k, s, v)'
  <2>1. Recorded(s, v) \/ Ahead(k, s, v)
    BY <1>1, <1>4 DEF NumbersAscend, IsEvent
  <2> QED
    BY <1>2, <1>4, <2>1 DEF Ahead, IsEvent, Carries
<1>5. CASE toolSteps
  <2>1. ledger' = ledger
    BY <1>5, ToolKind
  <2> QED
    BY <1>1, <1>2, <1>3, <1>5, <2>1, AddedAscends
<1>6. CASE TakesEvent \/ TakesResult
  <2>1. toHost # << >> /\ toHost' = Tail(toHost)
    BY <1>6 DEF TakesEvent, TakesResult
  <2>2. ASSUME NEW v, IsEvent(toHost[1]), Carries(toHost[1].event, s, v)
        PROVE  Recorded(s, v)'
    <3>1. TakesEvent /\ Head(toHost).event.session_id = s /\ Carries(Head(toHost).event, s, v)
      BY <1>6, <2>1, <2>2, HeadOf DEF TakesResult, AlwaysKnown, Carries
    <3> QED
      BY <3>1, TakenIsRecorded
  <2>3. ASSUME NEW k \in DOMAIN toHost, IsEvent(toHost[k]), toHost[k].event.session_id = s,
               NEW v \in 0..(toHost[k].event.signer_seq - 1)
        PROVE  Recorded(s, v)' \/ (k # 1 /\ Ahead(k - 1, s, v)')
    <3>1. Recorded(s, v) \/ Ahead(k, s, v)
      BY <1>1, <2>3 DEF NumbersAscend
    <3>2. ASSUME NEW j \in DOMAIN toHost, j < k, IsEvent(toHost[j]), Carries(toHost[j].event, s, v)
          PROVE  Recorded(s, v)' \/ (k # 1 /\ Ahead(k - 1, s, v)')
      <4>1. CASE j = 1
        BY <2>2, <3>2, <4>1
      <4>2. CASE j # 1
        <5>1. j \in Nat /\ k \in Nat /\ j \in DOMAIN toHost /\ 0 < j
          BY HeadOf, <2>1 DEF AlwaysKnown
        <5>2. j - 1 \in DOMAIN toHost' /\ toHost'[j - 1] = toHost[j]
          BY <2>1, <4>2, TakenOff
        <5>3. j - 1 < k - 1 /\ k # 1
          BY <3>2, <5>1
        <5> QED
          BY <3>2, <5>2, <5>3 DEF Ahead, Carries, IsEvent
      <4> QED
        BY <4>1, <4>2
    <3> QED
      BY <1>2, <3>1, <3>2 DEF Ahead
  <2>4. ASSUME NEW k \in DOMAIN toHost', IsEvent(toHost'[k]), toHost'[k].event.session_id = s,
               NEW v \in 0..(toHost'[k].event.signer_seq - 1)
        PROVE  Recorded(s, v)' \/ Ahead(k, s, v)'
    <3>1. k \in Nat /\ k + 1 \in DOMAIN toHost /\ toHost'[k] = toHost[k + 1]
      BY <2>1, TakenOff
    <3>2. Recorded(s, v)' \/ Ahead((k + 1) - 1, s, v)'
      BY <2>3, <2>4, <3>1 DEF IsEvent
    <3>3. (k + 1) - 1 = k
      BY <3>1
    <3> QED
      BY <3>2, <3>3
  <2>5. ASSUME NEW n \in DOMAIN ledger', ledger'[n].event.session_id = s,
               NEW v \in 0..(ledger'[n].event.signer_seq - 1)
        PROVE  Recorded(s, v)'
    <3>1. CASE n \in DOMAIN ledger
      <4>1. ledger'[n] = ledger[n]
        BY <3>1, HostStep, RecordsStay DEF AlwaysKnown
      <4> QED
        BY <1>1, <1>2, <2>5, <3>1, <4>1 DEF NumbersAscend
    <3>2. CASE n \notin DOMAIN ledger
      <4>1. ledger' # ledger
        BY <3>2
      <4>2. TakesEvent
        BY <1>6, <4>1, Ends DEF TakesResult, vars, sealVars
      <4>3. IsEvent(Head(toHost)) /\ Seals(Head(toHost).event) /\ Head(toHost).event \in Events
        BY <4>1, <4>2, HeadEvent DEF TakesEvent, Late, Takes, AlwaysKnown, FlagInv
      <4>4. ledger'[n].event = toHost[1].event /\ 1 \in DOMAIN toHost /\ IsEvent(toHost[1])
        BY <2>1, <3>2, <4>3, SealsAppends, HeadOf DEF AlwaysKnown
      <4> QED
        BY <2>3, <2>5, <4>4
    <3> QED
      BY <3>1, <3>2
  <2> QED
    BY <2>4, <2>5
<1>7. CASE ~toolSteps /\ ~(TakesEvent \/ TakesResult)
  <2>1. UNCHANGED <<ledger, toHost>>
    BY <1>7, RestKind, Begins, GivenUp, Ends DEF Quiet
  <2> QED
    BY <1>3, <1>4, <2>1
<1> QED
  BY <1>5, <1>6, <1>7

-----------------------------------------------------------------------------
(***************************************************************************)
(* How operations ended, and under which number.                           *)
(***************************************************************************)

\* The outcomes on the connection and in the ledger.
EndEvents ==
         {toHost[n].event : n \in {m \in DOMAIN toHost : IsEvent(toHost[m]) /\ ~IsAttempt(toHost[m].event)}}
    \cup {ledger[n].event : n \in TerminalRecords}

\* The reasons of an abort that the host gave, or gives by its silence.
HostReasons == {"host-rejected", "host-unavailable"}

\* An outcome is numbered after its attempt.
EndsNumberedLater == Signs => \A e \in EndEvents : sent[e.id].signer_seq < e.signer_seq

\* The attempt of operation i is in the ledger.
AttemptRecorded(i) == \E n \in DOMAIN ledger : ledger[n].event = sent[i]

\* An operation is aborted because the host refused its attempt or could not answer, or
\* although its attempt is sealed: the tool had no key to check the answer under.
AbortsAreHosts ==
    misdelivered = 0 =>
      \A e \in EndEvents :
         e.outcome = "aborted" => e.reason \in HostReasons \/ AttemptRecorded(e.id)

\* An outcome is of an operation that has an attempt and is over.
LEMMA EndEventIs ==
    ASSUME AlwaysKnown, NEW e \in EndEvents
    PROVE  /\ e \in ToolEvents /\ e.id \in Ids /\ e.session_id = SessionOf[e.id] /\ ~IsAttempt(e)
           /\ phase[e.id] = "concluded"
           /\ sent[e.id] \in Built /\ sent[e.id] \in ToolEvents /\ IsAttempt(sent[e.id])
           /\ sent[e.id].id = e.id /\ sent[e.id].session_id = SessionOf[e.id]
<1>1. e \in ToolEvents /\ ~IsAttempt(e) /\ phase[e.id] = "concluded"
  <2>1. ASSUME NEW n \in DOMAIN toHost, IsEvent(toHost[n]), ~IsAttempt(toHost[n].event)
        PROVE  toHost[n].event \in ToolEvents /\ phase[toHost[n].event.id] = "concluded"
    <3>1. toHost[n] \in Messages /\ toHost[n].method \in {"audit/attempt", "audit/outcome"}
      BY <2>1 DEF AlwaysKnown, ToolInv, MessagesOK, Messages, IsEvent
    <3>2. toHost[n].event \in ToolEvents
      BY <3>1 DEF Messages
    <3>3. CASE toHost[n].method = "audit/outcome"
      BY <3>2, <3>3 DEF AlwaysKnown, TruthInv, OutcomesTold, EndTold, Told
    <3>4. CASE toHost[n].method = "audit/attempt"
      <4> DEFINE f == toHost[n].event
      <4>1. f = sent[f.id] /\ f.id \in Ids /\ f # Nothing
        BY <3>2, <3>4, ToolEventFields, NothingAssumption DEF AlwaysKnown, ToolInv, MessagesOK
      <4> HIDE DEF f
      <4>2. phase[f.id] # "idle"
        BY <4>1 DEF AlwaysKnown, ToolInv
      <4>3. IsAttempt(sent[f.id])
        BY <4>1, <4>2 DEF AlwaysKnown, TruthInv, PhasesFit
      <4>4. IsAttempt(f)
        BY <4>1, <4>3
      <4> QED
        BY <2>1, <4>4 DEF f
    <3> QED
      BY <3>1, <3>3, <3>4
  <2>2. ASSUME NEW n \in TerminalRecords
        PROVE  /\ ledger[n].event \in ToolEvents /\ ~IsAttempt(ledger[n].event)
               /\ phase[ledger[n].event.id] = "concluded"
    BY DEF AlwaysKnown, TruthInv, RecordsAreTools, RecordTellsTruth, TerminalRecords
  <2> QED
    BY <2>1, <2>2 DEF EndEvents
<1>2. e.id \in Ids /\ e.session_id = SessionOf[e.id]
  BY <1>1, ToolEventFields
<1>3. sent[e.id] \in ToolEvents /\ sent[e.id].id = e.id /\ IsAttempt(sent[e.id])
  BY <1>1, <1>2 DEF AlwaysKnown, ToolInv, ToolTypeOK, TruthInv, PhasesFit
<1>4. sent[e.id].session_id = SessionOf[e.id]
  BY <1>3, ToolEventFields
<1>5. sent[e.id] \in Built
  BY <1>1, <1>2 DEF Built
<1> QED
  BY <1>1, <1>2, <1>3, <1>4, <1>5

\* An outcome was there before, or has just been stamped.
JustEnded(e) ==
    \E i \in Ids :
       /\ phase[i] \in {"asking", "performing"} /\ e.id = i
       /\ Signs => e.signer_seq = nextSeq[SessionOf[i]]
       /\ misdelivered = 0 /\ e.outcome = "aborted" =>
            e.reason \in HostReasons \/ AttemptRecorded(i)

\* An outcome is one that was there, or the one an operation has just ended with.
LEMMA EndEventSource ==
    ASSUME AlwaysKnown, AnswersAreRecords, [CallNext]_allVars, NEW e \in EndEvents'
    PROVE  e \in EndEvents \/ JustEnded(e)
<1>1. toHost \in Seq(Messages)
  BY DEF AlwaysKnown, ToolInv, ToolTypeOK
<1>2. ASSUME NEW n \in TerminalRecords', e = ledger'[n].event
      PROVE  e \in EndEvents
  <2>1. CASE UNCHANGED ledger
    BY <1>2, <2>1, SameLedger DEF EndEvents
  <2>2. CASE ~UNCHANGED ledger
    <3> DEFINE f == Head(toHost).event
    <3>1. /\ toHost # << >> /\ Head(toHost).method \in {"audit/attempt", "audit/outcome"}
          /\ f \in Events /\ Seals(f)
      BY <2>2, LedgerStep DEF AlwaysKnown
    <3>2. 1 \in DOMAIN toHost /\ f = toHost[1].event /\ IsEvent(toHost[1])
      BY <3>1, HeadOf DEF AlwaysKnown, IsEvent
    <3> HIDE DEF f
    <3>3. /\ \A k \in DOMAIN ledger : ledger'[k] = ledger[k]
          /\ ledger'[Len(ledger) + 1].event = f
          /\ Len(ledger) + 1 \notin DOMAIN ledger
          /\ TerminalRecords' = IF IsAttempt(f) THEN TerminalRecords
                                ELSE TerminalRecords \cup {Len(ledger) + 1}
      BY <3>1, SealsAppends DEF AlwaysKnown
    <3>4. CASE n \in TerminalRecords
      BY <1>2, <3>3, <3>4 DEF EndEvents, TerminalRecords
    <3>5. CASE n \notin TerminalRecords
      <4>1. n = Len(ledger) + 1 /\ ~IsAttempt(f)
        BY <3>3, <3>5
      <4>2. e = toHost[1].event /\ ~IsAttempt(e)
        BY <1>2, <3>2, <3>3, <4>1
      <4> QED
        BY <3>2, <4>2 DEF EndEvents
    <3> QED
      BY <3>4, <3>5
  <2> QED
    BY <2>1, <2>2
<1>3. ASSUME NEW n \in DOMAIN toHost', IsEvent(toHost'[n]), ~IsAttempt(toHost'[n].event),
             e = toHost'[n].event
      PROVE  e \in EndEvents \/ JustEnded(e)
  <2> DEFINE Was == \E k \in DOMAIN toHost : toHost'[n] = toHost[k]
  <2>1. Was => e \in EndEvents
    BY <1>3 DEF EndEvents, IsEvent
  <2>2. ASSUME NEW m, toHost' = Append(toHost, m)
        PROVE  Was \/ toHost'[n] = m
    BY <1>1, <2>2
  <2> HIDE DEF Was
  <2>3. ASSUME NEW m, transmits(m)
        PROVE  Was \/ toHost'[n] = m
    BY <2>2, <2>3 DEF transmits, Was
  <2>4. ASSUME NEW i \in Ids, NEW outcome, NEW reason, concludes(i, outcome, reason),
               phase[i] \in {"asking", "performing"},
               misdelivered = 0 /\ outcome = "aborted" =>
                 reason \in HostReasons \/ AttemptRecorded(i)
        PROVE  Was \/ JustEnded(e)
    <3> DEFINE f == stamped(i, outcome, reason, sent[i].body)
    <3>1. /\ f.id = i /\ f.outcome = outcome /\ f.reason = reason
          /\ Signs => f.signer_seq = nextSeq[SessionOf[i]]
      BY DEF stamped
    <3>2. transmits(OutcomeMessage(f)) /\ OutcomeMessage(f).event = f
      BY <2>4 DEF concludes, OutcomeMessage
    <3> HIDE DEF f
    <3>3. JustEnded(f)
      BY <2>4, <3>1 DEF JustEnded
    <3> QED
      BY <1>3, <2>3, <3>2, <3>3
  <2>5. ASSUME NEW i \in Ids, NEW f, NEW try, transmits(AttemptMessage(i, f, try)), IsAttempt(f)
        PROVE  Was
    <3>1. AttemptMessage(i, f, try).event = f
      BY DEF AttemptMessage
    <3> QED
      BY <1>3, <2>3, <2>5, <3>1
  <2>6. ASSUME NEW i \in Ids, NEW body \in Bodies, audited(i, body)
        PROVE  Was
    <3>1. IsAttempt(stamped(i, "attempted", NoReason, body))
      BY DEF stamped, IsAttempt
    <3> QED
      BY <2>5, <2>6, <3>1 DEF audited
  <2>7. ASSUME NEW i \in Ids, phase[i] = "asking", retry(i)
        PROVE  Was
    <3>1. IsAttempt(sent[i])
      BY <2>7 DEF AlwaysKnown, TruthInv, PhasesFit
    <3> QED
      BY <2>5, <2>7, <3>1 DEF retry
  <2>8. ASSUME NEW i \in Ids, unanswered(i)
        PROVE  Was \/ JustEnded(e)
    BY <2>4, <2>7, <2>8 DEF unanswered, abort, HostReasons
  <2>9. ASSUME NEW i \in Ids, answered(i)
        PROVE  Was \/ JustEnded(e)
    <3> DEFINE reason == AbortReason(i, toTool[i])
    <3>1. phase[i] = "asking" /\ toTool[i] # Nothing
      BY <2>9 DEF answered
    <3>3. misdelivered = 0 => reason \in HostReasons \/ AttemptRecorded(i)
      <4>1. toTool[i].status \in {"accept", "reject", "unavailable"}
        BY <3>1 DEF AlwaysKnown, ToolInv, ToolTypeOK, Responses
      <4>2. toTool[i].status # "accept" => reason \in HostReasons
        BY <4>1 DEF AbortReason, HostReasons
      <4> HIDE DEF reason
      <4> QED
        BY <3>1, <4>2 DEF AnswersAreRecords, AttemptRecorded
    <3>4. \/ retry(i)
          \/ reason # NoReason /\ abort(i, reason)
          \/ UNCHANGED toHost
      BY <2>9 DEF answered
    <3> HIDE DEF reason
    <3>5. CASE reason # NoReason /\ abort(i, reason)
      BY <2>4, <3>1, <3>3, <3>5 DEF abort
    <3>6. CASE UNCHANGED toHost
      BY <3>6 DEF Was
    <3> QED
      BY <2>7, <3>1, <3>4, <3>5, <3>6
  <2>10. ASSUME NEW i \in Ids, performEnds(i)
         PROVE  Was \/ JustEnded(e)
    BY <2>4, <2>10 DEF performEnds
  <2>11. ASSUME NEW s \in Sessions, respond(s)
         PROVE  Was
    <3>1. toHost' = Append(toHost, ResultMessage(s)) /\ ~IsEvent(ResultMessage(s))
      BY <2>11 DEF respond, ResultMessage, IsEvent
    <3> QED
      BY <1>3, <2>2, <3>1 DEF Was
  <2>12. CASE toolSteps
    BY <2>1, <2>6, <2>8, <2>9, <2>10, <2>11, <2>12 DEF toolSteps, operates
  <2>13. CASE ~toolSteps
    <3>1. toHost' = toHost \/ (toHost # << >> /\ toHost' = Tail(toHost))
      BY <2>13 DEF CallNext, allVars, toolVars, callAudited, callGivenUp, receive, misdeliver,
         switchDurability, provisionTool
    <3>2. Was
      BY <1>3, <3>1, TakenOff DEF Was
    <3> QED
      BY <2>1, <3>2
  <2> QED
    BY <2>12, <2>13
<1> QED
  BY <1>2, <1>3 DEF EndEvents

\* Every step keeps outcomes numbered after their attempts, and aborts the host's.
LEMMA EndsStep ==
    ASSUME AlwaysKnown, AlwaysKnown', FlagInv, AnswersAreRecords, EndsNumberedLater, AbortsAreHosts,
           [CallNext]_allVars
    PROVE  EndsNumberedLater' /\ AbortsAreHosts'
<1>1. ASSUME NEW e \in EndEvents
      PROVE  sent'[e.id] = sent[e.id]
  BY EndEventIs, AttemptStays DEF AlwaysKnown
<1>2. ASSUME NEW e, JustEnded(e), Signs
      PROVE  sent'[e.id].signer_seq < e.signer_seq
  <2>1. /\ e.id \in Ids /\ phase[e.id] \in {"asking", "performing"}
        /\ e.signer_seq = nextSeq[SessionOf[e.id]]
    BY <1>2 DEF JustEnded
  <2>2. sent[e.id] \in Built /\ sent[e.id].session_id = SessionOf[e.id]
    <3>1. sent[e.id] \in ToolEvents /\ sent[e.id].id = e.id
      BY <2>1 DEF AlwaysKnown, ToolInv, ToolTypeOK
    <3> QED
      BY <2>1, <3>1, ToolEventFields DEF Built
  <2>3. sent[e.id].signer_seq < nextSeq[SessionOf[e.id]]
    BY <1>2, <2>2 DEF FlagInv, NumbersTell
  <2>4. sent'[e.id] = sent[e.id]
    BY <2>1, AttemptStays DEF AlwaysKnown
  <2> QED
    BY <2>1, <2>3, <2>4
<1>3. EndsNumberedLater'
  BY <1>1, <1>2, EndEventSource DEF EndsNumberedLater
<1>4. AbortsAreHosts'
  <2>1. misdelivered' = 0 => misdelivered = 0
    BY MisdeliveredCounts DEF AlwaysKnown
  <2>2. ASSUME NEW i \in Ids, sent'[i] = sent[i], AttemptRecorded(i)
        PROVE  AttemptRecorded(i)'
    BY <2>2, HostStep, RecordsStay DEF AttemptRecorded, AlwaysKnown
  <2>3. ASSUME NEW i \in Ids, phase[i] \in {"asking", "performing"}
        PROVE  sent'[i] = sent[i]
    BY <2>3, AttemptStays DEF AlwaysKnown
  <2>4. ASSUME NEW e \in EndEvents', misdelivered = 0, e.outcome = "aborted"
        PROVE  e.reason \in HostReasons \/ AttemptRecorded(e.id)'
    <3>1. CASE e \in EndEvents
      BY <1>1, <2>2, <2>4, <3>1, EndEventIs DEF AbortsAreHosts
    <3>2. CASE JustEnded(e)
      BY <2>2, <2>3, <2>4, <3>2 DEF JustEnded
    <3> QED
      BY <3>1, <3>2, EndEventSource
  <2> QED
    BY <2>1, <2>4 DEF AbortsAreHosts
<1> QED
  BY <1>3, <1>4

-----------------------------------------------------------------------------
(***************************************************************************)
(* What the verifier makes of the ledger of honest calls.                  *)
(***************************************************************************)

\* What is known of the ledger of calls.
CallLedgerKnown ==
    /\ AlwaysKnown /\ ChainHolds /\ RecordsCountersigned
    /\ OneAttemptPerId /\ OneTerminalRecord /\ NoAttemptAfterTerminal /\ OutcomeHasAttempt

\* What is known besides of calls whose events are numbered.
NumberedInv ==
    FlagInv /\ NumbersReported /\ NumbersAscend /\ EndsNumberedLater /\ AbortsAreHosts

\* This is invariant of the calls of a tool that signs.
LEMMA NumberedInvariant ==
    ASSUME Signs
    PROVE  CallSpec => [](CallLedgerKnown /\ NumberedInv)
<1>1. CallInit => NumbersReported /\ NumbersAscend /\ EndsNumberedLater /\ AbortsAreHosts
  <2> SUFFICES ASSUME CallInit PROVE NumbersReported /\ NumbersAscend /\ EndsNumberedLater /\ AbortsAreHosts
    OBVIOUS
  <2>1. toHost = << >> /\ ledger = << >> /\ nextSeq = [s \in Sessions |-> 0]
    BY DEF CallInit, InitWith, ToolInit
  <2>2. EndEvents = {}
    BY <2>1 DEF EndEvents, TerminalRecords
  <2> QED
    BY <2>1, <2>2 DEF NumbersReported, NumbersAscend, EndsNumberedLater, AbortsAreHosts
<1>2. /\ AlwaysKnown /\ FlagInv /\ AlwaysKnown' /\ AnswersAreRecords
      /\ NumbersReported /\ NumbersAscend /\ EndsNumberedLater /\ AbortsAreHosts
      /\ [CallNext]_allVars
      => NumbersReported' /\ NumbersAscend' /\ EndsNumberedLater' /\ AbortsAreHosts'
  BY NumbersReportedStep, NumbersAscendStep, EndsStep
<1>3. CallSpec => [](AlwaysKnown /\ FlagInv)
  BY FlagInvariant
<1>4. CallSpec => [](/\ ChainHolds /\ RecordsCountersigned
                     /\ OneAttemptPerId /\ OneTerminalRecord
                     /\ NoAttemptAfterTerminal /\ OutcomeHasAttempt)
  BY CallImplementsHost, ChainTheorem, CountersignCorrect, PairingTheorem, PTL
<1>5. CallSpec => [](NumbersReported /\ NumbersAscend /\ EndsNumberedLater /\ AbortsAreHosts)
  BY <1>1, <1>2, <1>3, AnswersRecorded, PTL DEF CallSpec
<1> QED
  BY <1>3, <1>4, <1>5, PTL DEF CallLedgerKnown, NumberedInv

\* The same, said of every tool.
LEMMA KnownIfSigned == CallSpec => [](Signs => CallLedgerKnown /\ NumberedInv)
<1>1. CASE Signs
  BY <1>1, NumberedInvariant, PTL
<1>2. CASE ~Signs
  <2>1. Signs => CallLedgerKnown /\ NumberedInv
    BY <1>2
  <2> QED
    BY <2>1, PTL
<1> QED
  BY <1>1, <1>2

\* The records that carry a number, by key and session.
LEMMA CallGroups ==
    ASSUME TypeOK, RecordsAreTools
    PROVE  /\ Numbered(ledger)
           /\ ~Signs => numbered(ledger) = {}
           /\ Signs => numbered(ledger) = DOMAIN ledger
           /\ \A key, s : ~(Signs /\ key = ToolKeyId) => group(ledger, key, s) = {}
           /\ \A s : Signs =>
                group(ledger, ToolKeyId, s) = {n \in DOMAIN ledger : ledger[n].event.session_id = s}
<1>1. DOMAIN ledger = 1..Len(ledger) /\ Len(ledger) \in Nat
  BY DEF TypeOK, SealedOK
<1>2. DOMAIN ledger \subseteq Nat /\ IsFiniteSet(DOMAIN ledger)
  BY <1>1, FS_Interval
<1>3. \A n \in DOMAIN ledger :
         /\ ledger[n].event.signer_seq \in Nat
         /\ ledger[n].event.key_id = IF Signs THEN ToolKeyId ELSE NoKey
  <2> SUFFICES ASSUME NEW n \in DOMAIN ledger
               PROVE  /\ ledger[n].event.signer_seq \in Nat
                      /\ ledger[n].event.key_id = IF Signs THEN ToolKeyId ELSE NoKey
    OBVIOUS
  <2>1. ledger[n].event \in ToolEvents /\ ledger[n].event \in Events
    BY ToolEventFields DEF RecordsAreTools
  <2> QED
    BY <2>1, EventFields DEF ToolEvents
<1>4. ToolKeyId # NoKey
  BY ToolAssumption, EventsAssumption
<1> QED
  BY <1>2, <1>3, <1>4 DEF Numbered, numbered, group, Unsigned

\* What is reported of a session is what its own key's runs hold.
LEMMA ReportedIs ==
    ASSUME TypeOK, RecordsAreTools, NEW s \in Sessions
    PROVE  Reported(s) = IF Signs THEN ValuesOf(unaccountedRuns(ledger, ToolKeyId, s)) ELSE {}
<1> DEFINE runs(key) == unaccountedRuns(ledger, key, s)
<1>1. Numbered(ledger)
  BY CallGroups
<1>2. ASSUME NEW key, ~(Signs /\ key = ToolKeyId)
      PROVE  DOMAIN runs(key) = {}
  <2>1. NumbersOf(ledger, key, s) = {}
    BY <1>2, CallGroups DEF NumbersOf
  <2>2. Missing(NumbersOf(ledger, key, s)) = {}
    BY <2>1 DEF Missing
  <2>3. Ascending(runs(key)) /\ ValuesOf(runs(key)) = {}
    BY <1>1, <2>2, AccountingTheorem DEF AccountsFor
  <2> HIDE DEF runs
  <2>4. \A n \in DOMAIN runs(key) : runs(key)[n].first \in runs(key)[n].first..runs(key)[n].last
    <3> SUFFICES ASSUME NEW n \in DOMAIN runs(key)
                 PROVE  runs(key)[n].first \in runs(key)[n].first..runs(key)[n].last
      OBVIOUS
    <3>1. runs(key)[n] \in Runs /\ runs(key)[n].first <= runs(key)[n].last
      BY <2>3 DEF Ascending
    <3>2. runs(key)[n].first \in Nat /\ runs(key)[n].last \in Nat
      BY <3>1 DEF Runs
    <3> QED
      BY <3>1, <3>2
  <2> QED
    BY <2>3, <2>4 DEF ValuesOf
<1> DEFINE entry(key, n) == [key_id |-> key, session_id |-> s, run |-> runs(key)[n]]
<1>3. ASSUME NEW u \in unaccountedSignerSeq(ledger), u.session_id = s
      PROVE  \E key \in KeyIds : \E n \in DOMAIN runs(key) : u = entry(key, n)
  <2>1. PICK key \in KeyIds, t \in Sessions :
           \E run \in Range(unaccountedRuns(ledger, key, t)) :
              u = [key_id |-> key, session_id |-> t, run |-> run]
    BY DEF unaccountedSignerSeq
  <2>2. PICK run \in Range(unaccountedRuns(ledger, key, t)) :
           u = [key_id |-> key, session_id |-> t, run |-> run]
    BY <2>1
  <2>3. t = s
    BY <1>3, <2>2
  <2>4. PICK n \in DOMAIN runs(key) : run = runs(key)[n]
    BY <2>2, <2>3 DEF Range
  <2> QED
    BY <2>2, <2>3, <2>4
<1>4. ASSUME NEW key \in KeyIds, NEW n \in DOMAIN runs(key)
      PROVE  entry(key, n) \in unaccountedSignerSeq(ledger) /\ entry(key, n).session_id = s
  <2>1. runs(key)[n] \in Range(unaccountedRuns(ledger, key, s))
    BY <1>4 DEF Range
  <2> DEFINE entries(k, t) == {[key_id |-> k, session_id |-> t, run |-> run] :
                                 run \in Range(unaccountedRuns(ledger, k, t))}
  <2>2. entry(key, n) \in entries(key, s) /\ entry(key, n).session_id = s
    BY <2>1
  <2>3. unaccountedSignerSeq(ledger) = UNION {entries(k, t) : k \in KeyIds, t \in Sessions}
    BY DEF unaccountedSignerSeq
  <2> HIDE DEF entries, entry
  <2> QED
    BY <2>2, <2>3
<1> HIDE DEF runs
<1>5. ASSUME NEW v \in Reported(s)
      PROVE  Signs /\ v \in ValuesOf(runs(ToolKeyId))
  <2>1. PICK u \in unaccountedSignerSeq(ledger) : u.session_id = s /\ v \in u.run.first..u.run.last
    BY DEF Reported
  <2>2. PICK key \in KeyIds : \E n \in DOMAIN runs(key) :
           u = entry(key, n)
    BY <1>3, <2>1
  <2>3. PICK n \in DOMAIN runs(key) : u = entry(key, n)
    BY <2>2
  <2>4. Signs /\ key = ToolKeyId
    BY <1>2, <2>3
  <2>5. u.run = runs(key)[n]
    BY <2>3
  <2> QED
    BY <2>1, <2>3, <2>4, <2>5 DEF ValuesOf
<1>6. ASSUME Signs, NEW v \in ValuesOf(runs(ToolKeyId))
      PROVE  v \in Reported(s)
  <2>1. PICK n \in DOMAIN runs(ToolKeyId) :
           v \in runs(ToolKeyId)[n].first..runs(ToolKeyId)[n].last
    BY DEF ValuesOf
  <2> DEFINE u == entry(ToolKeyId, n)
  <2>2. u \in unaccountedSignerSeq(ledger) /\ u.session_id = s
    BY <1>4, <2>1, ToolAssumption
  <2>3. u.run = runs(ToolKeyId)[n]
    OBVIOUS
  <2> HIDE DEF u
  <2> QED
    BY <2>1, <2>2, <2>3 DEF Reported
<1> QED
  BY <1>5, <1>6 DEF runs

\* An honest tool's signatures verify, and its numbers are not shared.
LEMMA HonestRecordsHaveNoIssues ==
    ASSUME TypeOK, RecordsAreTools, Signs => CallLedgerKnown /\ NumberedInv
    PROVE  signatureIssues(ledger, registry) = {} /\ sharedSignerSeq(ledger) = {}
<1>1. \A n \in DOMAIN ledger :
         /\ ledger[n].event \in ToolEvents
         /\ ledger[n].event.key_id = IF Signs THEN ToolKeyId ELSE NoKey
         /\ ledger[n].event.signed_by = IF Signs THEN ToolKey ELSE Forged
  BY DEF RecordsAreTools, ToolEvents
<1>2. CASE ~Signs
  BY <1>1, <1>2 DEF signatureIssues, sharedSignerSeq, numbered, Unsigned
<1>3. CASE Signs
  <2>1. registry[ToolKeyId].publicKey = ToolKey
    <3>1. registry = [[keyId \in KeyIds |-> NotRegistered] EXCEPT
                         ![ToolKeyId] = [publicKey |-> ToolKey, revoked |-> FALSE]]
      BY <1>3, ToolAssumption
         DEF NumberedInv, FlagInv, RegistryFixed, register, isRegistered, emptyRegistry
    <3> QED
      BY <3>1, ToolAssumption
  <2>2. registry[ToolKeyId] # NotRegistered
    <3>1. registry = [[keyId \in KeyIds |-> NotRegistered] EXCEPT
                         ![ToolKeyId] = [publicKey |-> ToolKey, revoked |-> FALSE]]
      BY <1>3, ToolAssumption
         DEF NumberedInv, FlagInv, RegistryFixed, register, isRegistered, emptyRegistry
    <3>2. registry[ToolKeyId] = [publicKey |-> ToolKey, revoked |-> FALSE]
      BY <3>1, ToolAssumption
    <3>3. [publicKey |-> ToolKey, revoked |-> FALSE] \in [publicKey : PublicKeys, revoked : BOOLEAN]
      BY ToolAssumption
    <3> QED
      BY <3>2, <3>3, NotRegisteredAssumption
  <2>3. signatureIssues(ledger, registry) = {}
    BY <1>1, <1>3, <2>1, <2>2 DEF signatureIssues, isRegistered, get
  <2>4. ASSUME NEW n \in sharedSignerSeq(ledger)
        PROVE  FALSE
    <3>1. PICK m \in numbered(ledger) :
             /\ m < n /\ SameWindow(ledger[m].event, ledger[n].event)
             /\ ledger[m].event.signer_seq = ledger[n].event.signer_seq
      BY DEF sharedSignerSeq
    <3>2. /\ m \in DOMAIN ledger /\ n \in DOMAIN ledger
          /\ ledger[m].event \in Built /\ ledger[n].event \in Built
      BY <3>1 DEF sharedSignerSeq, numbered, Built
    <3>3. ledger[m].event = ledger[n].event
      BY <1>3, <3>1, <3>2 DEF SameWindow, NumberedInv, FlagInv, NumbersTell
    <3>4. m = n
      BY <1>3, <3>2, <3>3 DEF CallLedgerKnown, OneAttemptPerId, OneTerminalRecord, AttemptRecords,
         TerminalRecords, SameOperation
    <3>5. m \in Nat /\ n \in Nat
      <4>1. DOMAIN ledger \subseteq Nat
        BY CallGroups DEF Numbered
      <4> QED
        BY <3>2, <4>1
    <3> QED
      BY <3>1, <3>4, <3>5
  <2> QED
    BY <2>3, <2>4
<1> QED
  BY <1>2, <1>3

\* Of a session without a cause, no number is missing below one that is sealed.
LEMMA NothingIsMissing ==
    ASSUME CallLedgerKnown, NumberedInv, Signs, NEW s \in Sessions, ~HasCause(s)
    PROVE  Missing(NumbersOf(ledger, ToolKeyId, s)) = {}
<1> SUFFICES ASSUME NEW v \in Missing(NumbersOf(ledger, ToolKeyId, s)) PROVE FALSE
  OBVIOUS
<1>1. /\ NumbersOf(ledger, ToolKeyId, s) =
           {ledger[n].event.signer_seq : n \in {m \in DOMAIN ledger : ledger[m].event.session_id = s}}
      /\ Numbered(ledger) /\ numbered(ledger) = DOMAIN ledger
  BY CallGroups DEF CallLedgerKnown, AlwaysKnown, TruthInv, NumbersOf
<1>2. v \in Nat /\ v \notin NumbersOf(ledger, ToolKeyId, s)
  BY DEF Missing
<1>3. PICK n \in DOMAIN ledger : ledger[n].event.session_id = s /\ v < ledger[n].event.signer_seq
  BY <1>1 DEF Missing
<1>4. v \in 0..(ledger[n].event.signer_seq - 1)
  BY <1>1, <1>2, <1>3 DEF Numbered
<1>5. Recorded(s, v)
  BY <1>3, <1>4 DEF NumberedInv, NumbersAscend
<1> QED
  BY <1>1, <1>2, <1>5 DEF Recorded, Carries

\* What is known of the ledger whether or not the tool signs.
LedgerReadable ==
    TypeOK /\ RecordsAreTools /\ ChainHolds /\ RecordsCountersigned /\ OutcomeHasAttempt

\* What the verifier finds in such a ledger.
LEMMA HonestVerifies ==
    ASSUME LedgerReadable, Signs => CallLedgerKnown /\ NumberedInv
    PROVE  HonestCallVerifies
<1>1. ASSUME NEW issue \in verifyLedger(ledger, {digest(ledger)}, registry, Countersigns)
      PROVE  issue.kind = "signer-seq-gap"
  <2>1. /\ seqIssues(ledger) = {} /\ chainIssues(ledger) = {}
        /\ digestIssues(ledger, {digest(ledger)}) = {}
    BY ChainHasNoIssues DEF LedgerReadable
  <2>2. countersignatureIssues(ledger, Countersigns) = {} /\ correlationIssues(ledger) = {}
    BY CountersignaturesHaveNoIssues, OutcomesHaveNoIssues DEF LedgerReadable
  <2>3. signatureIssues(ledger, registry) = {} /\ sharedSignerSeq(ledger) = {}
    BY HonestRecordsHaveNoIssues DEF LedgerReadable
  <2>4. issue \in {Issue(Whole, "signer-seq-gap", "unaccounted") : u \in unaccountedSignerSeq(ledger)}
    BY <2>1, <2>2, <2>3 DEF verifyLedger
  <2> QED
    BY <2>4 DEF Issue
<1>2. ASSUME NEW s \in Sessions, Reported(s) # {}
      PROVE  HasCause(s)
  <2>1. Signs /\ ValuesOf(unaccountedRuns(ledger, ToolKeyId, s)) # {}
    BY <1>2, ReportedIs DEF LedgerReadable
  <2>2. Numbered(ledger)
    BY CallGroups DEF LedgerReadable
  <2>3. ValuesOf(unaccountedRuns(ledger, ToolKeyId, s)) \subseteq Missing(NumbersOf(ledger, ToolKeyId, s))
    BY <2>2, AccountingTheorem DEF AccountsFor
  <2> QED
    BY <1>2, <2>1, <2>3, NothingIsMissing
<1> QED
  BY <1>1, <1>2 DEF HonestCallVerifies, HasCause, LossIn

\* The honest tool's calls verify: whatever is lost, late, repeated, misdelivered or
\* not sealed, and whether or not calls are given up, the verifier never finds anything
\* but missing numbers in their ledger, and those only of sessions in which an event was
\* lost, the host could not seal or the call was given up - at any moment, of calls under
\* way as well.
THEOREM HonestTheorem == CallSpec => []HonestCallVerifies
<1>1. CallSpec => []LedgerReadable
  BY TruthInvariant, CallImplementsHost, ChainTheorem, CountersignCorrect, PairingTheorem, PTL
     DEF LedgerReadable, TruthInv
<1> QED
  BY <1>1, KnownIfSigned, HonestVerifies, PTL

-----------------------------------------------------------------------------
(***************************************************************************)
(* The count of unaccounted numbers is that of the suppressed ones.        *)
(***************************************************************************)

\* The sealed refusals of a session, and the numbers of the attempts they are about.
Refusals(s) == RefusalsOf(ledger, ToolKeyId, s)

attemptNumber(s) == [n \in Refusals(s) |-> sent[ledger[n].event.id].signer_seq]

NumbersRefused(s) == {attemptNumber(s)[n] : n \in Refusals(s)}

MissingOf(s) == Missing(NumbersOf(ledger, ToolKeyId, s))

\* A sealed refusal is about an attempt whose number is missing and below its own.
LEMMA RefusalIsOfMissing ==
    ASSUME CallLedgerKnown, NumberedInv, Signs, NEW s \in Sessions, NEW n \in Refusals(s)
    PROVE  /\ n \in TerminalRecords
           /\ sent[ledger[n].event.id] \in Built
           /\ sent[ledger[n].event.id].id = ledger[n].event.id
           /\ sent[ledger[n].event.id].session_id = s /\ ledger[n].event.session_id = s
           /\ attemptNumber(s)[n] = sent[ledger[n].event.id].signer_seq
           /\ attemptNumber(s)[n] \in MissingOf(s)
           /\ attemptNumber(s)[n] < ledger[n].event.signer_seq
<1> DEFINE e == ledger[n].event
           attempt == sent[ledger[n].event.id]
           v == attempt.signer_seq
<1>1. attemptNumber(s)[n] = v
  BY DEF attemptNumber
<1>2. /\ n \in DOMAIN ledger /\ e.session_id = s /\ e.outcome = "aborted"
      /\ ~correlated(ledger, n) /\ n \in group(ledger, ToolKeyId, s)
  BY DEF Refusals, RefusalsOf, refusals, group, numbered
<1>3. n \in TerminalRecords /\ e \in EndEvents
  BY <1>2 DEF TerminalRecords, IsAttempt, EndEvents
<1>4. /\ e \in ToolEvents /\ e.id \in Ids /\ attempt \in Built /\ attempt \in ToolEvents
      /\ IsAttempt(attempt) /\ attempt.id = e.id /\ attempt.session_id = s
  BY <1>2, <1>3, EndEventIs DEF CallLedgerKnown
<1>5. v \in Nat /\ e.signer_seq \in Nat
  <2>1. attempt \in Events /\ e \in Events
    BY <1>4, ToolEventFields
  <2> QED
    BY <2>1, EventFields
<1>6. v < e.signer_seq
  BY <1>3 DEF NumberedInv, EndsNumberedLater
<1>7. e.signer_seq \in NumbersOf(ledger, ToolKeyId, s)
  BY <1>2 DEF NumbersOf
<1>8. v \notin NumbersOf(ledger, ToolKeyId, s)
  <2> SUFFICES ASSUME v \in NumbersOf(ledger, ToolKeyId, s) PROVE FALSE
    OBVIOUS
  <2>1. PICK m \in group(ledger, ToolKeyId, s) : v = ledger[m].event.signer_seq
    BY DEF NumbersOf
  <2>2. m \in DOMAIN ledger /\ ledger[m].event.session_id = s /\ ledger[m].event \in Built
    BY <2>1 DEF group, numbered, Built
  <2>3. ledger[m].event = attempt
    BY <1>4, <2>1, <2>2 DEF NumberedInv, FlagInv, NumbersTell
  <2>4. IsAttempt(ledger[m].event) /\ SameOperation(ledger[m].event, e)
    BY <1>2, <1>4, <2>3 DEF SameOperation
  <2>5. m \in AttemptRecords
    BY <2>2, <2>4 DEF AttemptRecords
  <2>6. m < n
    BY <1>3, <2>4, <2>5 DEF CallLedgerKnown, NoAttemptAfterTerminal
  <2>7. DOMAIN ledger = 1..Len(ledger) /\ Len(ledger) \in Nat
    BY DEF CallLedgerKnown, AlwaysKnown, TypeOK, SealedOK
  <2>8. m \in 1..(n - 1)
    BY <1>2, <2>2, <2>6, <2>7
  <2> QED
    BY <1>2, <2>4, <2>8 DEF correlated
<1> HIDE DEF e, attempt, v
<1>9. v \in MissingOf(s)
  BY <1>5, <1>6, <1>7, <1>8 DEF MissingOf, Missing
<1> QED
  BY <1>1, <1>2, <1>3, <1>4, <1>6, <1>9 DEF e, attempt, v

\* So the refusals can be assigned the numbers they are about.
LEMMA RefusalsAreAssigned ==
    ASSUME CallLedgerKnown, NumberedInv, Signs, NEW s \in Sessions
    PROVE  /\ Assigns(attemptNumber(s), Refusals(s), ledger, MissingOf(s))
           /\ attemptNumber(s) \in Injection(Refusals(s), NumbersRefused(s))
           /\ attemptNumber(s) \in Surjection(Refusals(s), NumbersRefused(s))
           /\ NumbersRefused(s) \subseteq MissingOf(s)
<1> DEFINE f == attemptNumber(s)
<1>1. /\ f = [n \in Refusals(s) |-> f[n]]
      /\ \A n \in Refusals(s) : f[n] \in MissingOf(s) /\ f[n] < ledger[n].event.signer_seq
  BY RefusalIsOfMissing DEF attemptNumber
<1>2. ASSUME NEW n \in Refusals(s), NEW m \in Refusals(s), f[n] = f[m]
      PROVE  n = m
  <2>1. /\ n \in TerminalRecords /\ m \in TerminalRecords
        /\ sent[ledger[n].event.id] \in Built /\ sent[ledger[m].event.id] \in Built
        /\ sent[ledger[n].event.id].id = ledger[n].event.id
        /\ sent[ledger[m].event.id].id = ledger[m].event.id
        /\ sent[ledger[n].event.id].session_id = sent[ledger[m].event.id].session_id
        /\ ledger[n].event.session_id = ledger[m].event.session_id
        /\ sent[ledger[n].event.id].signer_seq = sent[ledger[m].event.id].signer_seq
    BY <1>2, RefusalIsOfMissing
  <2>2. sent[ledger[n].event.id] = sent[ledger[m].event.id]
    BY <2>1 DEF NumberedInv, FlagInv, NumbersTell
  <2>3. SameOperation(ledger[n].event, ledger[m].event)
    BY <2>1, <2>2 DEF SameOperation
  <2> QED
    BY <2>1, <2>3 DEF CallLedgerKnown, OneTerminalRecord
<1> HIDE DEF f
<1>3. f \in Injection(Refusals(s), MissingOf(s))
  BY <1>1, <1>2 DEF Injection, IsInjective
<1>4. NumbersRefused(s) = {f[n] : n \in Refusals(s)}
  BY DEF f, NumbersRefused
<1>5. f \in Injection(Refusals(s), NumbersRefused(s)) /\ f \in Surjection(Refusals(s), NumbersRefused(s))
  BY <1>1, <1>2, <1>4 DEF Injection, IsInjective, Surjection
<1> QED
  BY <1>1, <1>3, <1>4, <1>5 DEF Assigns, f

\* What is suppressed is what is missing and was not refused.
LEMMA SuppressedIs ==
    ASSUME CallLedgerKnown, NumberedInv, Signs, MaxMisdelivered = 0, NEW s \in Sessions
    PROVE  Suppressed(s) = MissingOf(s) \ NumbersRefused(s)
<1>1. /\ sealedNumbers(s) = NumbersOf(ledger, ToolKeyId, s) /\ Numbered(ledger)
      /\ group(ledger, ToolKeyId, s) = {n \in DOMAIN ledger : ledger[n].event.session_id = s}
      /\ numbered(ledger) = DOMAIN ledger
  BY CallGroups DEF CallLedgerKnown, AlwaysKnown, TruthInv, NumbersOf, sealedNumbers
<1>2. nextSeq[s] \in Nat
  BY ToolAssumption DEF CallLedgerKnown, AlwaysKnown, ToolInv, ToolTypeOK
<1>3. \A w \in sealedNumbers(s) : w \in Nat /\ w < nextSeq[s]
  <2> SUFFICES ASSUME NEW w \in sealedNumbers(s) PROVE w \in Nat /\ w < nextSeq[s]
    OBVIOUS
  <2>1. PICK n \in DOMAIN ledger : ledger[n].event.session_id = s /\ w = ledger[n].event.signer_seq
    BY DEF sealedNumbers
  <2>2. ledger[n].event \in Built
    BY DEF Built
  <2> QED
    BY <1>1, <2>1, <2>2 DEF Numbered, NumberedInv, FlagInv, NumbersTell
<1>4. ASSUME NEW v \in Suppressed(s)
      PROVE  v \in MissingOf(s) /\ v \notin NumbersRefused(s)
  <2>1. /\ v \in 0..(nextSeq[s] - 1) /\ v \notin sealedNumbers(s)
        /\ \E w \in sealedNumbers(s) : v < w
        /\ \A i \in OpsOf(s) : sent[i] # Nothing /\ sent[i].signer_seq = v => ~RefusalIsSealed(i)
    BY DEF Suppressed
  <2>2. v \in MissingOf(s)
    BY <1>1, <1>2, <2>1 DEF MissingOf, Missing
  <2>3. ASSUME NEW n \in Refusals(s), v = attemptNumber(s)[n]
        PROVE  FALSE
    <3> DEFINE i == ledger[n].event.id
    <3>1. /\ n \in TerminalRecords /\ sent[i] \in Built /\ sent[i].session_id = s
          /\ sent[i].signer_seq = v /\ ledger[n].event.session_id = s
      BY <2>3, RefusalIsOfMissing
    <3>2. n \in DOMAIN ledger /\ ledger[n].event.outcome = "aborted"
      BY DEF Refusals, RefusalsOf, refusals, group, numbered
    <3>3. i \in Ids /\ SessionOf[i] = s
      <4>1. ledger[n].event \in ToolEvents
        BY <3>2 DEF CallLedgerKnown, AlwaysKnown, TruthInv, RecordsAreTools
      <4> QED
        BY <3>1, <4>1, ToolEventFields
    <3>4. sent[i] # Nothing
      <4>1. ledger[n].event \in EndEvents
        BY <3>1 DEF EndEvents
      <4>2. sent[i] \in ToolEvents
        BY <4>1, EndEventIs DEF CallLedgerKnown
      <4> QED
        BY <4>2, ToolEventFields, NothingAssumption
    <3>5. RefusalIsSealed(i)
      BY <3>2 DEF RefusalIsSealed
    <3> QED
      BY <2>1, <3>1, <3>3, <3>4, <3>5 DEF OpsOf
  <2> QED
    BY <2>2, <2>3 DEF NumbersRefused
<1>5. ASSUME NEW v \in MissingOf(s), v \notin NumbersRefused(s)
      PROVE  v \in Suppressed(s)
  <2>1. /\ v \in Nat /\ v \notin sealedNumbers(s) /\ \E w \in sealedNumbers(s) : v < w
    BY <1>1 DEF MissingOf, Missing
  <2>2. v \in 0..(nextSeq[s] - 1)
    <3>1. PICK w \in sealedNumbers(s) : v < w
      BY <2>1
    <3>2. w \in Nat /\ w < nextSeq[s]
      BY <1>3
    <3> QED
      BY <1>2, <2>1, <3>1, <3>2
  <2>3. ASSUME NEW i \in OpsOf(s), sent[i] # Nothing, sent[i].signer_seq = v, RefusalIsSealed(i)
        PROVE  FALSE
    <3>1. PICK n \in DOMAIN ledger : ledger[n].event.id = i /\ ledger[n].event.outcome = "aborted"
      BY <2>3 DEF RefusalIsSealed
    <3>2. ledger[n].event \in ToolEvents /\ ledger[n].event.session_id = s
      <4>1. ledger[n].event \in ToolEvents
        BY DEF CallLedgerKnown, AlwaysKnown, TruthInv, RecordsAreTools
      <4> QED
        BY <3>1, <4>1, ToolEventFields DEF OpsOf
    <3>3. n \in group(ledger, ToolKeyId, s)
      BY <1>1, <3>2
    <3>4. ledger[n].event.reason \in HostReasons
      <4>1. misdelivered = 0
        BY CallAssumption DEF CallLedgerKnown, AlwaysKnown, CallVarsOK
      <4>2. ledger[n].event \in EndEvents
        BY <3>1 DEF EndEvents, TerminalRecords, IsAttempt
      <4>3. ~AttemptRecorded(i)
        <5> SUFFICES ASSUME NEW m \in DOMAIN ledger, ledger[m].event = sent[i] PROVE FALSE
          BY DEF AttemptRecorded
        <5>1. ledger[m].event.session_id = s
          <6>1. ledger[m].event \in ToolEvents /\ ledger[m].event.id = i
            BY <3>1, <4>2, EndEventIs DEF CallLedgerKnown
          <6> QED
            BY <6>1, ToolEventFields DEF OpsOf
        <5> QED
          BY <2>1, <2>3, <5>1 DEF sealedNumbers
      <4> QED
        BY <3>1, <4>1, <4>2, <4>3 DEF NumberedInv, AbortsAreHosts
    <3>5. ~correlated(ledger, n)
      <4> SUFFICES ASSUME correlated(ledger, n) PROVE FALSE
        OBVIOUS
      <4>1. PICK m \in 1..(n - 1) :
               IsAttempt(ledger[m].event) /\ SameOperation(ledger[m].event, ledger[n].event)
        BY DEF correlated
      <4>2. DOMAIN ledger = 1..Len(ledger) /\ Len(ledger) \in Nat
        BY DEF CallLedgerKnown, AlwaysKnown, TypeOK, SealedOK
      <4>3. m \in DOMAIN ledger
        BY <4>1, <4>2
      <4>4. ledger[m].event = sent[i]
        <5>1. ledger[m].event = sent[ledger[m].event.id]
          BY <4>1, <4>3 DEF CallLedgerKnown, AlwaysKnown, TruthInv, RecordTellsTruth
        <5> QED
          BY <3>1, <4>1, <5>1 DEF SameOperation
      <4>5. ledger[m].event.session_id = s /\ ledger[m].event.signer_seq = v
        BY <2>3, <3>2, <4>1, <4>4 DEF SameOperation
      <4> QED
        BY <2>1, <4>3, <4>5 DEF sealedNumbers
    <3>6. n \in Refusals(s)
      BY <3>1, <3>3, <3>4, <3>5 DEF Refusals, RefusalsOf, refusals, HostReasons
    <3>7. attemptNumber(s)[n] = v
      BY <2>3, <3>1, <3>6 DEF attemptNumber
    <3> QED
      BY <1>5, <3>6, <3>7 DEF NumbersRefused
  <2> QED
    BY <2>1, <2>2, <2>3 DEF Suppressed
<1> QED
  BY <1>4, <1>5

\* A part of a finite set, and what is left without it.
LEMMA PartCounts ==
    ASSUME NEW S, IsFiniteSet(S), NEW T, T \subseteq S
    PROVE  /\ IsFiniteSet(T) /\ IsFiniteSet(S \ T)
           /\ Cardinality(S) \in Nat /\ Cardinality(T) \in Nat
           /\ Cardinality(S \ T) = Cardinality(S) - Cardinality(T)
<1>1. S \cap T = T
  OBVIOUS
<1>2. IsFiniteSet(S \ T) /\ Cardinality(S \ T) = Cardinality(S) - Cardinality(S \cap T)
  BY FS_Difference
<1>3. IsFiniteSet(T)
  BY FS_Subset
<1> QED
  BY <1>1, <1>2, <1>3, FS_CardinalityType

\* In such a ledger the reported numbers are as many as the suppressed ones.
LEMMA CountIsExact ==
    ASSUME Signs => CallLedgerKnown /\ NumberedInv, MaxMisdelivered = 0
    PROVE  UnaccountedIsExact
<1> SUFFICES ASSUME Signs, CallLedgerKnown, NumberedInv, NEW s \in Sessions
             PROVE  Cardinality(Reported(s)) = Cardinality(Suppressed(s))
  BY DEF UnaccountedIsExact
<1> DEFINE reported == Reported(s)
           missing == MissingOf(s)
           settled == missing \ reported
           refs == Refusals(s)
           refused_s == NumbersRefused(s)
<1>1. /\ reported = ValuesOf(unaccountedRuns(ledger, ToolKeyId, s))
      /\ Numbered(ledger)
  BY ReportedIs, CallGroups DEF CallLedgerKnown, AlwaysKnown, TruthInv
<1>2. /\ reported \subseteq missing
      /\ \E R \in SUBSET refs :
            Cardinality(R) = Cardinality(settled) /\ Assignable(R, ledger, missing)
      /\ \A R \in SUBSET refs :
            Assignable(R, ledger, missing) => Cardinality(R) <= Cardinality(settled)
  BY <1>1, AccountingTheorem DEF AccountsFor, Refusals, MissingOf
<1>3. /\ Assignable(refs, ledger, missing)
      /\ attemptNumber(s) \in Injection(refs, refused_s)
      /\ attemptNumber(s) \in Surjection(refs, refused_s)
      /\ refused_s \subseteq missing
  BY RefusalsAreAssigned DEF Assignable
<1>4. Suppressed(s) = missing \ refused_s
  BY SuppressedIs
<1>5. IsFiniteSet(missing) /\ IsFiniteSet(refs)
  <2>1. /\ refs \subseteq DOMAIN ledger /\ group(ledger, ToolKeyId, s) \subseteq DOMAIN ledger
        /\ \A n \in group(ledger, ToolKeyId, s) : n \in numbered(ledger)
    BY DEF Refusals, RefusalsOf, refusals, group, numbered
  <2>2. IsFiniteSet(refs) /\ IsFiniteSet(group(ledger, ToolKeyId, s))
    BY <1>1, <2>1, FS_Subset DEF Numbered
  <2>3. IsFiniteSet(NumbersOf(ledger, ToolKeyId, s)) /\ NumbersOf(ledger, ToolKeyId, s) \subseteq Nat
    BY <1>1, <2>1, <2>2, FiniteNumbers DEF NumbersOf, Numbered
  <2> QED
    BY <2>2, <2>3, FiniteMissing DEF MissingOf
<1> HIDE DEF reported, missing, refs, refused_s
<1>6. Cardinality(refused_s) = Cardinality(refs)
  BY <1>3, <1>5, FS_Surjection
<1>7. Cardinality(settled) = Cardinality(refs)
  <2>1. PICK R \in SUBSET refs : Cardinality(R) = Cardinality(settled)
    BY <1>2
  <2>2. Cardinality(R) <= Cardinality(refs)
    BY <1>5, FS_Subset
  <2>3. refs \in SUBSET refs
    OBVIOUS
  <2>4. Cardinality(refs) <= Cardinality(settled)
    BY <1>2, <1>3, <2>3
  <2>5. Cardinality(refs) \in Nat /\ Cardinality(settled) \in Nat
    BY <1>2, <1>5, PartCounts, FS_CardinalityType
  <2> HIDE DEF settled
  <2> QED
    BY <2>1, <2>2, <2>4, <2>5
<1>8. /\ Cardinality(settled) = Cardinality(missing) - Cardinality(reported)
      /\ Cardinality(missing) \in Nat /\ Cardinality(reported) \in Nat
  BY <1>2, <1>5, PartCounts
<1>9. Cardinality(missing \ refused_s) = Cardinality(missing) - Cardinality(refused_s)
  BY <1>3, <1>5, PartCounts
<1>10. Cardinality(refused_s) \in Nat
  BY <1>3, <1>5, PartCounts
<1> HIDE DEF settled
<1> QED
  BY <1>4, <1>6, <1>7, <1>8, <1>9, <1>10 DEF reported

\* The number of unaccounted values is exact: of the calls of a tool that signs, over a
\* connection that may lose any event but brings each answer to the request it answers,
\* the verifier at every moment reports as many numbers of a session as its ledger lacks
\* and no sealed refusal stands for - the procedure, which sees neither the tool nor the
\* connection, neither excuses a suppressed event nor reports a refused one.
THEOREM UnaccountedTheorem ==
    ASSUME MaxMisdelivered = 0
    PROVE  CallSpec => []UnaccountedIsExact
BY KnownIfSigned, CountIsExact, PTL
=============================================================================
