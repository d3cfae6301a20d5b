------------------------ MODULE PresentedLedgerProofs -----------------------
(***************************************************************************)
(* What a report about a presented ledger proves, whatever was sealed, by  *)
(* however many hosts, and however often the copy was changed.             *)
(***************************************************************************)
EXTENDS PresentedLedger, AccountingProofs

-----------------------------------------------------------------------------
(***************************************************************************)
(* The chains the hosts sealed.                                            *)
(***************************************************************************)

\* The hash a chain has after n records.
historyOf(c, n) == [k \in 1..n |-> Link(ScriptOf[c][k], k - 1, k)]

\* Its nth record.
originalOf(c, n) ==
    sealedBy(c, [event |-> ScriptOf[c][n], seq |-> n - 1, host_ts |-> n,
                 previous_hash |-> historyOf(c, n - 1), record_hash |-> historyOf(c, n),
                 host_signature |-> {}])

\* What a host puts into a record, and what its countersignature is made of.
LEMMA SealedFields ==
    ASSUME NEW c, NEW r
    PROVE  LET o == sealedBy(c, r) IN
           /\ o = [event |-> o.event, seq |-> o.seq, host_ts |-> o.host_ts,
                   previous_hash |-> o.previous_hash, record_hash |-> o.record_hash,
                   host_signature |-> o.host_signature, host_key_id |-> o.host_key_id,
                   log_id |-> o.log_id]
           /\ o.event = r.event /\ o.seq = r.seq /\ o.host_ts = r.host_ts
           /\ o.previous_hash = r.previous_hash /\ o.record_hash = r.record_hash
           /\ KeyOf[c] = Nothing =>
                o.host_signature = Nothing /\ o.host_key_id = Nothing /\ o.log_id = Nothing
           /\ KeyOf[c] # Nothing =>
                /\ o.host_key_id = KeyOf[c] /\ o.log_id = LogOf[c]
                /\ o.host_signature.by = HostKeys[KeyOf[c]]
                /\ o.host_signature.payload.log_id = LogOf[c]
                /\ o.host_signature.payload.fields =
                     countersignaturePayload(r.seq, r.host_ts, r.previous_hash, r.record_hash)
BY DEF sealedBy, payloadOf

\* One more link.
LEMMA HistoryGrows ==
    ASSUME NEW c \in Chains, NEW n \in 1..Len(ScriptOf[c])
    PROVE  historyOf(c, n) = computeRecordHash(ScriptOf[c][n], n - 1, n, historyOf(c, n - 1))
<1> DEFINE Links == [event : VersionedEvents, seq : Nat, host_ts : Nat]
<1>1. ScriptOf[c] \in Seq(VersionedEvents)
  BY PresentedAssumption
<1>2. \A k \in 1..n : Link(ScriptOf[c][k], k - 1, k) \in Links
  BY <1>1 DEF Link
<1>3. historyOf(c, n - 1) \in Seq(Links) /\ Len(historyOf(c, n - 1)) = n - 1
  BY <1>1, <1>2 DEF historyOf
<1> QED
  BY <1>1, <1>2, <1>3 DEF historyOf, computeRecordHash

\* A chain record by record.
LEMMA SealedChain ==
    ASSUME NEW c \in Chains
    PROVE  sealChain[c] = [n \in 1..Len(ScriptOf[c]) |-> originalOf(c, n)]
<1> DEFINE Script == ScriptOf[c]
           beginning == [n \in 0..Len(Script) |-> [k \in 1..n |-> originalOf(c, k)]]
           Step(f) == [n \in 0..Len(Script) |->
                         IF n = 0 THEN << >>
                         ELSE Append(f[n - 1],
                                sealedBy(c, sealedRecord(f[n - 1], ScriptOf[c][n], n, FALSE)))]
           sealed == CHOOSE f : f = Step(f)
<1>1. sealChain[c] = sealed[Len(Script)]
  BY DEF sealChain
<1>2. Script \in Seq(VersionedEvents) /\ Len(Script) \in Nat
  BY PresentedAssumption
<1>3. ASSUME NEW n \in 1..Len(Script)
      PROVE  beginning[n] = Append(beginning[n - 1],
                sealedBy(c, sealedRecord(beginning[n - 1], ScriptOf[c][n], n, FALSE)))
  <2> DEFINE before == beginning[n - 1]
             Records == {originalOf(c, k) : k \in 1..Len(Script)}
  <2>1. /\ before = [k \in 1..(n - 1) |-> originalOf(c, k)]
        /\ before \in Seq(Records) /\ Len(before) = n - 1
    <3>1. n - 1 \in 0..Len(Script) /\ n - 1 \in Nat
      BY <1>2
    <3>2. before = [k \in 1..(n - 1) |-> originalOf(c, k)]
      BY <3>1
    <3>3. \A k \in 1..(n - 1) : originalOf(c, k) \in Records
      BY <1>2
    <3> HIDE DEF before, Records
    <3> QED
      BY <3>1, <3>2, <3>3
  <2>2. digest(before) = historyOf(c, n - 1)
    <3>1. CASE n = 1
      BY <2>1, <3>1 DEF digest, historyOf, GENESIS_HASH
    <3>2. CASE n # 1
      <4> HIDE DEF before, Records
      <4>1. before # << >> /\ before[Len(before)] = originalOf(c, n - 1)
        BY <1>2, <2>1, <3>2
      <4> QED
        BY <4>1, SealedFields DEF digest, originalOf
    <3> QED
      BY <3>1, <3>2
  <2>3. sealedBy(c, sealedRecord(before, ScriptOf[c][n], n, FALSE)) = originalOf(c, n)
    <3> HIDE DEF before
    <3> QED
      BY <2>1, <2>2, HistoryGrows DEF sealedRecord, originalOf
  <2>4. beginning[n] = [k \in 1..n |-> originalOf(c, k)]
    BY <1>2
  <2>5. beginning[n] = Append(before, originalOf(c, n))
    <3> HIDE DEF before, beginning
    <3> QED
      BY <1>2, <2>1, <2>4
  <2> QED
    BY <2>3, <2>5
<1>4. beginning = Step(beginning)
  <2>1. beginning[0] = << >> /\ beginning = [n \in 0..Len(Script) |-> beginning[n]]
    BY <1>2
  <2> HIDE DEF beginning
  <2>2. \A n \in 0..Len(Script) :
           beginning[n] = IF n = 0 THEN << >>
                          ELSE Append(beginning[n - 1],
                                 sealedBy(c, sealedRecord(beginning[n - 1], ScriptOf[c][n], n, FALSE)))
    <3> SUFFICES ASSUME NEW n \in 0..Len(Script), n # 0
                 PROVE  beginning[n] =
                          Append(beginning[n - 1],
                                 sealedBy(c, sealedRecord(beginning[n - 1], ScriptOf[c][n], n, FALSE)))
      BY <2>1
    <3>1. n \in 1..Len(Script)
      BY <1>2
    <3> QED
      BY <1>3, <3>1
  <2> QED
    BY <2>1, <2>2
<1>5. ASSUME NEW f, f = Step(f)
      PROVE  f = beginning
  <2>1. /\ f = [n \in 0..Len(Script) |-> f[n]]
        /\ beginning = [n \in 0..Len(Script) |-> beginning[n]]
        /\ f[0] = beginning[0]
        /\ \A n \in 1..Len(Script) :
              f[n] = Append(f[n - 1], sealedBy(c, sealedRecord(f[n - 1], ScriptOf[c][n], n, FALSE)))
    BY <1>2, <1>5
  <2> HIDE DEF beginning, Step
  <2> DEFINE Differ == {n \in 0..Len(Script) : f[n] # beginning[n]}
  <2>2. Differ = {}
    <3> SUFFICES ASSUME Differ # {} PROVE FALSE
      OBVIOUS
    <3>1. Differ \subseteq Nat
      OBVIOUS
    <3>2. PICK n \in Differ : \A m \in Differ : ~(<<m, n>> \in OpToRel(<, Nat))
      BY <3>1, NatLessThanWellFounded, WFMin
    <3>3. n \in 1..Len(Script) /\ n - 1 \in 0..Len(Script) /\ n - 1 < n
      BY <1>2, <2>1
    <3>4. n - 1 \notin Differ
      BY <3>1, <3>2, <3>3 DEF OpToRel
    <3>5. f[n - 1] = beginning[n - 1]
      BY <3>3, <3>4
    <3> QED
      BY <1>3, <2>1, <3>3, <3>5
  <2> QED
    BY <2>1, <2>2
<1>6. sealed = beginning
  <2> HIDE DEF beginning, Step
  <2> QED
    BY <1>4, <1>5
<1>7. beginning[Len(Script)] = [n \in 1..Len(ScriptOf[c]) |-> originalOf(c, n)]
  BY <1>2
<1> HIDE DEF beginning, sealed
<1> QED
  BY <1>1, <1>6, <1>7

\* A record of a chain: its fields, and the countersignature if the host makes one.
LEMMA OriginalRecord ==
    ASSUME NEW c \in Chains, NEW n \in DOMAIN sealChain[c]
    PROVE  LET o == sealChain[c][n] IN
           /\ n \in 1..Len(ScriptOf[c]) /\ o = originalOf(c, n)
           /\ o = [event |-> o.event, seq |-> o.seq, host_ts |-> o.host_ts,
                   previous_hash |-> o.previous_hash, record_hash |-> o.record_hash,
                   host_signature |-> o.host_signature, host_key_id |-> o.host_key_id,
                   log_id |-> o.log_id]
           /\ o.event = ScriptOf[c][n] /\ o.seq = n - 1 /\ o.host_ts = n
           /\ o.previous_hash = historyOf(c, n - 1) /\ o.record_hash = historyOf(c, n)
           /\ c \notin Countersigned =>
                o.host_signature = Nothing /\ o.host_key_id = Nothing /\ o.log_id = Nothing
           /\ c \in Countersigned =>
                /\ o.host_key_id = KeyOf[c] /\ o.log_id = LogOf[c]
                /\ o.host_signature.by = HostKeys[KeyOf[c]]
                /\ o.host_signature.payload.log_id = LogOf[c]
                /\ o.host_signature.payload.fields =
                     countersignaturePayload(o.seq, o.host_ts, o.previous_hash, o.record_hash)
<1>1. n \in 1..Len(ScriptOf[c]) /\ sealChain[c][n] = originalOf(c, n)
  BY SealedChain
<1> DEFINE r == [event |-> ScriptOf[c][n], seq |-> n - 1, host_ts |-> n,
                 previous_hash |-> historyOf(c, n - 1), record_hash |-> historyOf(c, n),
                 host_signature |-> {}]
           o == sealedBy(c, r)
<1>2. originalOf(c, n) = o
  BY DEF originalOf
<1>3. /\ r.event = ScriptOf[c][n] /\ r.seq = n - 1 /\ r.host_ts = n
      /\ r.previous_hash = historyOf(c, n - 1) /\ r.record_hash = historyOf(c, n)
  OBVIOUS
<1> HIDE DEF r
<1>4. /\ o = [event |-> o.event, seq |-> o.seq, host_ts |-> o.host_ts,
              previous_hash |-> o.previous_hash, record_hash |-> o.record_hash,
              host_signature |-> o.host_signature, host_key_id |-> o.host_key_id,
              log_id |-> o.log_id]
      /\ o.event = r.event /\ o.seq = r.seq /\ o.host_ts = r.host_ts
      /\ o.previous_hash = r.previous_hash /\ o.record_hash = r.record_hash
      /\ KeyOf[c] = Nothing =>
           o.host_signature = Nothing /\ o.host_key_id = Nothing /\ o.log_id = Nothing
      /\ KeyOf[c] # Nothing =>
           /\ o.host_key_id = KeyOf[c] /\ o.log_id = LogOf[c]
           /\ o.host_signature.by = HostKeys[KeyOf[c]]
           /\ o.host_signature.payload.log_id = LogOf[c]
           /\ o.host_signature.payload.fields =
                countersignaturePayload(r.seq, r.host_ts, r.previous_hash, r.record_hash)
  BY SealedFields
<1> HIDE DEF o
<1>5. c \in Countersigned <=> KeyOf[c] # Nothing
  BY DEF Countersigned
<1> QED
  BY <1>1, <1>2, <1>3, <1>4, <1>5

\* Its countersignature, if the host makes one.
LEMMA OriginalSignature ==
    ASSUME NEW c \in Countersigned, NEW n \in DOMAIN sealChain[c]
    PROVE  LET o == sealChain[c][n] IN
           o.host_signature = [payload |-> payloadOf(o), by |-> HostKeys[KeyOf[c]]]
<1>1. c \in Chains /\ KeyOf[c] # Nothing
  BY DEF Countersigned
<1> DEFINE r == [event |-> ScriptOf[c][n], seq |-> n - 1, host_ts |-> n,
                 previous_hash |-> historyOf(c, n - 1), record_hash |-> historyOf(c, n),
                 host_signature |-> {}]
           o == sealedBy(c, r)
<1>2. sealChain[c][n] = o
  BY <1>1, OriginalRecord DEF originalOf
<1> HIDE DEF r
<1>3. o.host_signature = [payload |-> payloadOf(o), by |-> HostKeys[KeyOf[c]]]
  BY <1>1 DEF sealedBy, payloadOf
<1> QED
  BY <1>2, <1>3

-----------------------------------------------------------------------------
(***************************************************************************)
(* What a report without issues says of each record.                       *)
(***************************************************************************)

\* Records 1 to n as the links a hash commits to.
linksOf(records, n) ==
    [k \in 1..n |-> Link(records[k].event, records[k].seq, records[k].host_ts)]

IsLedger(records) ==
    /\ Len(records) \in Nat
    /\ records = [n \in 1..Len(records) |-> records[n]]

\* The hash of a ledger whose records can all be hashed is the whole of it.
LEMMA HashIsWhole ==
    ASSUME NEW records, IsLedger(records), \A n \in DOMAIN records : hashable(records[n])
    PROVE  chainHash(records) = [n \in 0..Len(records) |-> linksOf(records, n)]
<1> DEFINE whole == [n \in 0..Len(records) |-> linksOf(records, n)]
           Step(h) == [n \in 0..Len(records) |->
                         IF n = 0 THEN GENESIS_HASH
                         ELSE IF ~hashable(records[n]) THEN records[n].record_hash
                         ELSE computeRecordHash(records[n].event, records[n].seq,
                                                records[n].host_ts, h[n - 1])]
<1>1. chainHash(records) = CHOOSE h : h = Step(h)
  BY DEF chainHash
<1>2. Len(records) \in Nat /\ DOMAIN records = 1..Len(records)
  BY DEF IsLedger
<1>3. ASSUME NEW n \in 1..Len(records)
      PROVE  whole[n] = computeRecordHash(records[n].event, records[n].seq,
                                          records[n].host_ts, whole[n - 1])
  <2> DEFINE Links == {Link(records[k].event, records[k].seq, records[k].host_ts) :
                          k \in 1..Len(records)}
             before == linksOf(records, n - 1)
             link == Link(records[n].event, records[n].seq, records[n].host_ts)
  <2>1. n - 1 \in Nat /\ n - 1 \in 0..Len(records) /\ n \in 0..Len(records)
    BY <1>2
  <2>2. whole[n - 1] = before /\ whole[n] = linksOf(records, n)
    BY <2>1
  <2>3. before = [k \in 1..(n - 1) |-> Link(records[k].event, records[k].seq, records[k].host_ts)]
    BY DEF linksOf
  <2>4. /\ link \in Links
        /\ \A k \in 1..(n - 1) : Link(records[k].event, records[k].seq, records[k].host_ts) \in Links
    BY <1>2
  <2>5. before \in Seq(Links) /\ Len(before) = n - 1
    <3> HIDE DEF before, Links, link
    <3> QED
      BY <2>1, <2>3, <2>4
  <2>6. linksOf(records, n) = Append(before, link)
    <3>1. linksOf(records, n) =
            [k \in 1..n |-> Link(records[k].event, records[k].seq, records[k].host_ts)]
      BY DEF linksOf
    <3> HIDE DEF before, Links
    <3> QED
      BY <2>1, <2>3, <2>4, <2>5, <3>1
  <2> QED
    BY <2>2, <2>6 DEF computeRecordHash
<1>4. /\ whole = [n \in 0..Len(records) |-> whole[n]]
      /\ whole[0] = GENESIS_HASH
  BY <1>2 DEF linksOf, GENESIS_HASH
<1> HIDE DEF whole
<1>5. whole = Step(whole)
  <2>1. \A n \in 0..Len(records) :
           whole[n] = IF n = 0 THEN GENESIS_HASH
                      ELSE IF ~hashable(records[n]) THEN records[n].record_hash
                      ELSE computeRecordHash(records[n].event, records[n].seq,
                                             records[n].host_ts, whole[n - 1])
    <3> SUFFICES ASSUME NEW n \in 0..Len(records), n # 0
                 PROVE  /\ hashable(records[n])
                        /\ whole[n] = computeRecordHash(records[n].event, records[n].seq,
                                                        records[n].host_ts, whole[n - 1])
      BY <1>4
    <3>1. n \in 1..Len(records)
      BY <1>2
    <3> QED
      BY <1>2, <1>3, <3>1
  <2> QED
    BY <1>4, <2>1
<1>6. ASSUME NEW h, h = Step(h)
      PROVE  h = whole
  <2>1. /\ h = [n \in 0..Len(records) |-> h[n]] /\ h[0] = whole[0]
        /\ \A n \in 1..Len(records) :
              h[n] = computeRecordHash(records[n].event, records[n].seq, records[n].host_ts, h[n - 1])
    <3>1. /\ h = [n \in 0..Len(records) |-> h[n]]
          /\ \A n \in 0..Len(records) :
                h[n] = IF n = 0 THEN GENESIS_HASH
                       ELSE IF ~hashable(records[n]) THEN records[n].record_hash
                       ELSE computeRecordHash(records[n].event, records[n].seq,
                                              records[n].host_ts, h[n - 1])
      <4> DEFINE entry(n) == IF n = 0 THEN GENESIS_HASH
                             ELSE IF ~hashable(records[n]) THEN records[n].record_hash
                             ELSE computeRecordHash(records[n].event, records[n].seq,
                                                    records[n].host_ts, h[n - 1])
      <4>1. h = [n \in 0..Len(records) |-> entry(n)]
        BY <1>6
      <4> HIDE DEF entry
      <4>2. /\ h = [n \in 0..Len(records) |-> h[n]]
            /\ \A n \in 0..Len(records) : h[n] = entry(n)
        BY <4>1
      <4> QED
        BY <4>2 DEF entry
    <3>2. \A n \in 1..Len(records) : n \in 0..Len(records) /\ n # 0 /\ n \in DOMAIN records
      BY <1>2
    <3> QED
      BY <1>2, <1>4, <3>1, <3>2
  <2> DEFINE Differ == {n \in 0..Len(records) : h[n] # whole[n]}
  <2> HIDE DEF Step
  <2>2. Differ = {}
    <3> SUFFICES ASSUME Differ # {} PROVE FALSE
      OBVIOUS
    <3>1. Differ \subseteq Nat
      OBVIOUS
    <3>2. PICK n \in Differ : \A m \in Differ : ~(<<m, n>> \in OpToRel(<, Nat))
      BY <3>1, NatLessThanWellFounded, WFMin
    <3>3. n \in 1..Len(records) /\ n - 1 \in 0..Len(records) /\ n - 1 < n
      BY <1>2, <2>1
    <3>4. n - 1 \notin Differ
      BY <3>1, <3>2, <3>3 DEF OpToRel
    <3>5. h[n - 1] = whole[n - 1]
      BY <3>3, <3>4
    <3> QED
      BY <1>3, <2>1, <3>3, <3>5
  <2> QED
    BY <1>4, <2>1, <2>2
<1> HIDE DEF Step
<1> QED
  BY <1>1, <1>5, <1>6 DEF whole

\* A report without issues has none of any kind.
LEMMA NoIssues ==
    ASSUME NEW records, NEW inputs, issuesOf(records, inputs) = {}
    PROVE  /\ schemaIssues(records) = {} /\ seqIssues(records) = {} /\ hashIssues(records) = {}
           /\ \A keys \in inputs.keyRegistry : signatureIssues(records, keys) = {}
           /\ hostIssues(records, inputs) = {} /\ identityIssues(records, inputs) = {}
           /\ anchorIssues(records, inputs) = {}
<1>1. /\ schemaIssues(records) = {} /\ seqIssues(records) = {} /\ hashIssues(records) = {}
      /\ toolIssues(records, inputs) = {} /\ hostIssues(records, inputs) = {}
      /\ identityIssues(records, inputs) = {} /\ anchorIssues(records, inputs) = {}
  BY DEF issuesOf
<1>2. \A keys \in inputs.keyRegistry : signatureIssues(records, keys) = {}
  BY <1>1 DEF toolIssues
<1> QED
  BY <1>1, <1>2

\* Then every record is in its place, and its hash is that of all records up to it.
LEMMA RecordsFit ==
    ASSUME NEW records, NEW inputs, IsLedger(records), issuesOf(records, inputs) = {},
           \A n \in DOMAIN records : records[n].host_ts # OutOfDomain
    PROVE  /\ \A n \in DOMAIN records :
                 /\ hashable(records[n])
                 /\ records[n].seq = n - 1
                 /\ records[n].previous_hash = linksOf(records, n - 1)
                 /\ records[n].record_hash = linksOf(records, n)
           /\ chainHash(records) = [n \in 0..Len(records) |-> linksOf(records, n)]
<1>1. schemaIssues(records) = {} /\ seqIssues(records) = {} /\ hashIssues(records) = {}
  BY NoIssues
<1>2. \A n \in DOMAIN records : hashable(records[n])
  BY <1>1 DEF schemaIssues, structureError, hashable
<1>3. \A n \in DOMAIN records : records[n].seq = n - 1
  BY <1>1 DEF seqIssues
<1>4. chainHash(records) = [n \in 0..Len(records) |-> linksOf(records, n)]
  BY <1>2, HashIsWhole
<1>5. \A n \in DOMAIN records :
         /\ records[n].previous_hash = chainHash(records)[n - 1]
         /\ records[n].record_hash = chainHash(records)[n]
  BY <1>1, <1>2 DEF hashIssues
<1>6. \A n \in DOMAIN records : n \in 0..Len(records) /\ n - 1 \in 0..Len(records)
  BY DEF IsLedger
<1> QED
  BY <1>2, <1>3, <1>4, <1>5, <1>6

-----------------------------------------------------------------------------
(***************************************************************************)
(* A digest fixes the ledger.                                              *)
(***************************************************************************)

\* The digest of a chain is its whole history.
LEMMA DigestIsHistory ==
    ASSUME NEW c \in Chains
    PROVE  digest(sealChain[c]) = historyOf(c, Len(ScriptOf[c]))
<1> DEFINE N == Len(ScriptOf[c])
<1>1. N \in Nat /\ sealChain[c] = [n \in 1..N |-> originalOf(c, n)]
  <2>1. N \in Nat
    BY PresentedAssumption
  <2> QED
    BY <2>1, SealedChain
<1>2. CASE N = 0
  <2>1. sealChain[c] = << >>
    BY <1>1, <1>2
  <2> QED
    BY <1>2, <2>1 DEF digest, historyOf, GENESIS_HASH
<1>3. CASE N # 0
  <2>1. Len(sealChain[c]) = N /\ sealChain[c] # << >> /\ N \in DOMAIN sealChain[c]
    BY <1>1, <1>3
  <2>2. sealChain[c][N].record_hash = historyOf(c, N)
    BY <2>1, OriginalRecord
  <2> QED
    BY <2>1, <2>2 DEF digest
<1> QED
  BY <1>2, <1>3

\* Equal hashes commit to equal records.
LEMMA SameHistory ==
    ASSUME NEW records, IsLedger(records), NEW c \in Chains, NEW n \in Nat,
           NEW m \in 0..Len(ScriptOf[c]), linksOf(records, n) = historyOf(c, m)
    PROVE  /\ n = m
           /\ \A k \in 1..n :
                 /\ records[k].event = ScriptOf[c][k]
                 /\ records[k].seq = k - 1 /\ records[k].host_ts = k
                 /\ linksOf(records, k) = historyOf(c, k)
<1>1. n = m
  <2>1. DOMAIN linksOf(records, n) = 1..n /\ DOMAIN historyOf(c, m) = 1..m
    BY DEF linksOf, historyOf
  <2>2. m \in Nat
    BY PresentedAssumption
  <2>3. 1..n = 1..m
    BY <2>1
  <2> QED
    BY <2>2, <2>3
<1>2. ASSUME NEW k \in 1..n
      PROVE  Link(records[k].event, records[k].seq, records[k].host_ts) =
               Link(ScriptOf[c][k], k - 1, k)
  <2>1. linksOf(records, n)[k] = Link(records[k].event, records[k].seq, records[k].host_ts)
    BY DEF linksOf
  <2>2. historyOf(c, n)[k] = Link(ScriptOf[c][k], k - 1, k)
    BY DEF historyOf
  <2> QED
    BY <1>1, <2>1, <2>2
<1>3. ASSUME NEW k \in 1..n
      PROVE  linksOf(records, k) = historyOf(c, k)
  <2>1. \A j \in 1..k : j \in 1..n
    OBVIOUS
  <2> QED
    BY <1>2, <2>1 DEF linksOf, historyOf
<1>4. ASSUME NEW k \in 1..n
      PROVE  records[k].event = ScriptOf[c][k] /\ records[k].seq = k - 1 /\ records[k].host_ts = k
  BY <1>2 DEF Link
<1> QED
  BY <1>1, <1>3, <1>4

\* A copy in which nothing is found against the digest of a chain has its content.
LEMMA AnchorFixes ==
    ASSUME NEW records, NEW inputs, IsLedger(records),
           \A n \in DOMAIN records : records[n].host_ts # OutOfDomain,
           NEW c \in Chains, inputs.anchored = {digest(sealChain[c])},
           issuesOf(records, inputs) = {}
    PROVE  Content(records) = Content(sealChain[c])
<1> DEFINE N == Len(ScriptOf[c])
           L == Len(records)
<1>1. /\ L \in Nat /\ DOMAIN records = 1..L
      /\ N \in Nat /\ DOMAIN sealChain[c] = 1..N
  <2>1. N \in Nat
    BY PresentedAssumption
  <2>2. DOMAIN sealChain[c] = 1..N
    BY SealedChain
  <2>3. L \in Nat /\ DOMAIN records = 1..L
    BY DEF IsLedger
  <2> QED
    BY <2>1, <2>2, <2>3
<1>2. /\ \A n \in DOMAIN records :
            /\ records[n].previous_hash = linksOf(records, n - 1)
            /\ records[n].record_hash = linksOf(records, n)
      /\ chainHash(records) = [n \in 0..Len(records) |-> linksOf(records, n)]
  BY RecordsFit
<1>3. digest(sealChain[c]) = chainHash(records)[L]
  BY NoIssues DEF anchorIssues
<1>4. linksOf(records, L) = historyOf(c, N)
  BY <1>1, <1>2, <1>3, DigestIsHistory
<1>5. /\ L = N
      /\ \A k \in 1..L :
            /\ records[k].event = ScriptOf[c][k]
            /\ records[k].seq = k - 1 /\ records[k].host_ts = k
            /\ linksOf(records, k) = historyOf(c, k)
  BY <1>1, <1>4, SameHistory
<1>6. linksOf(records, 0) = historyOf(c, 0)
  BY DEF linksOf, historyOf
<1>7. ASSUME NEW n \in 1..L
      PROVE  /\ records[n].event = sealChain[c][n].event
             /\ records[n].seq = sealChain[c][n].seq
             /\ records[n].host_ts = sealChain[c][n].host_ts
             /\ records[n].previous_hash = sealChain[c][n].previous_hash
             /\ records[n].record_hash = sealChain[c][n].record_hash
  <2>1. c \in Chains /\ n \in DOMAIN sealChain[c] /\ n \in DOMAIN records
    BY <1>1, <1>5
  <2>2. linksOf(records, n - 1) = historyOf(c, n - 1)
    <3>1. n - 1 = 0 \/ n - 1 \in 1..L
      BY <1>1
    <3> QED
      BY <1>5, <1>6, <3>1
  <2>3. /\ sealChain[c][n].event = ScriptOf[c][n] /\ sealChain[c][n].seq = n - 1
        /\ sealChain[c][n].host_ts = n
        /\ sealChain[c][n].previous_hash = historyOf(c, n - 1)
        /\ sealChain[c][n].record_hash = historyOf(c, n)
    BY ONLY <2>1, OriginalRecord
  <2> QED
    BY <1>2, <1>5, <2>1, <2>2, <2>3
<1> QED
  BY <1>1, <1>5, <1>7 DEF Content

-----------------------------------------------------------------------------
(***************************************************************************)
(* What a countersignature that verifies proves.                           *)
(***************************************************************************)

\* Every key id of a host stands for a key of its own.
OwnKeys == \A k, j \in HostKeyIds : HostKeys[k] = HostKeys[j] => k = j

\* Whoever made the countersignature: nobody, the tool, or a host for a record of
\* one of its chains.
SignedBySomebody(r) ==
    \/ r.host_signature = Nothing
    \/ r.host_signature.by = ToolKey
    \/ \E c \in Countersigned : \E k \in DOMAIN sealChain[c] :
          r.host_signature = sealChain[c][k].host_signature

\* The times a record may show.
Times == {t \in Nat \cup {OutOfDomain} : t = OutOfDomain => "host_ts" \in MaySpoil}

\* A record as storage may leave it.
IsRecord(r) ==
    /\ r = [event |-> r.event, seq |-> r.seq, host_ts |-> r.host_ts,
            previous_hash |-> r.previous_hash, record_hash |-> r.record_hash,
            host_signature |-> r.host_signature, host_key_id |-> r.host_key_id,
            log_id |-> r.log_id]
    /\ r.host_ts \in Times
    /\ r.host_key_id \in HostKeyIds \cup {Nothing}
    /\ SignedBySomebody(r)

\* A record with a countersignature that is a host's is that host's record.
LEMMA CountersignatureBinds ==
    ASSUME "host_ts" \notin MaySpoil, OwnKeys, NEW records, NEW inputs, IsLedger(records),
           \A m \in DOMAIN records : IsRecord(records[m]),
           issuesOf(records, inputs) = {},
           NEW n \in DOMAIN records, present(records[n]) = triple,
           NEW k \in HostKeyIds, records[n].host_key_id = k,
           records[n].host_signature = [payload |-> payloadOf(records[n]), by |-> HostKeys[k]]
    PROVE  \E c \in Countersigned :
              /\ KeyOf[c] = k /\ LogOf[c] = records[n].log_id
              /\ n \in DOMAIN sealChain[c] /\ records[n] = sealChain[c][n]
<1> DEFINE r == records[n]
<1>1. r.host_signature # Nothing
  BY DEF present, triple
<1>2. r.host_signature.by = HostKeys[k] /\ HostKeys[k] # ToolKey
  BY PresentedAssumption
<1>3. PICK c \in Countersigned :
         \E j \in DOMAIN sealChain[c] : r.host_signature = sealChain[c][j].host_signature
  BY <1>1, <1>2 DEF IsRecord, SignedBySomebody
<1> PICK m \in DOMAIN sealChain[c] : r.host_signature = sealChain[c][m].host_signature
  BY <1>3
<1> DEFINE o == sealChain[c][m]
<1>4. /\ c \in Chains /\ KeyOf[c] # Nothing /\ KeyOf[c] \in HostKeyIds
  BY <1>3, PresentedAssumption DEF Countersigned
<1>5. /\ m \in 1..Len(ScriptOf[c])
      /\ o = [event |-> o.event, seq |-> o.seq, host_ts |-> o.host_ts,
              previous_hash |-> o.previous_hash, record_hash |-> o.record_hash,
              host_signature |-> o.host_signature, host_key_id |-> o.host_key_id,
              log_id |-> o.log_id]
      /\ o.event = ScriptOf[c][m] /\ o.seq = m - 1 /\ o.host_ts = m
      /\ o.record_hash = historyOf(c, m)
      /\ o.host_key_id = KeyOf[c] /\ o.log_id = LogOf[c]
      /\ o.host_signature.by = HostKeys[KeyOf[c]]
      /\ o.host_signature.payload.log_id = LogOf[c]
      /\ o.host_signature.payload.fields =
           countersignaturePayload(o.seq, o.host_ts, o.previous_hash, o.record_hash)
  <2>1. c \in Chains /\ m \in DOMAIN sealChain[c] /\ c \in Countersigned
    BY <1>3, <1>4
  <2> QED
    BY ONLY <2>1, OriginalRecord
<1> HIDE DEF o
<1>6. KeyOf[c] = k
  BY <1>2, <1>3, <1>4, <1>5 DEF OwnKeys, o
<1>7. /\ r.log_id = LogOf[c]
      /\ countersignaturePayload(r.seq, r.host_ts, r.previous_hash, r.record_hash) =
           countersignaturePayload(o.seq, o.host_ts, o.previous_hash, o.record_hash)
  <2>1. r.host_signature.payload = payloadOf(r)
    OBVIOUS
  <2>2. /\ payloadOf(r).log_id = r.log_id
        /\ payloadOf(r).fields =
             countersignaturePayload(r.seq, r.host_ts, r.previous_hash, r.record_hash)
    BY DEF payloadOf
  <2>3. r.host_signature = o.host_signature
    BY <1>3 DEF o
  <2> HIDE DEF r
  <2> QED
    BY <1>5, <2>1, <2>2, <2>3
<1>8. /\ r.seq = o.seq /\ r.host_ts = o.host_ts
      /\ r.previous_hash = o.previous_hash /\ r.record_hash = o.record_hash
  BY <1>7 DEF countersignaturePayload
<1>9. /\ r.seq = n - 1 /\ r.record_hash = linksOf(records, n) /\ n \in Nat /\ n \in 1..n
  <2>1. \A j \in DOMAIN records : records[j].host_ts # OutOfDomain
    BY OutOfDomainAssumption DEF IsRecord, Times
  <2>2. \A j \in DOMAIN records :
           records[j].seq = j - 1 /\ records[j].record_hash = linksOf(records, j)
    BY <2>1, RecordsFit
  <2>3. n \in Nat /\ n # 0
    BY DEF IsLedger
  <2> QED
    BY <2>2, <2>3
<1>10. n = m /\ r.event = o.event
  <2>1. linksOf(records, n) = historyOf(c, m) /\ m \in 0..Len(ScriptOf[c])
    BY <1>5, <1>8, <1>9
  <2> QED
    BY <1>4, <1>5, <1>9, <2>1, SameHistory
<1>11. r = o
  <2>1. r = [event |-> r.event, seq |-> r.seq, host_ts |-> r.host_ts,
             previous_hash |-> r.previous_hash, record_hash |-> r.record_hash,
             host_signature |-> r.host_signature, host_key_id |-> r.host_key_id,
             log_id |-> r.log_id]
    BY DEF IsRecord
  <2>2. r.host_signature = o.host_signature /\ r.host_key_id = o.host_key_id /\ r.log_id = o.log_id
    BY <1>3, <1>5, <1>6, <1>7 DEF o
  <2> HIDE DEF r
  <2> QED
    BY <1>5, <1>8, <1>10, <2>1, <2>2
<1> QED
  BY <1>3, <1>6, <1>7, <1>10, <1>11 DEF o

-----------------------------------------------------------------------------
(***************************************************************************)
(* What storage may do keeps the records' shape, and makes nobody sign.    *)
(***************************************************************************)

GoodLedger(records) ==
    IsLedger(records) /\ \A n \in DOMAIN records : IsRecord(records[n])

\* A ledger of records, wherever they come from.
LEMMA LedgerOfRecords ==
    ASSUME NEW S, NEW records \in Seq(S), \A r \in S : IsRecord(r)
    PROVE  GoodLedger(records)
<1>1. Len(records) \in Nat /\ records = [n \in 1..Len(records) |-> records[n]]
  OBVIOUS
<1>2. \A n \in DOMAIN records : records[n] \in S
  OBVIOUS
<1> QED
  BY <1>1, <1>2 DEF GoodLedger, IsLedger

\* The other way around.
LEMMA RecordsOfLedger ==
    ASSUME NEW records, GoodLedger(records)
    PROVE  /\ records \in Seq({records[n] : n \in DOMAIN records})
           /\ \A r \in {records[n] : n \in DOMAIN records} : IsRecord(r)
<1> DEFINE S == {records[n] : n \in DOMAIN records}
<1>1. /\ Len(records) \in Nat /\ DOMAIN records = 1..Len(records)
      /\ records = [n \in 1..Len(records) |-> records[n]]
  BY DEF GoodLedger, IsLedger
<1>2. \A n \in 1..Len(records) : records[n] \in S
  BY <1>1
<1>3. \A r \in S : IsRecord(r)
  BY DEF GoodLedger
<1>4. records \in Seq(S)
  <2> HIDE DEF S
  <2> QED
    BY <1>1, <1>2
<1> QED
  BY <1>3, <1>4

\* What the hosts sealed.
LEMMA OriginalsGood ==
    ASSUME NEW r \in Originals
    PROVE  IsRecord(r)
<1>1. PICK c \in Chains : \E k \in DOMAIN sealChain[c] : r = sealChain[c][k]
  BY DEF Originals, Range
<1>2. PICK k \in DOMAIN sealChain[c] : r = sealChain[c][k]
  BY <1>1
<1>3. /\ k \in 1..Len(ScriptOf[c])
      /\ r = [event |-> r.event, seq |-> r.seq, host_ts |-> r.host_ts,
              previous_hash |-> r.previous_hash, record_hash |-> r.record_hash,
              host_signature |-> r.host_signature, host_key_id |-> r.host_key_id,
              log_id |-> r.log_id]
      /\ r.host_ts = k
      /\ c \notin Countersigned => r.host_signature = Nothing /\ r.host_key_id = Nothing
      /\ c \in Countersigned => r.host_key_id = KeyOf[c]
  BY <1>2, OriginalRecord
<1>4. r.host_ts \in Times
  <2>1. r.host_ts \in Nat
    BY <1>3, PresentedAssumption
  <2> QED
    BY <2>1, OutOfDomainAssumption DEF Times
<1>5. SignedBySomebody(r)
  BY <1>2, <1>3 DEF SignedBySomebody
<1>6. r.host_key_id \in HostKeyIds \cup {Nothing}
  BY <1>3, PresentedAssumption
<1> QED
  BY <1>3, <1>4, <1>5, <1>6 DEF IsRecord

\* A beginning of a chain.
LEMMA BeginningGood ==
    ASSUME NEW c \in Chains, NEW n \in 0..Len(sealChain[c])
    PROVE  GoodLedger(SubSeq(sealChain[c], 1, n))
<1> DEFINE N == Len(ScriptOf[c])
<1>1. N \in Nat
  BY PresentedAssumption
<1>2. sealChain[c] = [k \in 1..N |-> originalOf(c, k)]
  BY SealedChain
<1>3. \A k \in 1..N : originalOf(c, k) \in Originals
  <2> SUFFICES ASSUME NEW k \in 1..N PROVE originalOf(c, k) \in Originals
    OBVIOUS
  <2>1. k \in DOMAIN sealChain[c] /\ sealChain[c][k] = originalOf(c, k)
    BY <1>2
  <2> QED
    BY <2>1 DEF Originals, Range
<1>4. sealChain[c] \in Seq(Originals)
  BY <1>1, <1>2, <1>3
<1>5. SubSeq(sealChain[c], 1, n) \in Seq(Originals)
  BY <1>4
<1> QED
  BY <1>5, OriginalsGood, LedgerOfRecords

\* One record in place of another.
LEMMA ReplacedGood ==
    ASSUME NEW records, GoodLedger(records), NEW n \in DOMAIN records, NEW r, IsRecord(r)
    PROVE  GoodLedger([records EXCEPT ![n] = r])
<1> DEFINE S == {records[m] : m \in DOMAIN records}
<1>1. records \in Seq(S) /\ \A x \in S : IsRecord(x)
  BY RecordsOfLedger
<1> HIDE DEF S
<1>2. [records EXCEPT ![n] = r] \in Seq(S \cup {r})
  BY <1>1
<1> QED
  BY <1>1, <1>2, LedgerOfRecords

\* One record more.
LEMMA InsertedGood ==
    ASSUME NEW records, GoodLedger(records), NEW n \in DOMAIN records, NEW r, IsRecord(r)
    PROVE  GoodLedger(InsertAt(records, n, r))
<1> DEFINE S == {records[m] : m \in DOMAIN records}
<1>1. records \in Seq(S) /\ \A x \in S : IsRecord(x)
  BY RecordsOfLedger
<1> HIDE DEF S
<1>2. InsertAt(records, n, r) \in Seq(S \cup {r})
  <2>1. /\ SubSeq(records, 1, n - 1) \in Seq(S \cup {r})
        /\ SubSeq(records, n, Len(records)) \in Seq(S \cup {r})
        /\ <<r>> \in Seq(S \cup {r})
    BY <1>1
  <2> QED
    BY <2>1 DEF InsertAt
<1> QED
  BY <1>1, <1>2, LedgerOfRecords

\* One record less.
LEMMA RemovedGood ==
    ASSUME NEW records, GoodLedger(records), NEW n \in DOMAIN records
    PROVE  GoodLedger(RemoveAt(records, n))
<1> DEFINE S == {records[m] : m \in DOMAIN records}
<1>1. records \in Seq(S) /\ \A x \in S : IsRecord(x)
  BY RecordsOfLedger
<1> HIDE DEF S
<1>2. RemoveAt(records, n) \in Seq(S)
  <2>1. SubSeq(records, 1, n - 1) \in Seq(S) /\ SubSeq(records, n + 1, Len(records)) \in Seq(S)
    BY <1>1
  <2> QED
    BY <2>1 DEF RemoveAt
<1> QED
  BY <1>1, <1>2, LedgerOfRecords

\* Positions and hashes recomputed.
LEMMA RehashedGood ==
    ASSUME GoodLedger(presented), rehash
    PROVE  GoodLedger(presented')
<1> DEFINE placed == [n \in DOMAIN presented |-> [presented[n] EXCEPT !.seq = n - 1]]
           hash == chainHash(placed)
<1>1. presented' = [n \in DOMAIN presented |->
                      [placed[n] EXCEPT !.previous_hash = hash[n - 1], !.record_hash = hash[n]]]
  BY DEF rehash, becomes
<1> HIDE DEF hash
<1>2. ASSUME NEW n \in DOMAIN presented
      PROVE  IsRecord(presented'[n])
  <2> DEFINE r == presented[n]
             p == hash[n - 1]
             h == hash[n]
  <2>1. presented'[n] = [[r EXCEPT !.seq = n - 1] EXCEPT !.previous_hash = p, !.record_hash = h]
    BY <1>1
  <2>2. IsRecord(r)
    BY DEF GoodLedger
  <2> HIDE DEF r, p, h
  <2>3. /\ presented'[n] = [event |-> r.event, seq |-> n - 1, host_ts |-> r.host_ts,
                            previous_hash |-> p, record_hash |-> h,
                            host_signature |-> r.host_signature, host_key_id |-> r.host_key_id,
                            log_id |-> r.log_id]
    BY <2>1, <2>2 DEF IsRecord
  <2> QED
    BY <2>2, <2>3 DEF IsRecord, SignedBySomebody
<1>3. /\ Len(presented) \in Nat /\ DOMAIN presented = 1..Len(presented)
  BY DEF GoodLedger, IsLedger
<1>4. DOMAIN presented' = 1..Len(presented) /\ presented' = [n \in 1..Len(presented) |-> presented'[n]]
  BY <1>1, <1>3
<1>5. Len(presented') = Len(presented)
  BY <1>3, <1>4
<1> QED
  BY <1>2, <1>3, <1>4, <1>5 DEF GoodLedger, IsLedger

\* The triple of a record replaced.
withTriple(r, signature, keyId, logId) ==
    [event |-> r.event, seq |-> r.seq, host_ts |-> r.host_ts,
     previous_hash |-> r.previous_hash, record_hash |-> r.record_hash,
     host_signature |-> signature, host_key_id |-> keyId, log_id |-> logId]

\* A record that is given another's countersignature, or none, still has the shape of one.
LEMMA TripleGood ==
    ASSUME NEW r, IsRecord(r), NEW s, NEW k \in HostKeyIds \cup {Nothing}, NEW l,
           \/ s = Nothing \/ s = r.host_signature \/ s.by = ToolKey
           \/ \E o : IsRecord(o) /\ s = o.host_signature
    PROVE  IsRecord(withTriple(r, s, k, l))
<1> DEFINE w == withTriple(r, s, k, l)
<1>1. /\ w = [event |-> w.event, seq |-> w.seq, host_ts |-> w.host_ts,
              previous_hash |-> w.previous_hash, record_hash |-> w.record_hash,
              host_signature |-> w.host_signature, host_key_id |-> w.host_key_id,
              log_id |-> w.log_id]
      /\ w.host_ts = r.host_ts /\ w.host_signature = s /\ w.host_key_id = k
  BY DEF withTriple
<1>2. r.host_ts \in Times
  BY DEF IsRecord
<1>3. SignedBySomebody(w)
  <2> HIDE DEF w
  <2> QED
    BY <1>1 DEF IsRecord, SignedBySomebody
<1> HIDE DEF w
<1>4. IsRecord(w)
  BY <1>1, <1>2, <1>3 DEF IsRecord
<1> QED
  BY <1>4 DEF w

\* What an edit of the triple leaves of a record.
LEMMA TripleEdits ==
    ASSUME NEW r, IsRecord(r), NEW x
    PROVE  /\ [r EXCEPT !.host_signature = x] = withTriple(r, x, r.host_key_id, r.log_id)
           /\ [r EXCEPT !.host_key_id = x] = withTriple(r, r.host_signature, x, r.log_id)
           /\ [r EXCEPT !.log_id = x] = withTriple(r, r.host_signature, r.host_key_id, x)
<1>1. r = withTriple(r, r.host_signature, r.host_key_id, r.log_id)
  BY DEF IsRecord, withTriple
<1>2. [r EXCEPT !.host_signature = x] = withTriple(r, x, r.host_key_id, r.log_id)
  BY <1>1 DEF withTriple
<1>3. [r EXCEPT !.host_key_id = x] = withTriple(r, r.host_signature, x, r.log_id)
  BY <1>1 DEF withTriple
<1>4. [r EXCEPT !.log_id = x] = withTriple(r, r.host_signature, r.host_key_id, x)
  BY <1>1 DEF withTriple
<1> QED
  BY <1>2, <1>3, <1>4

\* None of them makes a record nobody made.
LEMMA TripleEditsGood ==
    ASSUME NEW r, IsRecord(r), NEW x
    PROVE  /\ x = Nothing \/ x.by = ToolKey => IsRecord([r EXCEPT !.host_signature = x])
           /\ (\E o : IsRecord(o) /\ x = o.host_signature) => IsRecord([r EXCEPT !.host_signature = x])
           /\ x \in HostKeyIds \cup {Nothing} => IsRecord([r EXCEPT !.host_key_id = x])
           /\ IsRecord([r EXCEPT !.log_id = x])
<1>1. \A y \in HostKeyIds \cup {Nothing} : \A z : IsRecord(withTriple(r, r.host_signature, y, z))
  BY TripleGood
<1>3. r.host_key_id \in HostKeyIds \cup {Nothing}
  BY DEF IsRecord
<1>2. ASSUME \/ x = Nothing \/ x.by = ToolKey
             \/ \E o : IsRecord(o) /\ x = o.host_signature
      PROVE  IsRecord([r EXCEPT !.host_signature = x])
  <2>1. IsRecord(withTriple(r, x, r.host_key_id, r.log_id))
    BY <1>3, <1>2, TripleGood
  <2> QED
    BY <2>1, TripleEdits
<1> QED
  BY <1>1, <1>2, <1>3, TripleEdits

\* One edit of one record.
LEMMA EditedGood ==
    ASSUME GoodLedger(presented), NEW n \in DOMAIN presented,
           \/ alterEvent(n) \/ alterTime(n) \/ insert(n) \/ substitute(n) \/ remove(n)
           \/ relabel(n) \/ strip(n) \/ spoil(n) \/ countersignedByTool(n)
    PROVE  GoodLedger(presented')
<1> DEFINE r == presented[n]
<1>1. IsRecord(r)
  BY DEF GoodLedger
<1>2. CASE alterEvent(n)
  <2>1. PICK e : presented' = [presented EXCEPT ![n] = [r EXCEPT !.event = e]]
    BY <1>2 DEF alterEvent, becomes
  <2>2. IsRecord([r EXCEPT !.event = e])
    <3> HIDE DEF r
    <3> QED
      BY <1>1 DEF IsRecord, SignedBySomebody
  <2> QED
    BY <2>1, <2>2, ReplacedGood
<1>3. CASE alterTime(n)
  <2>1. presented' = [presented EXCEPT ![n] = [r EXCEPT !.host_ts = r.host_ts + 1]]
    BY <1>3 DEF alterTime, becomes
  <2>2. IsRecord([r EXCEPT !.host_ts = r.host_ts + 1])
    <3>1. r.host_ts # OutOfDomain
      BY <1>3 DEF alterTime
    <3> HIDE DEF r
    <3>2. r.host_ts + 1 \in Nat
      BY <1>1, <3>1 DEF IsRecord, Times
    <3>3. r.host_ts + 1 \in Times
      BY <3>2, OutOfDomainAssumption DEF Times
    <3> QED
      BY <1>1, <3>3 DEF IsRecord, SignedBySomebody
  <2> QED
    BY <2>1, <2>2, ReplacedGood
<1>4. CASE insert(n)
  <2>1. PICK o \in Originals : presented' = InsertAt(presented, n, o)
    BY <1>4 DEF insert, becomes
  <2> QED
    BY <2>1, OriginalsGood, InsertedGood
<1>5. CASE substitute(n)
  <2>1. PICK o \in Originals : presented' = [presented EXCEPT ![n] = o]
    BY <1>5 DEF substitute, becomes
  <2> QED
    BY <2>1, OriginalsGood, ReplacedGood
<1>6. CASE remove(n)
  BY <1>6, RemovedGood DEF remove, becomes
<1>7. CASE relabel(n)
  <2>1. PICK m \in triple, o \in Originals :
           presented' = [presented EXCEPT ![n] = [r EXCEPT ![m] = o[m]]]
    BY <1>7 DEF relabel, becomes
  <2>2. IsRecord(o)
    BY OriginalsGood
  <2>3. IsRecord([r EXCEPT ![m] = o[m]])
    <3> HIDE DEF r
    <3>1. CASE m = "host_signature"
      BY <1>1, <2>2, <3>1, TripleEditsGood
    <3>2. CASE m = "host_key_id"
      <4>1. o.host_key_id \in HostKeyIds \cup {Nothing}
        BY <2>2 DEF IsRecord
      <4> QED
        BY <1>1, <3>2, <4>1, TripleEditsGood
    <3>3. CASE m = "log_id"
      BY <1>1, <3>3, TripleEditsGood
    <3> QED
      BY <3>1, <3>2, <3>3 DEF triple
  <2> QED
    BY <2>1, <2>3, ReplacedGood
<1>8. CASE strip(n)
  <2> DEFINE stripped == [r EXCEPT !.host_signature = Nothing, !.host_key_id = Nothing,
                                   !.log_id = Nothing]
  <2>1. presented' = [presented EXCEPT ![n] = stripped]
    BY <1>8 DEF strip, becomes
  <2>2. IsRecord(stripped)
    <3> HIDE DEF r
    <3> DEFINE unsigned == [r EXCEPT !.host_signature = Nothing]
               unbound  == [unsigned EXCEPT !.host_key_id = Nothing]
    <3>1. IsRecord(unsigned)
      BY <1>1, TripleEditsGood
    <3>2. IsRecord(unbound)
      <4> HIDE DEF unsigned
      <4> QED
        BY <3>1, TripleEditsGood
    <3>3. IsRecord([unbound EXCEPT !.log_id = Nothing])
      <4> HIDE DEF unbound
      <4> QED
        BY <3>2, TripleEditsGood
    <3> QED
      BY <3>3
  <2> QED
    BY <2>1, <2>2, ReplacedGood
<1>9. CASE spoil(n)
  <2>1. CASE "event" \in MaySpoil /\ becomes([presented EXCEPT ![n].event.body = OutOfDomain])
    <3>1. \E e : presented' = [presented EXCEPT ![n] = [r EXCEPT !.event = e]]
      BY <2>1 DEF becomes
    <3>2. PICK e : presented' = [presented EXCEPT ![n] = [r EXCEPT !.event = e]]
      BY <3>1
    <3>3. IsRecord([r EXCEPT !.event = e])
      <4> HIDE DEF r
      <4> QED
        BY <1>1 DEF IsRecord, SignedBySomebody
    <3> QED
      BY <3>2, <3>3, ReplacedGood
  <2>2. CASE "host_ts" \in MaySpoil /\ becomes([presented EXCEPT ![n].host_ts = OutOfDomain])
    <3>1. presented' = [presented EXCEPT ![n] = [r EXCEPT !.host_ts = OutOfDomain]]
      BY <2>2 DEF becomes
    <3>2. IsRecord([r EXCEPT !.host_ts = OutOfDomain])
      <4> HIDE DEF r
      <4>1. OutOfDomain \in Times
        BY <2>2 DEF Times
      <4> QED
        BY <1>1, <4>1 DEF IsRecord, SignedBySomebody
    <3> QED
      BY <3>1, <3>2, ReplacedGood
  <2> QED
    BY <1>9, <2>1, <2>2 DEF spoil
<1>10. CASE countersignedByTool(n)
  <2>1. PICK k \in HostKeyIds, c \in Chains :
           LET named == [r EXCEPT !.host_key_id = k, !.log_id = LogOf[c]] IN
           presented' = [presented EXCEPT ![n] =
              [named EXCEPT !.host_signature = [payload |-> payloadOf(named), by |-> ToolKey]]]
    BY <1>10 DEF countersignedByTool, becomes
  <2> DEFINE named == [r EXCEPT !.host_key_id = k, !.log_id = LogOf[c]]
             p == payloadOf(named)
             signed == [named EXCEPT !.host_signature = [payload |-> p, by |-> ToolKey]]
  <2>2. presented' = [presented EXCEPT ![n] = signed]
    BY <2>1
  <2>3. IsRecord(signed)
    <3> HIDE DEF r, p
    <3> DEFINE bound == [r EXCEPT !.host_key_id = k]
               name  == LogOf[c]
               triad == [payload |-> p, by |-> ToolKey]
    <3>1. IsRecord(bound)
      BY <1>1, TripleEditsGood
    <3>2. IsRecord([bound EXCEPT !.log_id = name])
      <4> HIDE DEF bound, name
      <4> QED
        BY <3>1, TripleEditsGood
    <3>3. IsRecord(named)
      BY <3>2
    <3>4. triad.by = ToolKey
      OBVIOUS
    <3> HIDE DEF named, triad
    <3>5. IsRecord([named EXCEPT !.host_signature = triad])
      BY <3>3, <3>4, TripleEditsGood
    <3> QED
      BY <3>5 DEF triad
  <2> QED
    BY <2>2, <2>3, ReplacedGood
<1> QED
  BY <1>2, <1>3, <1>4, <1>5, <1>6, <1>7, <1>8, <1>9, <1>10

\* However the copy was changed, its records are ones somebody made, and nobody
\* signed for another.
PresentedInv == GoodLedger(presented)

\* So it is at all times.
LEMMA PresentedInvariant == PresentedSpec => []PresentedInv
<1>1. PresentedInit => PresentedInv
  BY BeginningGood DEF PresentedInit, PresentedInv
<1>2. PresentedInv /\ [PresentedNext]_presentedVars => PresentedInv'
  <2> SUFFICES ASSUME GoodLedger(presented), [PresentedNext]_presentedVars
               PROVE  GoodLedger(presented')
    BY DEF PresentedInv
  <2>1. CASE rehash
    BY <2>1, RehashedGood
  <2>2. ASSUME NEW n \in DOMAIN presented,
               \/ alterEvent(n) \/ alterTime(n) \/ insert(n) \/ substitute(n) \/ remove(n)
               \/ relabel(n) \/ strip(n) \/ spoil(n) \/ countersignedByTool(n)
        PROVE  GoodLedger(presented')
    BY <2>2, EditedGood
  <2>3. CASE UNCHANGED presentedVars
    BY <2>3 DEF presentedVars
  <2> QED
    BY <2>1, <2>2, <2>3 DEF PresentedNext
<1> QED
  BY <1>1, <1>2, PTL DEF PresentedSpec

-----------------------------------------------------------------------------
(***************************************************************************)
(* The theorems.                                                           *)
(***************************************************************************)

\* A verifier that was given nothing but the digest of a chain, and finds nothing
\* in a copy, holds that chain's content: whatever was altered, removed, inserted,
\* exchanged or rehashed, as long as every member next to the events is one that
\* can be canonicalized (without that, UnhashableIsReported and this are false).
THEOREM AnchoredTheorem ==
    ASSUME "host_ts" \notin MaySpoil
    PROVE  PresentedSpec => []AnchoredCopyIsOriginal
<1>1. PresentedInv => AnchoredCopyIsOriginal
  <2> DEFINE inputs(c) == [anchored                 |-> {digest(sealChain[c])},
                           keyRegistry              |-> {},
                           hostKeyRegistry          |-> {},
                           expectedIdentity         |-> {},
                           countersignatureRequired |-> FALSE]
  <2> SUFFICES ASSUME GoodLedger(presented), NEW c \in Chains, issuesOf(presented, inputs(c)) = {}
               PROVE  Content(presented) = Content(sealChain[c])
    BY DEF AnchoredCopyIsOriginal, PresentedInv
  <2>1. IsLedger(presented) /\ \A n \in DOMAIN presented : presented[n].host_ts # OutOfDomain
    BY OutOfDomainAssumption DEF GoodLedger, IsRecord, Times
  <2>2. inputs(c).anchored = {digest(sealChain[c])}
    OBVIOUS
  <2> HIDE DEF inputs
  <2> QED
    BY <2>1, <2>2, AnchorFixes
<1> QED
  BY <1>1, PresentedInvariant, PTL

\* A host registry holds the host's key for each id, or the tool's, revoked or not.
LEMMA HostEntries ==
    ASSUME NEW keys \in HostRegistries, NEW k \in HostKeyIds
    PROVE  /\ DOMAIN keys = HostKeyIds
           /\ isRegistered(keys, k) /\ keys[k].publicKey \in {HostKeys[k], ToolKey}
<1>1. HostKeys[k] \in PublicKeys /\ ToolKey \in PublicKeys
  BY PresentedAssumption
<1>2. /\ DOMAIN hostRegistry = HostKeyIds
      /\ hostRegistry[k] = [publicKey |-> HostKeys[k], revoked |-> FALSE]
  BY DEF hostRegistry
<1> DEFINE entry(p, b) == [publicKey |-> p, revoked |-> b]
           known == \E p \in {HostKeys[k], ToolKey}, b \in {TRUE, FALSE} : keys[k] = entry(p, b)
<1>3. DOMAIN keys = HostKeyIds /\ known
  <2>1. CASE keys = hostRegistry
    BY <1>2, <2>1
  <2>2. ASSUME NEW j \in HostKeyIds,
               \/ keys = [hostRegistry EXCEPT ![j].publicKey = ToolKey]
               \/ keys = revoke([hostRegistry EXCEPT ![j].publicKey = ToolKey], j)
        PROVE  DOMAIN keys = HostKeyIds /\ known
    <3> DEFINE confused == [hostRegistry EXCEPT ![j] = entry(ToolKey, FALSE)]
    <3>1. [hostRegistry EXCEPT ![j].publicKey = ToolKey] = confused
      <4>1. hostRegistry[j] = entry(HostKeys[j], FALSE)
        BY DEF hostRegistry
      <4>2. ASSUME NEW p, NEW b
            PROVE  [entry(p, b) EXCEPT !.publicKey = ToolKey] = entry(ToolKey, b)
        OBVIOUS
      <4> HIDE DEF entry
      <4>3. [hostRegistry[j] EXCEPT !.publicKey = ToolKey] = entry(ToolKey, FALSE)
        BY <4>1, <4>2
      <4> QED
        BY <4>3
    <3>2. /\ DOMAIN confused = HostKeyIds
          /\ confused[k] = IF j = k THEN entry(ToolKey, FALSE) ELSE entry(HostKeys[k], FALSE)
          /\ confused[j] = entry(ToolKey, FALSE)
      BY <1>2
    <3> HIDE DEF confused
    <3>3. CASE keys = confused
      BY <3>2, <3>3
    <3>4. CASE keys = revoke(confused, j)
      <4>1. keys = [confused EXCEPT ![j] = entry(ToolKey, TRUE)]
        BY <3>2, <3>4 DEF revoke
      <4>2. /\ DOMAIN keys = HostKeyIds
            /\ keys[k] = IF j = k THEN entry(ToolKey, TRUE) ELSE entry(HostKeys[k], FALSE)
        BY <3>2, <4>1
      <4> QED
        BY <4>2
    <3> QED
      BY <2>2, <3>1, <3>3, <3>4
  <2> QED
    BY <2>1, <2>2 DEF HostRegistries
<1>4. PICK p \in {HostKeys[k], ToolKey}, b \in {TRUE, FALSE} : keys[k] = entry(p, b)
  BY <1>3
<1>5. entry(p, b) \in [publicKey : PublicKeys, revoked : BOOLEAN]
  BY <1>1, <1>4
<1>6. keys[k] # NotRegistered /\ keys[k].publicKey = p
  BY <1>4, <1>5, NotRegisteredAssumption
<1> QED
  BY <1>3, <1>4, <1>6 DEF isRegistered

\* The inputs, one by one.
LEMMA InputFields ==
    ASSUME NEW inputs \in Inputs
    PROVE  /\ inputs.anchored = {} /\ inputs.keyRegistry \subseteq {toolRegistry}
           /\ inputs.hostKeyRegistry \subseteq HostRegistries
           /\ \A keys, other \in inputs.hostKeyRegistry : keys = other
BY DEF Inputs, InputsOf

\* The tool registry holds the tool's key and no other.
LEMMA ToolRegistryIs ==
    /\ isRegistered(toolRegistry, ToolKeyId) /\ toolRegistry[ToolKeyId].publicKey = ToolKey
    /\ publicKeysOf(toolRegistry) = {ToolKey}
<1> DEFINE entry == [publicKey |-> ToolKey, revoked |-> FALSE]
<1>1. /\ toolRegistry = [emptyRegistry EXCEPT ![ToolKeyId] = entry]
      /\ ToolKeyId \in KeyIds /\ ToolKey \in PublicKeys
  BY PresentedAssumption DEF toolRegistry, register, isRegistered, emptyRegistry
<1>2. \A k \in KeyIds : toolRegistry[k] = IF k = ToolKeyId THEN entry ELSE NotRegistered
  BY <1>1 DEF emptyRegistry
<1>3. DOMAIN toolRegistry = KeyIds
  BY <1>1 DEF emptyRegistry
<1>4. entry \in [publicKey : PublicKeys, revoked : BOOLEAN]
  BY <1>1
<1>5. entry # NotRegistered /\ entry.publicKey = ToolKey
  BY <1>4, NotRegisteredAssumption
<1> HIDE DEF entry
<1> QED
  BY <1>1, <1>2, <1>3, <1>5 DEF isRegistered, publicKeysOf

\* Which key a countersignature was made with, where it verifies under a registry
\* the tool has no key in.
LEMMA VerifiedByHost ==
    ASSUME NEW keys \in HostRegistries, ToolKey \notin publicKeysOf(keys),
           NEW r, IsRecord(r), r.host_key_id # Nothing, countersignatureCheck(keys, r)
    PROVE  /\ r.host_key_id \in HostKeyIds
           /\ r.host_signature = [payload |-> payloadOf(r), by |-> HostKeys[r.host_key_id]]
<1>1. r.host_key_id \in HostKeyIds
  BY DEF IsRecord
<1>2. /\ DOMAIN keys = HostKeyIds /\ isRegistered(keys, r.host_key_id)
      /\ keys[r.host_key_id].publicKey \in {HostKeys[r.host_key_id], ToolKey}
  BY <1>1, HostEntries
<1>3. keys[r.host_key_id].publicKey = HostKeys[r.host_key_id]
  BY <1>1, <1>2 DEF publicKeysOf
<1> QED
  BY <1>1, <1>3 DEF countersignatureCheck, get

\* Without an expected identity, but with a required countersignature, a complete
\* report means that a host sealed every record of the copy, whatever key the host
\* registry was confused by.
THEOREM RequiredTheorem ==
    ASSUME "host_ts" \notin MaySpoil, OwnKeys
    PROVE  PresentedSpec => []RequiredMeansSealed
<1>1. PresentedInv => RequiredMeansSealed
  <2> SUFFICES ASSUME GoodLedger(presented), NEW inputs \in Inputs,
                      inputs.countersignatureRequired,
                      inputs.keyRegistry # {}, inputs.hostKeyRegistry # {},
                      complete(presented, inputs), NEW n \in DOMAIN presented
               PROVE  \E c \in Countersigned : presented[n] \in Range(sealChain[c])
    BY DEF RequiredMeansSealed, PresentedInv
  <2> DEFINE r == presented[n]
  <2>1. IsLedger(presented) /\ \A m \in DOMAIN presented : IsRecord(presented[m])
    BY DEF GoodLedger
  <2>2. issuesOf(presented, inputs) = {} /\ disjointRegistries(inputs)
    BY DEF complete
  <2>3. PICK keys \in inputs.hostKeyRegistry : TRUE
    OBVIOUS
  <2>4. keys \in HostRegistries /\ toolRegistry \in inputs.keyRegistry
    BY <2>3, InputFields
  <2>5. ToolKey \notin publicKeysOf(keys)
    BY <2>2, <2>3, <2>4, ToolRegistryIs DEF disjointRegistries, sharesKeyWith
  <2>6. hostIssues(presented, inputs) = {}
    BY <2>2, NoIssues
  <2>7. present(r) = triple
    BY <2>6 DEF hostIssues
  <2>8. hashable(r)
    <3>1. \A m \in DOMAIN presented : presented[m].host_ts # OutOfDomain
      BY <2>1, OutOfDomainAssumption DEF IsRecord, Times
    <3> QED
      BY <2>1, <2>2, <3>1, RecordsFit
  <2>9. countersignatureCheck(keys, r)
    BY <2>3, <2>6, <2>7, <2>8 DEF hostIssues, countersigned
  <2>10. r.host_key_id # Nothing
    BY <2>7 DEF present, triple
  <2>11. /\ r.host_key_id \in HostKeyIds
         /\ r.host_signature = [payload |-> payloadOf(r), by |-> HostKeys[r.host_key_id]]
    BY <2>1, <2>4, <2>5, <2>9, <2>10, VerifiedByHost
  <2>12. PICK c \in Countersigned : n \in DOMAIN sealChain[c] /\ r = sealChain[c][n]
    BY <2>1, <2>2, <2>7, <2>11, CountersignatureBinds
  <2> QED
    BY <2>12 DEF Range
<1> QED
  BY <1>1, PresentedInvariant, PTL

\* An expected identity binds: what is presented under a host's name for a ledger
\* and under its keys, completely reported, is a beginning of that ledger.
THEOREM IdentityTheorem ==
    ASSUME "host_ts" \notin MaySpoil, OwnKeys
    PROVE  PresentedSpec => []IdentityBinds
<1>1. PresentedInv => IdentityBinds
  <2> SUFFICES ASSUME GoodLedger(presented), NEW c \in Countersigned, NEW inputs \in Inputs,
                      inputs.expectedIdentity = {identityOf(c)},
                      inputs.hostKeyRegistry = {hostRegistry},
                      complete(presented, inputs)
               PROVE  IsPrefix(presented, sealChain[c])
    BY DEF IdentityBinds, PresentedInv
  <2>1. IsLedger(presented) /\ \A m \in DOMAIN presented : IsRecord(presented[m])
    BY DEF GoodLedger
  <2>2. issuesOf(presented, inputs) = {}
    BY DEF complete
  <2>3. c \in Chains /\ KeyOf[c] # Nothing /\ KeyOf[c] \in HostKeyIds
    BY PresentedAssumption DEF Countersigned
  <2>4. ASSUME NEW n \in DOMAIN presented
        PROVE  n \in DOMAIN sealChain[c] /\ presented[n] = sealChain[c][n]
    <3> DEFINE r == presented[n]
    <3>1. hostIssues(presented, inputs) = {} /\ identityIssues(presented, inputs) = {}
      BY <2>2, NoIssues
    <3>2. ~mismatched(r, identityOf(c))
      BY <3>1 DEF identityIssues
    <3>3. present(r) = triple /\ r.log_id = LogOf[c] /\ r.host_key_id = KeyOf[c]
      BY <3>2 DEF mismatched, identityOf
    <3>4. hashable(r)
      <4>1. \A m \in DOMAIN presented : presented[m].host_ts # OutOfDomain
        BY <2>1, OutOfDomainAssumption DEF IsRecord, Times
      <4> QED
        BY <2>1, <2>2, <4>1, RecordsFit
    <3>5. countersignatureCheck(hostRegistry, r)
      BY <3>1, <3>3, <3>4 DEF hostIssues, countersigned
    <3>6. r.host_signature = [payload |-> payloadOf(r), by |-> HostKeys[KeyOf[c]]]
      BY <2>3, <3>3, <3>5 DEF countersignatureCheck, get, hostRegistry
    <3>7. PICK d \in Countersigned :
             /\ KeyOf[d] = KeyOf[c] /\ LogOf[d] = r.log_id
             /\ n \in DOMAIN sealChain[d] /\ r = sealChain[d][n]
      BY <2>1, <2>2, <2>3, <3>3, <3>6, CountersignatureBinds
    <3>8. d = c
      BY <2>3, <3>3, <3>7, PresentedAssumption DEF Countersigned
    <3> QED
      BY <3>7, <3>8
  <2>5. /\ DOMAIN sealChain[c] = 1..Len(sealChain[c]) /\ Len(sealChain[c]) \in Nat
        /\ DOMAIN presented = 1..Len(presented) /\ Len(presented) \in Nat
    <3>1. Len(ScriptOf[c]) \in Nat
      BY <2>3, PresentedAssumption
    <3>2. sealChain[c] = [n \in 1..Len(ScriptOf[c]) |-> originalOf(c, n)]
      BY <2>3, SealedChain
    <3>3. Len(sealChain[c]) = Len(ScriptOf[c])
      BY <3>1, <3>2
    <3> QED
      BY <2>1, <3>1, <3>2, <3>3 DEF IsLedger
  <2>6. Len(presented) <= Len(sealChain[c])
    BY <2>4, <2>5
  <2>7. SubSeq(presented, 1, Len(presented)) = SubSeq(sealChain[c], 1, Len(presented))
    BY <2>4, <2>5, <2>6
  <2> QED
    BY <2>6, <2>7 DEF IsPrefix
<1> QED
  BY <1>1, PresentedInvariant, PTL

\* Whatever is presented, a report that is complete without a registry loses
\* nothing by it: the registry would have found nothing.
THEOREM NothingSkippedTheorem == PresentedSpec => []NothingSkippedInSilence
<1>1. NothingSkippedInSilence
  <2> SUFFICES ASSUME NEW less \in Inputs, complete(presented, less), NEW more \in Inputs,
                      less.keyRegistry \subseteq more.keyRegistry,
                      less.hostKeyRegistry \subseteq more.hostKeyRegistry,
                      less.expectedIdentity = more.expectedIdentity,
                      less.countersignatureRequired = more.countersignatureRequired
               PROVE  issuesOf(presented, more) = {}
    BY DEF NothingSkippedInSilence
  <2>1. issuesOf(presented, less) = {} /\ unchecked(presented, less) = {}
    BY DEF complete
  <2>2. toolIssues(presented, more) = {}
    <3>1. CASE less.keyRegistry = {}
      <4>1. \A n \in DOMAIN presented : Unsigned(presented[n].event)
        BY <2>1, <3>1 DEF unchecked
      <4> QED
        BY <4>1 DEF toolIssues, signatureIssues
    <3>2. CASE less.keyRegistry # {}
      <4>1. less.keyRegistry \subseteq {toolRegistry} /\ more.keyRegistry \subseteq {toolRegistry}
        BY InputFields
      <4>2. more.keyRegistry = less.keyRegistry
        BY <3>2, <4>1
      <4> QED
        BY <2>1, <4>2, NoIssues DEF toolIssues
    <3> QED
      BY <3>1, <3>2
  <2>3. hostIssues(presented, more) = {}
    <3>1. hostIssues(presented, less) = {}
      BY <2>1, NoIssues
    <3>2. CASE less.hostKeyRegistry = {}
      <4>1. countersigned(presented) = {}
        BY <2>1, <3>2 DEF unchecked
      <4> QED
        BY <3>1, <4>1 DEF hostIssues
    <3>3. CASE less.hostKeyRegistry # {}
      <4>1. more.hostKeyRegistry = less.hostKeyRegistry
        BY <3>3, InputFields
      <4> QED
        BY <3>1, <4>1 DEF hostIssues
    <3> QED
      BY <3>2, <3>3
  <2>4. less.anchored = more.anchored
    BY InputFields
  <2>5. /\ identityIssues(presented, more) = identityIssues(presented, less)
        /\ anchorIssues(presented, more) = anchorIssues(presented, less)
    BY <2>4 DEF identityIssues, anchorIssues
  <2> QED
    BY <2>1, <2>2, <2>3, <2>5 DEF issuesOf
<1> QED
  BY <1>1, PTL

-----------------------------------------------------------------------------
(***************************************************************************)
(* A chain as its host sealed it, and any beginning of it.                 *)
(***************************************************************************)

\* Records that are the beginning of a chain are its records.
LEMMA BeginningIs ==
    ASSUME NEW records, IsLedger(records), NEW c \in Chains, IsPrefix(records, sealChain[c])
    PROVE  /\ Len(records) \in 0..Len(ScriptOf[c]) /\ DOMAIN records = 1..Len(records)
           /\ \A n \in DOMAIN records :
                 /\ n \in DOMAIN sealChain[c] /\ n \in 1..Len(ScriptOf[c])
                 /\ records[n] = sealChain[c][n]
<1> DEFINE N == Len(ScriptOf[c])
           L == Len(records)
<1>1. N \in Nat /\ L \in Nat /\ DOMAIN records = 1..L
  BY PresentedAssumption DEF IsLedger
<1>2. sealChain[c] = [n \in 1..N |-> originalOf(c, n)]
  BY SealedChain
<1>3. DOMAIN sealChain[c] = 1..N /\ Len(sealChain[c]) = N
  BY <1>1, <1>2
<1>4. L <= N /\ SubSeq(records, 1, L) = SubSeq(sealChain[c], 1, L)
  BY <1>3 DEF IsPrefix
<1>5. ASSUME NEW n \in 1..L
      PROVE  n \in 1..N /\ records[n] = sealChain[c][n]
  <2>1. /\ SubSeq(records, 1, L) = [k \in 1..L |-> records[k]]
        /\ SubSeq(sealChain[c], 1, L) = [k \in 1..L |-> sealChain[c][k]]
    BY <1>1, <1>4
  <2>2. [k \in 1..L |-> records[k]][n] = [k \in 1..L |-> sealChain[c][k]][n]
    BY <1>4, <2>1
  <2> QED
    BY <1>1, <1>4, <2>2
<1> QED
  BY <1>1, <1>3, <1>4, <1>5

\* What the hypotheses of the lemmas below say: the records are the beginning of a
\* chain whose script conforms.
BeginningOf(c, records) ==
    /\ c \in Chains /\ conforms(ScriptOf[c])
    /\ IsLedger(records) /\ IsPrefix(records, sealChain[c])

\* Its records, field by field.
LEMMA BeginningRecord ==
    ASSUME NEW c, NEW records, BeginningOf(c, records), NEW n \in DOMAIN records
    PROVE  LET r == records[n] IN
           /\ n \in DOMAIN sealChain[c] /\ n \in 1..Len(ScriptOf[c]) /\ n \in DOMAIN ScriptOf[c]
           /\ r = sealChain[c][n] /\ r.event = ScriptOf[c][n]
           /\ r = [event |-> r.event, seq |-> r.seq, host_ts |-> r.host_ts,
                   previous_hash |-> r.previous_hash, record_hash |-> r.record_hash,
                   host_signature |-> r.host_signature, host_key_id |-> r.host_key_id,
                   log_id |-> r.log_id]
           /\ r.event \in VersionedEvents
           /\ r.seq = n - 1 /\ r.host_ts = n /\ r.host_ts # OutOfDomain
           /\ r.previous_hash = historyOf(c, n - 1) /\ r.record_hash = historyOf(c, n)
<1> DEFINE r == records[n]
<1>1. c \in Chains /\ IsLedger(records) /\ IsPrefix(records, sealChain[c])
  BY DEF BeginningOf
<1>2. n \in DOMAIN sealChain[c] /\ n \in 1..Len(ScriptOf[c]) /\ r = sealChain[c][n]
  BY <1>1, BeginningIs
<1>3. /\ r = [event |-> r.event, seq |-> r.seq, host_ts |-> r.host_ts,
              previous_hash |-> r.previous_hash, record_hash |-> r.record_hash,
              host_signature |-> r.host_signature, host_key_id |-> r.host_key_id,
              log_id |-> r.log_id]
      /\ r.event = ScriptOf[c][n] /\ r.seq = n - 1 /\ r.host_ts = n
      /\ r.previous_hash = historyOf(c, n - 1) /\ r.record_hash = historyOf(c, n)
  <2> HIDE DEF r
  <2> QED
    BY <1>1, <1>2, OriginalRecord
<1>4. ScriptOf[c] \in Seq(VersionedEvents)
  BY <1>1, PresentedAssumption
<1>5. ScriptOf[c][n] \in VersionedEvents /\ n \in DOMAIN ScriptOf[c] /\ n \in Nat
  BY <1>2, <1>4
<1>6. n # OutOfDomain
  BY <1>5, OutOfDomainAssumption
<1> QED
  BY <1>2, <1>3, <1>5, <1>6

\* Nothing is wrong with its records by themselves, nor with their hashes.
LEMMA BeginningIsSound ==
    ASSUME NEW c, NEW records, BeginningOf(c, records)
    PROVE  /\ schemaIssues(records) = {} /\ seqIssues(records) = {} /\ hashIssues(records) = {}
           /\ correlationIssues(records) = {}
           /\ \A n \in DOMAIN records : hashable(records[n])
<1>1. /\ c \in Chains /\ conforms(ScriptOf[c]) /\ IsLedger(records)
      /\ Len(records) \in Nat /\ DOMAIN records = 1..Len(records)
  BY DEF BeginningOf, IsLedger
<1>2. \A n \in DOMAIN records : records[n].event = ScriptOf[c][n] /\ n \in DOMAIN ScriptOf[c]
  BY BeginningRecord
<1>3. \A n \in DOMAIN records : ~structureError(records[n].event)
  BY <1>1, <1>2 DEF conforms
<1>4. ASSUME NEW n \in DOMAIN records, NEW k \in 1..(n - 1)
      PROVE  ~(records[k].event.version > records[n].event.version)
  <2>1. k \in DOMAIN records
    BY <1>1
  <2>2. ScriptOf[c][k].version <= ScriptOf[c][n].version
    BY <1>1, <1>2 DEF conforms
  <2>3. records[k].event \in VersionedEvents /\ records[n].event \in VersionedEvents
    BY <2>1, BeginningRecord
  <2>4. records[k].event.version \in Nat /\ records[n].event.version \in Nat
    BY <2>3 DEF VersionedEvents
  <2> QED
    BY <1>2, <2>1, <2>2, <2>4
<1>5. schemaIssues(records) = {}
  BY <1>3, <1>4 DEF schemaIssues
<1>6. seqIssues(records) = {}
  <2>1. \A n \in DOMAIN records : records[n].seq = n - 1
    BY BeginningRecord
  <2> QED
    BY <2>1 DEF seqIssues
<1>7. \A n \in DOMAIN records : hashable(records[n])
  <2>1. \A n \in DOMAIN records : records[n].host_ts # OutOfDomain
    BY BeginningRecord
  <2> QED
    BY <1>3, <2>1 DEF hashable, structureError
<1>8. chainHash(records) = [n \in 0..Len(records) |-> linksOf(records, n)]
  BY <1>1, <1>7, HashIsWhole
<1>9. ASSUME NEW n \in 0..Len(records)
      PROVE  linksOf(records, n) = historyOf(c, n)
  <2>1. \A k \in 1..n : Link(records[k].event, records[k].seq, records[k].host_ts) =
                          Link(ScriptOf[c][k], k - 1, k)
    <3>1. \A k \in 1..n : k \in DOMAIN records
      BY <1>1
    <3>2. \A k \in DOMAIN records : records[k].seq = k - 1 /\ records[k].host_ts = k
      BY BeginningRecord
    <3> QED
      BY <1>2, <3>1, <3>2
  <2> QED
    BY <2>1 DEF linksOf, historyOf
<1>10. hashIssues(records) = {}
  <2>1. ASSUME NEW n \in DOMAIN records
        PROVE  /\ records[n].previous_hash = chainHash(records)[n - 1]
               /\ records[n].record_hash = chainHash(records)[n]
    <3>1. n \in 0..Len(records) /\ n - 1 \in 0..Len(records)
      BY <1>1
    <3>2. records[n].previous_hash = historyOf(c, n - 1) /\ records[n].record_hash = historyOf(c, n)
      BY BeginningRecord
    <3> QED
      BY <1>8, <1>9, <3>1, <3>2
  <2> QED
    BY <2>1 DEF hashIssues
<1>11. correlationIssues(records) = {}
  <2>1. ASSUME NEW n \in DOMAIN records, records[n].event.outcome \in {"success", "failed"}
        PROVE  correlated(records, n)
    <3>1. PICK m \in 1..(n - 1) : IsAttempt(ScriptOf[c][m]) /\ SameOperation(ScriptOf[c][m], ScriptOf[c][n])
      BY <1>1, <1>2, <2>1 DEF conforms, attempted
    <3>2. m \in DOMAIN records
      BY <1>1
    <3> QED
      BY <1>2, <3>1, <3>2 DEF correlated
  <2> QED
    BY <2>1 DEF correlationIssues
<1> QED
  BY <1>5, <1>6, <1>7, <1>10, <1>11

\* A registry of the hosts' keys, one of them revoked perhaps.
HostsRegistries == {hostRegistry} \cup {revoke(hostRegistry, k) : k \in HostKeyIds}

LEMMA HostsEntries ==
    ASSUME NEW keys \in HostsRegistries
    PROVE  /\ DOMAIN keys = HostKeyIds
           /\ \A k \in HostKeyIds : isRegistered(keys, k) /\ keys[k].publicKey = HostKeys[k]
<1> DEFINE entry(p, b) == [publicKey |-> p, revoked |-> b]
<1>1. DOMAIN hostRegistry = HostKeyIds /\ \A k \in HostKeyIds : hostRegistry[k] = entry(HostKeys[k], FALSE)
  BY DEF hostRegistry
<1>2. DOMAIN keys = HostKeyIds /\ \A k \in HostKeyIds : \E b \in BOOLEAN : keys[k] = entry(HostKeys[k], b)
  <2>1. CASE keys = hostRegistry
    BY <1>1, <2>1
  <2>2. ASSUME NEW j \in HostKeyIds, keys = revoke(hostRegistry, j)
        PROVE  DOMAIN keys = HostKeyIds /\ \A k \in HostKeyIds : \E b \in BOOLEAN : keys[k] = entry(HostKeys[k], b)
    <3>1. hostRegistry[j].publicKey = HostKeys[j]
      BY <1>1
    <3>2. keys = [hostRegistry EXCEPT ![j] = entry(HostKeys[j], TRUE)]
      BY <2>2, <3>1 DEF revoke
    <3>3. \A k \in HostKeyIds : keys[k] = entry(HostKeys[k], k = j)
      BY <1>1, <3>2
    <3> QED
      BY <1>1, <3>2, <3>3
  <2> QED
    BY <2>1, <2>2 DEF HostsRegistries
<1>3. ASSUME NEW k \in HostKeyIds
      PROVE  isRegistered(keys, k) /\ keys[k].publicKey = HostKeys[k]
  <2>1. PICK b \in BOOLEAN : keys[k] = entry(HostKeys[k], b)
    BY <1>2
  <2>2. HostKeys[k] \in PublicKeys
    BY PresentedAssumption
  <2>3. entry(HostKeys[k], b) \in [publicKey : PublicKeys, revoked : BOOLEAN]
    BY <2>2
  <2> QED
    BY <2>1, <2>3, NotRegisteredAssumption DEF isRegistered
<1> QED
  BY <1>2, <1>3

\* No host has the tool's key.
LEMMA RegistriesDisjoint ==
    ASSUME NEW keys \in HostsRegistries
    PROVE  ~sharesKeyWith(toolRegistry, keys)
<1>1. publicKeysOf(toolRegistry) \subseteq {ToolKey}
  BY ToolRegistryIs DEF publicKeysOf
<1>2. \A p \in publicKeysOf(keys) : p # ToolKey
  <2>1. \A k \in HostKeyIds : HostKeys[k] # ToolKey
    BY PresentedAssumption
  <2> QED
    BY <2>1, HostsEntries DEF publicKeysOf
<1> QED
  BY <1>1, <1>2 DEF sharesKeyWith

\* The tool's signatures verify, and the host's countersignatures if it makes any.
LEMMA BeginningIsSigned ==
    ASSUME NEW c, NEW records, BeginningOf(c, records), NEW keys \in HostsRegistries
    PROVE  /\ signatureIssues(records, toolRegistry) = {}
           /\ \A n \in DOMAIN records :
                 /\ c \notin Countersigned => present(records[n]) = {}
                 /\ c \in Countersigned =>
                      /\ present(records[n]) = triple
                      /\ countersignatureCheck(keys, records[n])
                      /\ ~mismatched(records[n], identityOf(c))
<1>1. c \in Chains /\ conforms(ScriptOf[c])
  BY DEF BeginningOf
<1>2. signatureIssues(records, toolRegistry) = {}
  <2>1. ASSUME NEW n \in DOMAIN records, ~Unsigned(records[n].event)
        PROVE  /\ isRegistered(toolRegistry, records[n].event.key_id)
               /\ get(toolRegistry, records[n].event.key_id).publicKey = records[n].event.signed_by
    <3> DEFINE e == records[n].event
    <3>1. e = ScriptOf[c][n] /\ n \in DOMAIN ScriptOf[c]
      BY BeginningRecord
    <3>2. e.key_id = ToolKeyId /\ e.signed_by = ToolKey
      BY <1>1, <2>1, <3>1 DEF conforms
    <3> QED
      BY <3>2, ToolRegistryIs DEF get
  <2> QED
    BY <2>1 DEF signatureIssues
<1>3. ASSUME NEW n \in DOMAIN records, c \notin Countersigned
      PROVE  present(records[n]) = {}
  <2> DEFINE o == records[n]
  <2>1. n \in DOMAIN sealChain[c] /\ o = sealChain[c][n]
    BY BeginningRecord
  <2>2. o.host_signature = Nothing /\ o.host_key_id = Nothing /\ o.log_id = Nothing
    <3> HIDE DEF o
    <3> QED
      BY <1>1, <1>3, <2>1, OriginalRecord
  <2> QED
    BY <2>2 DEF present
<1>4. ASSUME NEW n \in DOMAIN records, c \in Countersigned
      PROVE  /\ present(records[n]) = triple
             /\ countersignatureCheck(keys, records[n])
             /\ ~mismatched(records[n], identityOf(c))
  <2> DEFINE o == records[n]
  <2>1. n \in DOMAIN sealChain[c] /\ o = sealChain[c][n]
    BY BeginningRecord
  <2>2. KeyOf[c] # Nothing /\ KeyOf[c] \in HostKeyIds
    BY <1>1, <1>4, PresentedAssumption DEF Countersigned
  <2>3. LogOf[c] # Nothing /\ o.host_signature # Nothing
    BY <1>1, <2>1, <2>2, PresentAssumption
  <2>4. o.host_key_id = KeyOf[c] /\ o.log_id = LogOf[c]
    <3> HIDE DEF o
    <3> QED
      BY <1>1, <1>4, <2>1, OriginalRecord
  <2>5. o.host_signature = [payload |-> payloadOf(o), by |-> HostKeys[KeyOf[c]]]
    <3> HIDE DEF o
    <3> QED
      BY <1>1, <1>4, <2>1, OriginalSignature
  <2>6. present(o) = triple
    BY <2>2, <2>3, <2>4 DEF present, triple
  <2>7. isRegistered(keys, o.host_key_id) /\ keys[o.host_key_id].publicKey = HostKeys[KeyOf[c]]
    BY <2>2, <2>4, HostsEntries
  <2>8. countersignatureCheck(keys, o)
    BY <2>4, <2>5, <2>7 DEF countersignatureCheck, get
  <2>9. ~mismatched(o, identityOf(c))
    BY <2>4, <2>6 DEF mismatched, identityOf
  <2> QED
    BY <2>6, <2>8, <2>9
<1> QED
  BY <1>2, <1>3, <1>4

\* What the per-session checks see of it: the events this version numbers.
LEMMA BeginningNumbered ==
    ASSUME NEW c, NEW records, BeginningOf(c, records)
    PROVE  LET now == currentOnly(records) IN
           /\ DOMAIN now = DOMAIN records /\ Numbered(now)
           /\ numbered(now) = numberedNow(ScriptOf[c]) \cap DOMAIN records
           /\ \A n \in numbered(now) : now[n].event = ScriptOf[c][n]
           /\ \A n \in DOMAIN records : correlated(now, n) <=> attempted(ScriptOf[c], n)
<1> DEFINE now == currentOnly(records)
           Script == ScriptOf[c]
<1>1. Len(records) \in Nat /\ DOMAIN records = 1..Len(records)
  BY DEF BeginningOf, IsLedger
<1>2. DOMAIN now = DOMAIN records
  BY DEF currentOnly
<1>3. ASSUME NEW n \in DOMAIN records
      PROVE  /\ n \in DOMAIN Script /\ Script[n] \in VersionedEvents
             /\ now[n].event = IF isEarlier(Script[n]) THEN [Script[n] EXCEPT !.key_id = NoKey]
                               ELSE Script[n]
  <2> DEFINE r == records[n]
  <2>1. /\ n \in DOMAIN Script /\ r.event = Script[n] /\ r.event \in VersionedEvents
        /\ r = [event |-> r.event, seq |-> r.seq, host_ts |-> r.host_ts,
                previous_hash |-> r.previous_hash, record_hash |-> r.record_hash,
                host_signature |-> r.host_signature, host_key_id |-> r.host_key_id,
                log_id |-> r.log_id]
    BY BeginningRecord
  <2>2. now[n] = IF isEarlier(r.event) THEN [r EXCEPT !.event = [r.event EXCEPT !.key_id = NoKey]] ELSE r
    BY DEF currentOnly
  <2> HIDE DEF r
  <2>3. [r EXCEPT !.event = [r.event EXCEPT !.key_id = NoKey]].event = [r.event EXCEPT !.key_id = NoKey]
    BY <2>1
  <2> QED
    BY <2>1, <2>2, <2>3
<1>4. ASSUME NEW n \in DOMAIN records
      PROVE  /\ now[n].event.outcome = Script[n].outcome
             /\ now[n].event.session_id = Script[n].session_id /\ now[n].event.id = Script[n].id
             /\ Unsigned(now[n].event) <=> Unsigned(Script[n]) \/ isEarlier(Script[n])
             /\ ~isEarlier(Script[n]) => now[n].event = Script[n]
  <2> DEFINE e == Script[n]
             u == [e EXCEPT !.key_id = NoKey]
  <2>1. e \in VersionedEvents
    BY <1>3
  <2>2. u.outcome = e.outcome /\ u.session_id = e.session_id /\ u.id = e.id /\ u.key_id = NoKey
    <3> HIDE DEF e
    <3> QED
      BY <2>1 DEF VersionedEvents
  <2> HIDE DEF e, u
  <2>3. now[n].event = IF isEarlier(e) THEN u ELSE e
    BY <1>3 DEF e, u
  <2> HIDE DEF now
  <2> QED
    BY <2>2, <2>3 DEF Unsigned, e
<1> HIDE DEF now
<1>5. numbered(now) = numberedNow(Script) \cap DOMAIN records
  BY <1>2, <1>3, <1>4 DEF numbered, numberedNow
<1>6. \A n \in numbered(now) : now[n].event = Script[n]
  BY <1>2, <1>4, <1>5 DEF numberedNow
<1>7. Numbered(now)
  <2>1. DOMAIN now \subseteq Nat /\ IsFiniteSet(DOMAIN now)
    BY <1>1, <1>2, FS_Interval
  <2>2. \A n \in numbered(now) : now[n].event.signer_seq \in Nat
    BY <1>3, <1>5, <1>6 DEF VersionedEvents
  <2> QED
    BY <2>1, <2>2 DEF Numbered
<1>8. ASSUME NEW n \in DOMAIN records
      PROVE  correlated(now, n) <=> attempted(Script, n)
  <2>1. \A m \in 1..(n - 1) : m \in DOMAIN records
    BY <1>1
  <2> QED
    BY <1>4, <2>1 DEF correlated, attempted, IsAttempt, SameOperation
<1> QED
  BY <1>2, <1>5, <1>6, <1>7, <1>8 DEF now

\* No two of them share a number, and none is missing.
LEMMA BeginningAccounted ==
    ASSUME NEW c, NEW records, BeginningOf(c, records)
    PROVE  accountingIssues(currentOnly(records)) = {}
<1> DEFINE now == currentOnly(records)
           Script == ScriptOf[c]
<1>1. /\ DOMAIN now = DOMAIN records /\ Numbered(now)
      /\ numbered(now) = numberedNow(Script) \cap DOMAIN records
      /\ \A n \in numbered(now) : now[n].event = Script[n]
      /\ \A n \in DOMAIN records : correlated(now, n) <=> attempted(Script, n)
  BY BeginningNumbered
<1>2. conforms(Script) /\ Len(records) \in Nat /\ DOMAIN records = 1..Len(records)
  BY DEF BeginningOf, IsLedger
<1> HIDE DEF now, Script
<1>3. sharedSignerSeq(now) = {}
  <2> SUFFICES ASSUME NEW n \in numbered(now), NEW m \in numbered(now), m < n,
                      SameWindow(now[m].event, now[n].event)
               PROVE  now[m].event.signer_seq # now[n].event.signer_seq
    BY DEF sharedSignerSeq
  <2> QED
    BY <1>1, <1>2 DEF conforms
<1>4. PICK attemptOf : numbersAccountedFor(Script, attemptOf)
  BY <1>2 DEF conforms
<1>5. ASSUME NEW key \in KeyIds, NEW s, NEW v \in Missing(NumbersOf(now, key, s))
      PROVE  \E m \in RefusalsOf(now, key, s) : attemptOf[m] = v /\ v < now[m].event.signer_seq
  <2>1. /\ v \in Nat /\ v \notin NumbersOf(now, key, s)
        /\ \E w \in NumbersOf(now, key, s) : v < w
    BY DEF Missing
  <2>2. PICK n \in group(now, key, s) : v < now[n].event.signer_seq
    BY <2>1 DEF NumbersOf
  <2>3. n \in numbered(now) /\ Script[n].key_id = key /\ Script[n].session_id = s
    BY <1>1, <2>2 DEF group
  <2>4. v \in 0..(Script[n].signer_seq - 1) /\ n \in numberedNow(Script)
    <3>1. Script[n].signer_seq \in Nat /\ v < Script[n].signer_seq
      BY <1>1, <2>2, <2>3 DEF Numbered
    <3> QED
      BY <1>1, <2>1, <2>3, <3>1
  <2>5. PICK m \in numberedNow(Script) \cap 1..n :
           /\ SameWindow(Script[m], Script[n])
           /\ \/ Script[m].signer_seq = v
              \/ /\ Script[m].outcome = "aborted"
                 /\ Script[m].reason \in {"host-rejected", "host-unavailable"}
                 /\ ~attempted(Script, m)
                 /\ attemptOf[m] = v /\ v < Script[m].signer_seq
    BY <1>4, <2>4 DEF numbersAccountedFor
  <2>6. m \in numbered(now) /\ now[m].event = Script[m]
    BY <1>1, <1>2, <2>3
  <2>7. m \in group(now, key, s)
    BY <2>3, <2>5, <2>6 DEF group, SameWindow
  <2>8. Script[m].signer_seq # v
    BY <2>1, <2>6, <2>7 DEF NumbersOf
  <2>9. m \in DOMAIN records
    BY <1>1, <2>6
  <2> QED
    BY <1>1, <2>5, <2>6, <2>7, <2>8, <2>9 DEF RefusalsOf, refusals
<1>6. \A key \in KeyIds, s \in Sessions : unaccountedRuns(now, key, s) = << >>
  BY <1>1, <1>5, NothingUnaccounted
<1>7. unaccountedSignerSeq(now) = {}
  BY <1>6 DEF unaccountedSignerSeq, Range
<1> QED
  BY <1>3, <1>7 DEF accountingIssues, now

\* What a host sealed of a tool that follows the protocol, one operation after the
\* other, is complete and without findings, however much of it is read, for a verifier that has the registries and
\* expects that host and name - also after a key of the host was revoked, and after an
\* upgrade in the middle.  It is false of a script in which a number is missing.
THEOREM OriginalTheorem ==
    ASSUME ScriptsConform
    PROVE  PresentedSpec => []OriginalVerifies
<1>1. PresentedInv => OriginalVerifies
  <2> SUFFICES ASSUME GoodLedger(presented), NEW c \in Chains, IsPrefix(presented, sealChain[c]),
                      NEW keys \in HostsRegistries
               PROVE  complete(presented,
                         [anchored                 |-> {},
                          keyRegistry              |-> {toolRegistry},
                          hostKeyRegistry          |-> {keys},
                          expectedIdentity         |-> {identityOf(c) : x \in {c} \cap Countersigned},
                          countersignatureRequired |-> c \in Countersigned])
    BY DEF OriginalVerifies, PresentedInv, HostsRegistries
  <2> DEFINE inputs == [anchored                 |-> {},
                        keyRegistry              |-> {toolRegistry},
                        hostKeyRegistry          |-> {keys},
                        expectedIdentity         |-> {identityOf(c) : x \in {c} \cap Countersigned},
                        countersignatureRequired |-> c \in Countersigned]
  <2>1. BeginningOf(c, presented)
    BY DEF BeginningOf, GoodLedger, ScriptsConform
  <2>2. /\ inputs.anchored = {} /\ inputs.keyRegistry = {toolRegistry}
        /\ inputs.hostKeyRegistry = {keys}
        /\ inputs.expectedIdentity = IF c \in Countersigned THEN {identityOf(c)} ELSE {}
        /\ inputs.countersignatureRequired = (c \in Countersigned)
    OBVIOUS
  <2> HIDE DEF inputs
  <2>3. disjointRegistries(inputs)
    BY <2>2, RegistriesDisjoint DEF disjointRegistries
  <2>4. /\ schemaIssues(presented) = {} /\ seqIssues(presented) = {} /\ hashIssues(presented) = {}
        /\ correlationIssues(presented) = {} /\ accountingIssues(currentOnly(presented)) = {}
    BY <2>1, BeginningIsSound, BeginningAccounted
  <2>5. toolIssues(presented, inputs) = {}
    BY <2>1, <2>2, BeginningIsSigned DEF toolIssues
  <2>6. \A n \in DOMAIN presented :
           /\ c \notin Countersigned => present(presented[n]) = {}
           /\ c \in Countersigned =>
                /\ present(presented[n]) = triple
                /\ countersignatureCheck(keys, presented[n])
                /\ ~mismatched(presented[n], identityOf(c))
    BY <2>1, BeginningIsSigned
  <2>7. hostIssues(presented, inputs) = {}
    <3>1. triple # {}
      BY DEF triple
    <3>2. {m \in DOMAIN presented :
             inputs.countersignatureRequired /\ present(presented[m]) = {}} = {}
      BY <2>2, <2>6, <3>1
    <3>3. {m \in DOMAIN presented : present(presented[m]) \notin {{}, triple}} = {}
      BY <2>6
    <3>4. {m \in countersigned(presented) :
             \E host \in inputs.hostKeyRegistry : ~countersignatureCheck(host, presented[m])} = {}
      <4> SUFFICES ASSUME NEW m \in countersigned(presented)
                   PROVE  countersignatureCheck(keys, presented[m])
        BY <2>2
      <4>1. m \in DOMAIN presented /\ present(presented[m]) = triple
        BY DEF countersigned
      <4>2. c \in Countersigned
        BY <2>6, <3>1, <4>1
      <4> QED
        BY <2>6, <4>1, <4>2
    <3> QED
      BY <3>2, <3>3, <3>4 DEF hostIssues
  <2>8. identityIssues(presented, inputs) = {} /\ anchorIssues(presented, inputs) = {}
    BY <2>2, <2>6 DEF identityIssues, anchorIssues
  <2>9. unchecked(presented, inputs) = {}
    BY <2>2 DEF unchecked
  <2> QED
    BY <2>3, <2>4, <2>5, <2>7, <2>8, <2>9 DEF complete, issuesOf, inputs
<1> QED
  BY <1>1, PresentedInvariant, PTL
=============================================================================
