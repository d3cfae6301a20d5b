-------------------------- MODULE ConformanceProofs -------------------------
(***************************************************************************)
(* What the verifier accounts for in the chains the pinned cases are       *)
(* sealed into, in the words of the definition: every key, every session,  *)
(* every interleaving of the cases.  The tables of the cases themselves    *)
(* are finite and are checked by running them.                             *)
(***************************************************************************)
EXTENDS ConformanceVectors, AccountingProofs

\* The events of the cases, sealed on either side.
CaseEvents ==
    [id : Nat, session_id : CaseSessions, outcome : Outcomes,
     reason : AbortReasons \cup {NoReason}, body : {"action", OutOfDomain},
     key_id : {TOOL_KEY_ID, NoKey}, signer_seq : 0..TopOfDomain,
     signed_by : {ToolKey, Forged}, version : {0, CurrentVersion}]

\* What is sealed and what is still to be sealed are events of the cases.
CasesInv ==
    /\ Len(chain) \in Nat /\ DOMAIN chain = 1..Len(chain)
    /\ \A n \in DOMAIN chain : chain[n].event \in CaseEvents
    /\ \A side \in DOMAIN rest : rest[side] \in Seq(CaseEvents)

\* The accounting cases are made of such events, whichever side they are sealed on.
LEMMA AccountingCases ==
    ASSUME NEW case \in ACCOUNTING_CASES
    PROVE  /\ case.records \in Seq(CaseEvents)
           /\ \A side \in {1, 2} :
                 [n \in DOMAIN case.records |-> OnSide(case.records[n], side)] \in Seq(CaseEvents)
<1>1. TopOfDomain \in Nat /\ 10 < TopOfDomain
  BY CasesAssumption
<1>2. ASSUME NEW session \in {SESSION_ABC, SESSION_XYZ}, NEW id \in Nat, NEW outcome \in Outcomes,
             NEW n \in 0..TopOfDomain, NEW reason \in AbortReasons \cup {NoReason}
      PROVE  accIn(session, id, outcome, n, reason) \in CaseEvents
  BY DEF accIn, CaseEvents, CaseSessions
<1>3. ASSUME NEW id \in Nat, NEW outcome \in Outcomes, NEW n \in 0..TopOfDomain
      PROVE  acc(id, outcome, n) \in CaseEvents
  BY <1>2 DEF acc
<1>4. ASSUME NEW id \in Nat, NEW n \in 0..TopOfDomain, NEW reason \in AbortReasons
      PROVE  refusal(id, n, reason) \in CaseEvents
  BY <1>2 DEF refusal, Outcomes
<1> DEFINE Made(c) == c.records \in Seq(CaseEvents)
<1>5. case.records \in Seq(CaseEvents)
  <2>1. /\ {"attempted", "success", "failed", "aborted"} = Outcomes
        /\ {"hash-mismatch", "host-rejected", "host-unavailable"} \subseteq AbortReasons
        /\ NoReason \in AbortReasons \cup {NoReason}
        /\ {0, 1, 2, 3, 4, 5, TopOfDomain} \subseteq 0..TopOfDomain
    BY <1>1 DEF Outcomes, AbortReasons
  <2>2. /\ \A r : \A a, b \in CaseEvents : Made(Case(<<a>>, r)) /\ Made(Case(<<a, b>>, r))
        /\ \A r : \A a, b, c, d \in CaseEvents :
              Made(Case(<<a, b, c>>, r)) /\ Made(Case(<<a, b, c, d>>, r))
        /\ \A r : \A a, b, c, d, e \in CaseEvents : Made(Case(<<a, b, c, d, e>>, r))
    BY DEF Case
  <2> HIDE DEF Made
  <2>3. Made(Case(<<acc(1, "attempted", 0), acc(1, "success", 1), acc(2, "attempted", 2),
              acc(2, "failed", 3)>>, {}))
    <3>1. {acc(1, "attempted", 0), acc(1, "success", 1), acc(2, "attempted", 2), acc(2, "failed", 3)} \subseteq CaseEvents
      BY <1>3, <2>1
    <3> QED
      BY <3>1, <2>2
  <2>4. Made(Case(<<acc(1, "attempted", 0), acc(1, "success", 1), refusal(2, 3,
              "host-rejected"), acc(3, "attempted", 4)>>, {}))
    <3>1. {acc(1, "attempted", 0), acc(1, "success", 1), acc(3, "attempted", 4)} \subseteq CaseEvents
      BY <1>3, <2>1
    <3>2. refusal(2, 3, "host-rejected") \in CaseEvents
      BY <1>4, <2>1
    <3> QED
      BY <3>1, <3>2, <2>2
  <2>5. Made(Case(<<acc(1, "attempted", 0), acc(2, "attempted", 2)>>, {Run(1, 1)}))
    <3>1. {acc(1, "attempted", 0), acc(2, "attempted", 2)} \subseteq CaseEvents
      BY <1>3, <2>1
    <3> QED
      BY <3>1, <2>2
  <2>6. Made(Case(<<refusal(1, 2, "host-unavailable")>>, {Run(1, 1)}))
    <3>1. refusal(1, 2, "host-unavailable") \in CaseEvents
      BY <1>4, <2>1
    <3> QED
      BY <3>1, <2>2
  <2>7. Made(Case(<<acc(1, "attempted", 0), accIn(SESSION_XYZ, 2, "attempted", 0, NoReason),
              acc(1, "success", 1), accIn(SESSION_XYZ, 2, "success", 1, NoReason)>>, {}))
    <3>1. {acc(1, "attempted", 0), acc(1, "success", 1)} \subseteq CaseEvents
      BY <1>3, <2>1
    <3>2. /\ accIn(SESSION_XYZ, 2, "attempted", 0, NoReason) \in CaseEvents
          /\ accIn(SESSION_XYZ, 2, "success", 1, NoReason) \in CaseEvents
      BY <1>2, <2>1
    <3> QED
      BY <3>1, <3>2, <2>2
  <2>8. Made(Case(<<acc(1, "attempted", 0), refusal(1, 2, "hash-mismatch")>>, {Run(1, 1)}))
    <3>1. acc(1, "attempted", 0) \in CaseEvents
      BY <1>3, <2>1
    <3>2. refusal(1, 2, "hash-mismatch") \in CaseEvents
      BY <1>4, <2>1
    <3> QED
      BY <3>1, <3>2, <2>2
  <2>9. Made(Case(<<acc(1, "attempted", 0), accIn(SESSION_XYZ, 1, "aborted", 1,
              "host-rejected")>>, {}))
    <3>1. acc(1, "attempted", 0) \in CaseEvents
      BY <1>3, <2>1
    <3>2. accIn(SESSION_XYZ, 1, "aborted", 1, "host-rejected") \in CaseEvents
      BY <1>2, <2>1
    <3> QED
      BY <3>1, <3>2, <2>2
  <2>10. Made(Case(<<acc(1, "attempted", 0), acc(3, "attempted", 2), refusal(2, 3,
              "host-rejected"), acc(1, "success", 4), acc(3, "success", 5)>>, {}))
    <3>1. {acc(1, "attempted", 0), acc(3, "attempted", 2), acc(1, "success", 4), acc(3, "success", 5)} \subseteq CaseEvents
      BY <1>3, <2>1
    <3>2. refusal(2, 3, "host-rejected") \in CaseEvents
      BY <1>4, <2>1
    <3> QED
      BY <3>1, <3>2, <2>2
  <2>11. Made(Case(<<acc(1, "attempted", 0), refusal(2, 5, "host-rejected")>>, {Run(2, 4)}))
    <3>1. acc(1, "attempted", 0) \in CaseEvents
      BY <1>3, <2>1
    <3>2. refusal(2, 5, "host-rejected") \in CaseEvents
      BY <1>4, <2>1
    <3> QED
      BY <3>1, <3>2, <2>2
  <2>12. Made(Case(<<acc(2, "attempted", 0), refusal(1, 2, "host-rejected"), acc(1,
              "attempted", 3)>>, {}))
    <3>1. {acc(2, "attempted", 0), acc(1, "attempted", 3)} \subseteq CaseEvents
      BY <1>3, <2>1
    <3>2. refusal(1, 2, "host-rejected") \in CaseEvents
      BY <1>4, <2>1
    <3> QED
      BY <3>1, <3>2, <2>2
  <2>13. Made(Case(<<acc(1, "attempted", 0), acc(2, "attempted", TopOfDomain)>>, {Run(1,
              TopOfDomain - 1)}))
    <3>1. {acc(1, "attempted", 0), acc(2, "attempted", TopOfDomain)} \subseteq CaseEvents
      BY <1>3, <2>1
    <3> QED
      BY <3>1, <2>2
  <2>14. Made(case)
    BY <2>3, <2>4, <2>5, <2>6, <2>7, <2>8, <2>9, <2>10, <2>11, <2>12, <2>13 DEF ACCOUNTING_CASES
  <2> QED
    BY <2>14 DEF Made
<1>6. ASSUME NEW e \in CaseEvents, NEW side \in {1, 2}
      PROVE  OnSide(e, side) \in CaseEvents
  BY <1>6 DEF CaseEvents, OnSide, CaseSessions
<1>7. ASSUME NEW side \in {1, 2}
      PROVE  [n \in DOMAIN case.records |-> OnSide(case.records[n], side)] \in Seq(CaseEvents)
  <2>1. \A n \in 1..Len(case.records) : OnSide(case.records[n], side) \in CaseEvents
    BY <1>5, <1>6, <1>7
  <2>2. DOMAIN case.records = 1..Len(case.records) /\ Len(case.records) \in Nat
    BY <1>5
  <2> HIDE DEF CaseEvents, OnSide
  <2> QED
    BY <2>1, <2>2
<1> QED
  BY <1>5, <1>7

\* So are the verifier cases.
LEMMA VerifierCases ==
    ASSUME NEW case \in VERIFIER_CASES
    PROVE  case.events \in Seq(CaseEvents)
<1>1. TopOfDomain \in Nat /\ 0 \in 0..TopOfDomain
  BY CasesAssumption
<1>2. ASSUME NEW id \in Nat, NEW outcome \in Outcomes
      PROVE  /\ l1(id, outcome) \in CaseEvents
             /\ [l1(id, outcome) EXCEPT !.version = 0] \in CaseEvents
             /\ [l1(id, outcome) EXCEPT !.body = OutOfDomain] \in CaseEvents
  BY <1>1 DEF l1, CaseEvents, CaseSessions
<1> DEFINE Early    == <<l1(31, "success"), l1(31, "attempted")>>
           Older    == <<l1(32, "attempted"), [l1(33, "attempted") EXCEPT !.version = 0]>>
           Unhashed == <<[l1(34, "attempted") EXCEPT !.body = OutOfDomain]>>
<1>3. /\ l1(30, "attempted") \in CaseEvents /\ l1(30, "success") \in CaseEvents
      /\ l1(31, "attempted") \in CaseEvents /\ l1(31, "success") \in CaseEvents
      /\ l1(32, "attempted") \in CaseEvents
      /\ [l1(33, "attempted") EXCEPT !.version = 0] \in CaseEvents
      /\ [l1(34, "attempted") EXCEPT !.body = OutOfDomain] \in CaseEvents
  <2>1. {"attempted", "success"} \subseteq Outcomes
    BY DEF Outcomes
  <2> QED
    BY <1>2, <2>1
<1>4. {Pair, Early, Older, Unhashed} \subseteq Seq(CaseEvents)
  BY <1>3 DEF Pair
<1>5. case.events \in {Pair, Early, Older, Unhashed}
  <2>1. \A early, older, unhashed :
           early = Early /\ older = Older /\ unhashed = Unhashed
             => case.events \in {Pair, early, older, unhashed}
    BY SMTT(30) DEF VERIFIER_CASES, Verify
  <2> QED
    BY <2>1
<1> QED
  BY <1>4, <1>5

\* However it is countersigned, a record keeps its event.
LEMMA SealedEvent ==
    ASSUME NEW event, NEW host
    PROVE  sealedAs(event, host).event = event
BY DEF sealedAs

\* Sealing the next event of a case keeps to the events of the cases.
LEMMA CasesStep ==
    ASSUME CasesInv, [CasesNext]_chainVars
    PROVE  CasesInv'
<1>1. CASE UNCHANGED chainVars
  BY <1>1 DEF CasesInv, chainVars
<1>2. ASSUME NEW side \in DOMAIN rest, sealNext(side)
      PROVE  CasesInv'
  <2> DEFINE event == Head(rest[side])
             record == sealedAs(event, countersignerOf(Len(chain) + 1))
  <2>1. rest[side] \in Seq(CaseEvents) /\ rest[side] # << >>
    BY <1>2 DEF CasesInv, sealNext
  <2>2. event \in CaseEvents /\ Tail(rest[side]) \in Seq(CaseEvents)
    <3> HIDE DEF CaseEvents
    <3> QED
      BY <2>1
  <2>3. record.event \in CaseEvents
    BY <2>2, SealedEvent
  <2>4. chain' = Append(chain, record) /\ rest' = [rest EXCEPT ![side] = Tail(@)]
    BY <1>2 DEF sealNext
  <2> HIDE DEF record, event, CaseEvents
  <2>5. /\ Len(chain') = Len(chain) + 1 /\ DOMAIN chain' = 1..(Len(chain) + 1)
        /\ \A n \in 1..Len(chain) : chain'[n] = chain[n]
        /\ chain'[Len(chain) + 1] = record
    BY <2>4 DEF CasesInv
  <2>6. \A n \in DOMAIN chain' : chain'[n].event \in CaseEvents
    BY <2>3, <2>5 DEF CasesInv
  <2>7. \A x \in DOMAIN rest' : rest'[x] \in Seq(CaseEvents)
    BY <2>2, <2>4 DEF CasesInv
  <2> QED
    BY <2>5, <2>6, <2>7 DEF CasesInv
<1> QED
  BY <1>1, <1>2 DEF CasesNext
\* So does beginning with any of them.
LEMMA CasesBegin ==
    ASSUME NoCase \/ CasesInit
    PROVE  CasesInv
<1>1. chain = << >>
  BY DEF NoCase, CasesInit
<1>2. \A side \in DOMAIN rest : rest[side] \in Seq(CaseEvents)
  <2>1. CASE NoCase
    BY <2>1 DEF NoCase
  <2>2. ASSUME NEW one \in ACCOUNTING_CASES, NEW other \in ACCOUNTING_CASES, NEW side \in {1, 2},
               rest = <<one.records,
                        [n \in DOMAIN other.records |-> OnSide(other.records[n], side)]>>
        PROVE  \A x \in DOMAIN rest : rest[x] \in Seq(CaseEvents)
    <3>1. one.records \in Seq(CaseEvents)
      BY AccountingCases
    <3>2. [n \in DOMAIN other.records |-> OnSide(other.records[n], side)] \in Seq(CaseEvents)
      BY AccountingCases
    <3> QED
      BY <2>2, <3>1, <3>2
  <2>3. ASSUME NEW case \in VERIFIER_CASES, rest = <<case.events>>
        PROVE  \A x \in DOMAIN rest : rest[x] \in Seq(CaseEvents)
    BY <2>3, VerifierCases
  <2> QED
    BY <2>1, <2>2, <2>3 DEF CasesInit
<1> QED
  BY <1>1, <1>2 DEF CasesInv

\* What has been sealed of the cases is accounted for as the definition says, for every
\* key and session and at every point of every interleaving.
LEMMA CasesAreExact ==
    ASSUME CasesInv
    PROVE  AccountingIsExact
<1> SUFFICES ASSUME NEW key \in KeyIds, NEW s \in Sessions
             PROVE
       LET Of(n)    == chain[n].event.key_id = key /\ chain[n].event.session_id = s
           value(n) == chain[n].event.signer_seq
           numbers == {value(n) : n \in {m \in DOMAIN chain : Of(m)}}
           missing  == {v \in 0..TopOfDomain : v \notin numbers /\ \E w \in numbers : v < w}
           refusing == {n \in DOMAIN chain :
                          /\ Of(n)
                          /\ chain[n].event.outcome = "aborted"
                          /\ chain[n].event.reason \in {"host-rejected", "host-unavailable"}
                          /\ \A m \in 1..(n - 1) :
                                IsAttempt(chain[m].event)
                                  => ~SameOperation(chain[m].event, chain[n].event)}
           served(R) == \E f \in Injection(R, missing) : \A n \in R : f[n] < value(n)
           runs     == {u.run : u \in {v \in unaccountedSignerSeq(chain) :
                                         v.key_id = key /\ v.session_id = s}}
           reported == UNION {r.first..r.last : r \in runs}
           settled  == missing \ reported
       IN
       /\ reported \subseteq missing
       /\ \A v \in settled, w \in reported : v < w
       /\ \E R \in SUBSET refusing : served(R) /\ Cardinality(R) = Cardinality(settled)
       /\ \A R \in SUBSET refusing : served(R) => Cardinality(R) <= Cardinality(settled)
       /\ \A r \in runs : r.first <= r.last /\ r.last + 1 \notin reported
  BY DEF AccountingIsExact
<1> DEFINE Of(n)    == chain[n].event.key_id = key /\ chain[n].event.session_id = s
           value(n) == chain[n].event.signer_seq
           numbers  == {value(n) : n \in {m \in DOMAIN chain : Of(m)}}
           missing  == {v \in 0..TopOfDomain : v \notin numbers /\ \E w \in numbers : v < w}
           refusing == {n \in DOMAIN chain :
                          /\ Of(n)
                          /\ chain[n].event.outcome = "aborted"
                          /\ chain[n].event.reason \in {"host-rejected", "host-unavailable"}
                          /\ \A m \in 1..(n - 1) :
                                IsAttempt(chain[m].event)
                                  => ~SameOperation(chain[m].event, chain[n].event)}
           served(R) == \E f \in Injection(R, missing) : \A n \in R : f[n] < value(n)
           runs     == {u.run : u \in {v \in unaccountedSignerSeq(chain) :
                                         v.key_id = key /\ v.session_id = s}}
           reported == UNION {r.first..r.last : r \in runs}
           settled  == missing \ reported
           left     == unaccountedRuns(chain, key, s)
<1>1. /\ DOMAIN chain = 1..Len(chain) /\ Len(chain) \in Nat
      /\ \A n \in DOMAIN chain : value(n) \in 0..TopOfDomain
      /\ TopOfDomain \in Nat /\ key # NoKey
  BY CasesAssumption, EventsAssumption DEF CasesInv, CaseEvents
<1>2. Numbered(chain)
  <2>1. IsFiniteSet(DOMAIN chain) /\ DOMAIN chain \subseteq Nat
    BY <1>1, FS_Interval
  <2> QED
    BY <1>1, <2>1 DEF Numbered, numbered
<1>3. group(chain, key, s) = {n \in DOMAIN chain : Of(n)}
  BY <1>1 DEF group, numbered, Unsigned
<1>4. NumbersOf(chain, key, s) = numbers
  BY <1>3 DEF NumbersOf
<1>5. Missing(numbers) = missing
  <2>1. numbers \subseteq 0..TopOfDomain
    BY <1>1
  <2> HIDE DEF numbers
  <2> QED
    BY <1>1, <2>1 DEF Missing
<1>6. RefusalsOf(chain, key, s) = refusing
  <2> DEFINE Uncorrelated(n) ==
               \A m \in 1..(n - 1) :
                  IsAttempt(chain[m].event) => ~SameOperation(chain[m].event, chain[n].event)
  <2>1. \A n : ~correlated(chain, n) <=> Uncorrelated(n)
    BY DEF correlated
  <2>2. refusing = {n \in {m \in DOMAIN chain : Of(m)} :
                      /\ chain[n].event.outcome = "aborted"
                      /\ chain[n].event.reason \in {"host-rejected", "host-unavailable"}
                      /\ Uncorrelated(n)}
    BY Zenon
  <2> HIDE DEF Of, Uncorrelated, refusing
  <2> QED
    BY <1>3, <2>1, <2>2 DEF RefusalsOf, refusals
<1>7. AccountsFor(left, refusing, chain, missing)
  <2>1. AccountsFor(left, RefusalsOf(chain, key, s), chain, Missing(NumbersOf(chain, key, s)))
    BY <1>2, AccountingTheorem
  <2> HIDE DEF left, refusing, missing, numbers
  <2> QED
    BY <1>4, <1>5, <1>6, <2>1
<1>8. Ascending(left)
  BY <1>7 DEF AccountsFor
<1>9. runs = {left[n] : n \in DOMAIN left}
  <2> DEFINE here(run) == [key_id |-> key, session_id |-> s, run |-> run]
  <2>1. ASSUME NEW run \in Range(left)
        PROVE  run \in runs
    <3> DEFINE Theirs(k, t) == {[key_id |-> k, session_id |-> t, run |-> x] :
                                x \in Range(unaccountedRuns(chain, k, t))}
    <3>1. here(run) \in Theirs(key, s)
      BY <2>1
    <3>2. unaccountedSignerSeq(chain) = UNION {Theirs(k, t) : k \in KeyIds, t \in Sessions}
      BY DEF unaccountedSignerSeq
    <3> HIDE DEF Theirs
    <3>3. here(run) \in unaccountedSignerSeq(chain)
      BY <3>1, <3>2
    <3>4. here(run).key_id = key /\ here(run).session_id = s /\ here(run).run = run
      OBVIOUS
    <3> HIDE DEF here
    <3> QED
      BY <3>3, <3>4
  <2>2. ASSUME NEW run \in runs
        PROVE  run \in Range(left)
    <3>1. PICK u \in unaccountedSignerSeq(chain) : u.key_id = key /\ u.session_id = s /\ run = u.run
      BY <2>2
    <3>2. PICK k \in KeyIds, t \in Sessions :
             u \in {[key_id |-> k, session_id |-> t, run |-> x] : x \in Range(unaccountedRuns(chain, k, t))}
      BY <3>1 DEF unaccountedSignerSeq
    <3>3. PICK x \in Range(unaccountedRuns(chain, k, t)) : u = [key_id |-> k, session_id |-> t, run |-> x]
      BY <3>2
    <3>4. k = key /\ t = s /\ x = run
      BY <3>1, <3>3
    <3> QED
      BY <3>3, <3>4
  <2>3. runs = Range(left)
    <3> HIDE DEF runs, left
    <3> QED
      BY <2>1, <2>2
  <2> HIDE DEF left, runs
  <2> QED
    BY <2>3 DEF Range
<1>10. reported = ValuesOf(left)
  <2> HIDE DEF left, runs
  <2> QED
    BY <1>9 DEF ValuesOf
<1>11. \A R : served(R) <=> Assignable(R, chain, missing)
  BY DEF Assignable, Assigns
<1> HIDE DEF Of, numbers, missing, refusing, runs, left, served
<1>12. /\ reported \subseteq missing
       /\ \A v \in settled, w \in reported : v < w
       /\ \E R \in SUBSET refusing : served(R) /\ Cardinality(R) = Cardinality(settled)
       /\ \A R \in SUBSET refusing : served(R) => Cardinality(R) <= Cardinality(settled)
  BY <1>7, <1>10, <1>11 DEF AccountsFor
<1>13. ASSUME NEW r \in runs
       PROVE  r.first <= r.last /\ r.last + 1 \notin reported
  <2>1. PICK n \in DOMAIN left : r = left[n]
    BY <1>9, <1>13
  <2>2. /\ left \in Seq(Runs) /\ DOMAIN left = 1..Len(left) /\ Len(left) \in Nat
        /\ \A m \in DOMAIN left : left[m].first \in Nat /\ left[m].last \in Nat
    <3>1. left \in Seq(Runs)
      BY <1>8 DEF Ascending
    <3>2. \A m \in 1..Len(left) : left[m] \in Runs
      BY <3>1
    <3> QED
      BY <3>1, <3>2 DEF Runs
  <2>3. r.first <= r.last
    BY <1>8, <2>1 DEF Ascending
  <2>4. ASSUME NEW m \in DOMAIN left, r.last + 1 \in left[m].first..left[m].last
        PROVE  FALSE
    <3>1. CASE m < n
      <4>1. left[m].last + 1 < left[n].first
        BY <1>8, <3>1 DEF Ascending
      <4> QED
        BY <2>1, <2>2, <2>3, <2>4, <4>1
    <3>2. CASE n < m
      <4>1. left[n].last + 1 < left[m].first
        BY <1>8, <3>2 DEF Ascending
      <4> QED
        BY <2>1, <2>2, <2>4, <4>1
    <3>3. CASE n = m
      BY <2>1, <2>2, <2>4, <3>3
    <3> QED
      BY <2>2, <3>1, <3>2, <3>3
  <2>5. r.last + 1 \notin ValuesOf(left)
    BY <2>4 DEF ValuesOf
  <2> QED
    BY <1>10, <2>3, <2>5
<1> QED
  BY <1>12, <1>13 DEF Of, numbers, missing, refusing, runs, served

\* Of the chains of the pinned cases the verifier reports exactly what section 11.4 says:
\* as many missing values are accounted for as refusals can stand for, the smallest
\* ones, and the rest is in maximal runs - in the words the cases are checked with.
THEOREM ConformanceTheorem == ConformanceSpec => []AccountingIsExact
<1>1. ConformanceInit => CasesInv
  BY CasesBegin DEF ConformanceInit
<1>2. CasesInv /\ [ConformanceNext]_conformanceVars => CasesInv'
  <2>1. [ConformanceNext]_conformanceVars => [CasesNext]_chainVars
    BY DEF ConformanceNext, conformanceVars
  <2> QED
    BY <2>1, CasesStep
<1>3. CasesInv => AccountingIsExact
  BY CasesAreExact
<1> QED
  BY <1>1, <1>2, <1>3, PTL DEF ConformanceSpec
=============================================================================
