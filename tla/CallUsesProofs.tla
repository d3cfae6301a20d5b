-------------------------- MODULE CallUsesProofs ----------------------------
(***************************************************************************)
(* Theorems about what is built on audited calls, for every assignment of  *)
(* operations to calls and every bound: the example tool, and              *)
(* reconciliation.                                                         *)
(*                                                                         *)
(* The example tool uses the tool session the way AuditedCall allows, the  *)
(* ledger follows its program, and the result of a call tells what is on   *)
(* record of it.                                                           *)
(* The program awaits an operation before the next (StepsInOrder), so what *)
(* it sends comes in its order, on the connection and in the ledger        *)
(* (ProgramOrder); and an outcome is sent or lost, and then never on its   *)
(* way again (LostForGood).                                                *)
(***************************************************************************)
EXTENDS AnalystCall, Reconciliation, AuditedCallProofs

\* An operation begins once those before it were performed.
StepsInOrder ==
    \A s \in Sessions, n \in DOMAIN ActionTypes :
       phase[StepsOf[s][n]] # "idle" => \A m \in 1..(n - 1) : resolved(StepsOf[s][m])

\* Event f may come behind e.
Follows(f, e) ==
    e.session_id = f.session_id =>
       /\ e.outcome # "aborted"
       /\ \/ StepOf(e) < StepOf(f)
          \/ StepOf(e) = StepOf(f) /\ IsAttempt(e)

\* What is sealed and under way comes in the order of the program.
ProgramOrder ==
    /\ \A m, n \in DOMAIN toHost :
          IsEvent(toHost[m]) /\ IsEvent(toHost[n]) /\ m < n
            => Follows(toHost[n].event, toHost[m].event)
    /\ \A k \in DOMAIN ledger, n \in DOMAIN toHost :
          IsEvent(toHost[n]) => Follows(toHost[n].event, ledger[k].event)
    /\ \A m, n \in DOMAIN ledger : m < n => Follows(ledger[n].event, ledger[m].event)

\* An outcome that was lost was true, and is neither under way nor sealed.
LostForGood ==
    \A e \in lost :
       ~IsAttempt(e) =>
         /\ EndTold(e)
         /\ \A n \in DOMAIN toHost : toHost[n].method = "audit/outcome" => toHost[n].event.id # e.id
         /\ \A k \in TerminalRecords : ledger[k].event.id # e.id

-----------------------------------------------------------------------------
(***************************************************************************)
(* The example tool as a user of the tool session.                         *)
(***************************************************************************)

\* The fields of a step of the program.
LEMMA StepFields ==
    ASSUME NEW s \in Sessions, NEW n \in DOMAIN ActionTypes
    PROVE  /\ StepsOf[s][n] \in Ids /\ SessionOf[StepsOf[s][n]] = s
           /\ ActionTypes[n] \in Bodies /\ n \in Nat /\ n >= 1
           /\ \A m \in 1..(n - 1) : m \in DOMAIN ActionTypes /\ m < n
<1>1. DOMAIN ActionTypes = 1..3
  BY DEF ActionTypes
<1>2. StepsOf[s][n] \in OpsOf(s)
  BY StepsAssumption
<1> QED
  BY <1>1, <1>2, StepsAssumption DEF OpsOf

\* What the program does is a step of the tool's.
LEMMA AnalystSteps ==
    ASSUME NEW s \in Sessions, analyze(s) \/ analyzeReturns(s), UNCHANGED <<vars, callVars>>
    PROVE  toolSteps
<1>1. ASSUME proceeds(s)
      PROVE  \E i \in Ids : operates(i)
  <2>1. PICK n \in DOMAIN ActionTypes : audited(StepsOf[s][n], ActionTypes[n])
    BY <1>1 DEF proceeds
  <2> QED
    BY <2>1, StepFields DEF operates
<1>2. ASSUME NEW i \in OpsOf(s), performReturns(i)
      PROVE  performEnds(i)
  BY <1>2 DEF performReturns, performEnds
<1>3. OpsOf(s) \subseteq Ids
  BY DEF OpsOf
<1> QED
  BY <1>1, <1>2, <1>3 DEF analyze, analyzeReturns, operates, toolSteps

\* A step of the example tool's call is one of an audited call.
LEMMA AnalystStep ==
    ASSUME [AnalystNext]_allVars
    PROVE  [CallNext]_allVars
BY AnalystSteps DEF AnalystNext, CallNext

\* The example tool uses the tool session the way AuditedCall allows: every
\* behaviour of a call of it is one of AuditedCall, whose theorems hold of it.
THEOREM AnalystIsCall == AnalystSpec => CallSpec
<1>1. [AnalystNext]_allVars => [CallNext]_allVars
  BY AnalystStep
<1> QED
  BY <1>1, PTL DEF AnalystSpec, CallSpec

-----------------------------------------------------------------------------
(***************************************************************************)
(* The order of the program.                                               *)
(***************************************************************************)

\* What was performed and awaited stays so.
LEMMA ResolvedStays ==
    ASSUME ToolInv, [CallNext]_allVars, NEW j \in Ids, phase[j] = "concluded"
    PROVE  phase'[j] = phase[j] /\ performed'[j] = performed[j]
<1>1. /\ phase \in [Ids -> {"idle", "asking", "performing", "concluded"}]
      /\ performed \in [Ids -> Nat]
  BY DEF ToolInv, ToolTypeOK
<1>2. ASSUME NEW i \in Ids, Moves(i)
      PROVE  phase'[j] = phase[j] /\ performed'[j] = performed[j]
  <2>1. i # j
    BY <1>2 DEF Moves
  <2> QED
    BY <1>1, <1>2, <2>1 DEF Moves, concludes
<1> QED
  BY <1>2, ToolMoves, OnlyToolMoves

\* An operation begins as the program says.
LEMMA BeginsInOrder ==
    ASSUME ToolInv, [AnalystNext]_allVars, NEW j \in Ids, phase[j] = "idle", phase'[j] # "idle"
    PROVE  \E s \in Sessions, n \in DOMAIN ActionTypes :
              StepsOf[s][n] = j /\ \A m \in 1..(n - 1) : resolved(StepsOf[s][m])
<1>1. phase \in [Ids -> {"idle", "asking", "performing", "concluded"}]
  BY DEF ToolInv, ToolTypeOK
<1>2. ASSUME NEW i \in Ids, unanswered(i) \/ answered(i) \/ performReturns(i)
      PROVE  FALSE
  BY <1>1, <1>2 DEF unanswered, answered, performReturns, retry, abort, concludes
<1>3. toolSteps
  BY OnlyToolMoves, AnalystStep
<1>4. PICK s \in Sessions : analyze(s) \/ analyzeReturns(s)
  <2>1. UNCHANGED phase \/ \E s \in Sessions : analyze(s) \/ analyzeReturns(s)
    BY DEF AnalystNext, allVars, toolVars, callAudited, callGivenUp, receive, misdeliver,
       switchDurability, provisionTool
  <2> QED
    BY <2>1
<1>5. proceeds(s)
  BY <1>2, <1>4 DEF analyze, analyzeReturns, respond, OpsOf
<1>6. PICK n \in DOMAIN ActionTypes :
         /\ \A m \in 1..(n - 1) : resolved(StepsOf[s][m])
         /\ audited(StepsOf[s][n], ActionTypes[n])
  BY <1>5 DEF proceeds
<1>7. j = StepsOf[s][n]
  BY <1>1, <1>6 DEF audited
<1> QED
  BY <1>6, <1>7

\* A step begins when those before it are over and performed.
LEMMA StepsInOrderStep ==
    ASSUME ToolInv, StepsInOrder, [AnalystNext]_allVars
    PROVE  StepsInOrder'
<1> SUFFICES ASSUME NEW s \in Sessions, NEW n \in DOMAIN ActionTypes,
                    phase'[StepsOf[s][n]] # "idle", NEW m \in 1..(n - 1)
             PROVE  phase'[StepsOf[s][m]] = "concluded" /\ performed'[StepsOf[s][m]] = 1
  BY DEF StepsInOrder, resolved
<1>1. StepsOf[s][n] \in Ids /\ SessionOf[StepsOf[s][n]] = s
  BY StepFields
<1>2. m \in DOMAIN ActionTypes /\ StepsOf[s][m] \in Ids
  BY StepFields
<1>3. resolved(StepsOf[s][m])
  <2>1. CASE phase[StepsOf[s][n]] # "idle"
    BY <2>1 DEF StepsInOrder
  <2>2. CASE phase[StepsOf[s][n]] = "idle"
    <3>1. PICK t \in Sessions, k \in DOMAIN ActionTypes :
             StepsOf[t][k] = StepsOf[s][n] /\ \A l \in 1..(k - 1) : resolved(StepsOf[t][l])
      BY <1>1, <2>2, BeginsInOrder
    <3>2. t = s
      BY <1>1, <3>1, StepFields
    <3>3. k = n
      BY <3>1, <3>2, StepsAssumption
    <3> QED
      BY <3>1, <3>2, <3>3
  <2> QED
    BY <2>1, <2>2
<1> QED
  BY <1>2, <1>3, AnalystStep, ResolvedStays DEF resolved

\* An event of an operation that has begun, and true of it.
OfTool(e) ==
    /\ e \in ToolEvents /\ e.id \in Ids /\ e.session_id = SessionOf[e.id]
    /\ e.session_id \in Sessions
    /\ phase[e.id] # "idle"
    /\ RecordTold(e, sent, phase, performed)

\* What an event tells of its operation tells that it was begun.
LEMMA BegunEvent ==
    ASSUME AlwaysKnown, NEW e \in ToolEvents, RecordTold(e, sent, phase, performed)
    PROVE  OfTool(e)
<1>1. e.id \in Ids /\ e # Nothing
  BY ToolEventFields, NothingAssumption
<1>2. phase[e.id] # "idle"
  BY <1>1 DEF RecordTold, Told, AlwaysKnown, ToolInv
<1> QED
  BY <1>2, ToolEventFields DEF OfTool

\* An event on the connection is of an operation that was begun.
LEMMA PostedEvent ==
    ASSUME AlwaysKnown, NEW n \in DOMAIN toHost, IsEvent(toHost[n])
    PROVE  OfTool(toHost[n].event)
<1> DEFINE m == toHost[n]
<1>1. m \in Messages /\ (m.method = "audit/attempt" => m.event = sent[m.event.id])
  BY DEF AlwaysKnown, ToolInv, MessagesOK
<1>2. (m.method = "audit/outcome") => EndTold(m.event)
  BY DEF AlwaysKnown, TruthInv, OutcomesTold
<1>3. IsEvent(m)
  OBVIOUS
<1> HIDE DEF m
<1>4. m.event \in ToolEvents /\ m.method \in {"audit/attempt", "audit/outcome"}
  BY <1>1, <1>3 DEF Messages, IsEvent
<1>5. RecordTold(m.event, sent, phase, performed)
  <2>1. CASE m.method = "audit/attempt"
    <3>1. m.event.id \in Ids /\ m.event # Nothing /\ m.event = sent[m.event.id]
      BY <1>1, <1>4, <2>1, ToolEventFields, NothingAssumption
    <3>2. phase[m.event.id] # "idle"
      BY <3>1 DEF AlwaysKnown, ToolInv
    <3>3. IsAttempt(m.event)
      BY <3>1, <3>2 DEF AlwaysKnown, TruthInv, PhasesFit
    <3> QED
      BY <3>1, <3>3 DEF RecordTold
  <2>2. CASE m.method = "audit/outcome"
    BY <1>2, <2>2 DEF RecordTold, EndTold, Told
  <2> QED
    BY <1>4, <2>1, <2>2
<1> QED
  BY <1>4, <1>5, BegunEvent DEF m

\* An event that is sealed is of an operation that was begun.
LEMMA SealedEvent ==
    ASSUME AlwaysKnown, NEW n \in DOMAIN ledger
    PROVE  OfTool(ledger[n].event)
<1>1. ledger[n].event \in ToolEvents /\ RecordTold(ledger[n].event, sent, phase, performed)
  BY TruthByRecord DEF AlwaysKnown, TruthInv, RecordsAreTools
<1> QED
  BY <1>1, BegunEvent

\* The place of an operation in its call's program.
LEMMA StepOfIs ==
    ASSUME NEW e \in ToolEvents
    PROVE  /\ StepOf(e) \in DOMAIN ActionTypes /\ StepsOf[e.session_id][StepOf(e)] = e.id
           /\ StepOf(e) \in Nat
<1>1. e.session_id \in Sessions /\ e.id \in OpsOf(e.session_id)
  BY ToolEventFields DEF OpsOf
<1>2. \E n \in DOMAIN ActionTypes : StepsOf[e.session_id][n] = e.id
  BY <1>1, StepsAssumption
<1>3. StepOf(e) \in DOMAIN ActionTypes /\ StepsOf[e.session_id][StepOf(e)] = e.id
  BY <1>2 DEF StepOf
<1> QED
  BY <1>1, <1>3, StepFields

\* Whatever was sent before may come before what is sent now.
LEMMA FollowsEarlier ==
    ASSUME AlwaysKnown, FlagInv, StepsInOrder, StepsInOrder', [CallNext]_allVars,
           NEW i \in Ids, NEW m, Stamps(i, m) \/ Repeats(i, m),
           NEW e, OfTool(e)
    PROVE  Follows(m.event, e)
<1> DEFINE f == m.event
<1>1. /\ m \in Messages /\ IsEvent(m) /\ f.id = i /\ f.session_id = SessionOf[i]
      /\ phase[i] # "concluded"
  BY SentEvent DEF FlagInv
<1>2. f \in ToolEvents
  BY <1>1 DEF Messages, IsEvent
<1>3. phase'[i] # "idle"
  BY DEF Stamps, Repeats, AlwaysKnown, ToolInv, ToolTypeOK
<1> HIDE DEF f
<1> SUFFICES ASSUME e.session_id = f.session_id
             PROVE  /\ e.outcome # "aborted"
                    /\ StepOf(e) < StepOf(f) \/ (StepOf(e) = StepOf(f) /\ IsAttempt(e))
  BY DEF Follows, f
<1> DEFINE s == f.session_id
           k == StepOf(e)
           n == StepOf(f)
<1>4. /\ k \in DOMAIN ActionTypes /\ StepsOf[s][k] = e.id /\ k \in Nat
      /\ n \in DOMAIN ActionTypes /\ StepsOf[s][n] = i /\ n \in Nat /\ s \in Sessions
      /\ k >= 1 /\ n >= 1
  <2>1. e \in ToolEvents
    BY DEF OfTool
  <2>2. s \in Sessions
    BY <1>2, ToolEventFields
  <2> QED
    BY <1>1, <1>2, <2>1, <2>2, StepOfIs, StepFields
<1> HIDE DEF s, k, n
<1>5. ~(n < k)
  <2>1. SUFFICES ASSUME n < k PROVE FALSE
    OBVIOUS
  <2>2. n \in 1..(k - 1)
    BY <1>4, <2>1
  <2>3. resolved(i)
    BY <1>4, <2>2 DEF StepsInOrder, OfTool
  <2> QED
    BY <1>1, <2>3 DEF resolved
<1>6. CASE n = k
  <2>1. IsAttempt(e)
    BY <1>1, <1>4, <1>6 DEF OfTool, RecordTold, Told
  <2> QED
    BY <1>6, <2>1 DEF IsAttempt, k, n
<1>7. CASE k < n
  <2>1. k \in 1..(n - 1)
    BY <1>4, <1>7
  <2>2. performed'[e.id] = 1
    BY <1>3, <1>4, <2>1 DEF StepsInOrder, resolved
  <2>3. RecordTold(e, sent', phase', performed')
    BY RecordToldStays DEF OfTool, AlwaysKnown
  <2>4. e.outcome # "aborted"
    BY <2>2, <2>3 DEF RecordTold, Told, IsAttempt
  <2> QED
    BY <1>7, <2>4 DEF k, n
<1> QED
  BY <1>4, <1>5, <1>6, <1>7

\* No step puts an event before one of an earlier step of the program.
LEMMA ProgramOrderStep ==
    ASSUME AlwaysKnown, FlagInv, StepsInOrder, StepsInOrder', ProgramOrder, [CallNext]_allVars
    PROVE  ProgramOrder'
<1>1. ASSUME UNCHANGED ledger, NEW m,
             \A n \in DOMAIN toHost : n \in Nat /\ n < Len(toHost) + 1,
             \A n \in DOMAIN toHost' :
                \/ n \in DOMAIN toHost /\ toHost'[n] = toHost[n]
                \/ toHost'[n] = m /\ n = Len(toHost) + 1,
             IsEvent(m) => \A e : OfTool(e) => Follows(m.event, e)
      PROVE  ProgramOrder'
  <2>1. ASSUME NEW k \in DOMAIN toHost', NEW n \in DOMAIN toHost',
               IsEvent(toHost'[k]), IsEvent(toHost'[n]), k < n
        PROVE  Follows(toHost'[n].event, toHost'[k].event)
    <3>1. CASE n \in DOMAIN toHost /\ toHost'[n] = toHost[n]
      <4>1. k \in DOMAIN toHost /\ toHost'[k] = toHost[k]
        BY <1>1, <2>1, <3>1
      <4> QED
        BY <2>1, <3>1, <4>1 DEF ProgramOrder
    <3>2. CASE toHost'[n] = m /\ n = Len(toHost) + 1
      <4>1. k \in DOMAIN toHost /\ toHost'[k] = toHost[k]
        BY <1>1, <2>1, <3>2
      <4> QED
        BY <1>1, <2>1, <3>2, <4>1, PostedEvent
    <3> QED
      BY <1>1, <3>1, <3>2
  <2>2. ASSUME NEW k \in DOMAIN ledger, NEW n \in DOMAIN toHost', IsEvent(toHost'[n])
        PROVE  Follows(toHost'[n].event, ledger[k].event)
    <3>1. CASE n \in DOMAIN toHost /\ toHost'[n] = toHost[n]
      BY <2>2, <3>1 DEF ProgramOrder
    <3>2. CASE toHost'[n] = m
      BY <1>1, <2>2, <3>2, SealedEvent
    <3> QED
      BY <1>1, <3>1, <3>2
  <2> QED
    BY <1>1, <2>1, <2>2 DEF ProgramOrder
<1>2. CASE UNCHANGED <<ledger, toHost>>
  BY <1>2 DEF ProgramOrder, IsEvent
<1>3. CASE toolSteps
  <2>1. UNCHANGED ledger
    BY <1>3, ToolKind
  <2>2. ASSUME NEW i \in Ids, NEW m, Stamps(i, m) \/ Repeats(i, m)
        PROVE  ProgramOrder'
    <3>1. m \in Messages /\ Sends(m)
      BY <2>2, SentEvent DEF FlagInv
    <3>2. \A e : OfTool(e) => Follows(m.event, e)
      BY <2>2, FollowsEarlier
    <3> QED
      BY <1>1, <2>1, <3>1, <3>2, SendsBehind
  <2>3. ASSUME NEW i \in Ids, Performs(i)
        PROVE  ProgramOrder'
    BY <1>2, <2>1, <2>3 DEF Performs
  <2>4. ASSUME NEW s \in Sessions, respond(s)
        PROVE  ProgramOrder'
    <3> DEFINE m == ResultMessage(s)
    <3>1. toHost' = Append(toHost, m) /\ ~IsEvent(m) /\ toHost \in Seq(Messages)
      BY <2>4 DEF respond, ResultMessage, IsEvent, AlwaysKnown, ToolInv, ToolTypeOK
    <3> HIDE DEF m
    <3>2. /\ \A n \in DOMAIN toHost : n \in Nat /\ n < Len(toHost) + 1
          /\ \A n \in DOMAIN toHost' :
                \/ n \in DOMAIN toHost /\ toHost'[n] = toHost[n]
                \/ toHost'[n] = m /\ n = Len(toHost) + 1
      BY <3>1
    <3> QED
      BY <1>1, <2>1, <3>1, <3>2
  <2> QED
    BY <1>3, <2>2, <2>3, <2>4, ToolKind
<1>4. CASE TakesEvent \/ TakesResult
  <2>1. toHost # << >> /\ toHost' = Tail(toHost)
    BY <1>4 DEF TakesEvent, TakesResult
  <2>2. /\ \A n \in DOMAIN toHost' :
              n \in Nat /\ n + 1 \in DOMAIN toHost /\ toHost'[n] = toHost[n + 1] /\ 1 < n + 1
        /\ 1 \in DOMAIN toHost /\ Head(toHost) = toHost[1]
    BY <2>1, TakenOff
  <2>3. ASSUME NEW k \in DOMAIN toHost', NEW n \in DOMAIN toHost',
               IsEvent(toHost'[k]), IsEvent(toHost'[n]), k < n
        PROVE  Follows(toHost'[n].event, toHost'[k].event)
    <3>1. k + 1 < n + 1
      BY <2>2, <2>3
    <3> QED
      BY <2>2, <2>3, <3>1 DEF ProgramOrder
  <2>4. CASE UNCHANGED ledger
    <3>1. ASSUME NEW k \in DOMAIN ledger, NEW n \in DOMAIN toHost', IsEvent(toHost'[n])
          PROVE  Follows(toHost'[n].event, ledger[k].event)
      BY <2>2, <3>1 DEF ProgramOrder
    <3> QED
      BY <2>3, <2>4, <3>1 DEF ProgramOrder
  <2>5. CASE TakesEvent /\ Seals(Head(toHost).event)
    <3> DEFINE e == Head(toHost).event
               l == Len(ledger) + 1
    <3>1. e \in Events /\ e = toHost[1].event /\ IsEvent(toHost[1])
      BY <2>2, <2>5, HeadEvent DEF TakesEvent, FlagInv
    <3> HIDE DEF e
    <3>2. /\ DOMAIN ledger' = DOMAIN ledger \cup {l}
          /\ \A k \in DOMAIN ledger : k \in Nat /\ k < l /\ ledger'[k] = ledger[k]
          /\ ledger'[l].event = e /\ l \in Nat
      BY <2>5, <3>1, SealsAppends DEF AlwaysKnown, e
    <3> HIDE DEF l
    <3>3. ASSUME NEW k \in DOMAIN ledger', NEW n \in DOMAIN toHost', IsEvent(toHost'[n])
          PROVE  Follows(toHost'[n].event, ledger'[k].event)
      <4>1. CASE k = l
        BY <2>2, <3>1, <3>2, <3>3, <4>1 DEF ProgramOrder
      <4>2. CASE k \in DOMAIN ledger
        BY <2>2, <3>2, <3>3, <4>2 DEF ProgramOrder
      <4> QED
        BY <3>2, <4>1, <4>2
    <3>4. ASSUME NEW k \in DOMAIN ledger', NEW n \in DOMAIN ledger', k < n
          PROVE  Follows(ledger'[n].event, ledger'[k].event)
      <4>1. k \in DOMAIN ledger
        BY <3>2, <3>4
      <4>2. CASE n = l
        BY <2>2, <3>1, <3>2, <4>1, <4>2 DEF ProgramOrder
      <4>3. CASE n \in DOMAIN ledger
        BY <3>2, <3>4, <4>1, <4>3 DEF ProgramOrder
      <4> QED
        BY <3>2, <4>2, <4>3
    <3> QED
      BY <2>3, <3>3, <3>4 DEF ProgramOrder
  <2> QED
    <3>1. UNCHANGED ledger \/ (TakesEvent /\ Seals(Head(toHost).event))
      BY <1>4, Ends DEF TakesEvent, Late, Takes, TakesResult, vars, sealVars
    <3> QED
      BY <2>4, <2>5, <3>1
<1>5. ASSUME NEW s \in Sessions, callAudited(s) \/ callGivenUp(s)
      PROVE  UNCHANGED <<ledger, toHost>>
  BY <1>5, Begins, GivenUp, Ends
<1> QED
  BY <1>2, <1>3, <1>4, <1>5, RestKind DEF Quiet

\* A lost outcome never comes.
LEMMA LostForGoodStep ==
    ASSUME AlwaysKnown, FlagInv, LostForGood, [CallNext]_allVars
    PROVE  LostForGood'
<1> SUFFICES ASSUME NEW e \in lost', ~IsAttempt(e)
             PROVE  /\ Told(e, phase', performed')
                    /\ \A n \in DOMAIN toHost' :
                          toHost'[n].method = "audit/outcome" => toHost'[n].event.id # e.id
                    /\ \A k \in TerminalRecords' : ledger'[k].event.id # e.id
  BY DEF LostForGood, EndTold, Told, IsAttempt
<1>1. CASE e \notin lost
  <2>1. toolSteps
    BY <1>1, RestKind
  <2>2. PICK i \in Ids : \E m : Stamps(i, m) \/ Repeats(i, m)
    BY <1>1, <2>1, ToolKind DEF Performs, respond
  <2> PICK m : Stamps(i, m) \/ Repeats(i, m)
    BY <2>2
  <2>3. /\ m \in Messages /\ IsEvent(m) /\ Sends(m) /\ m.event.id = i /\ phase[i] # "concluded"
    BY SentEvent DEF FlagInv
  <2>4. e = m.event /\ toHost' = toHost /\ ledger' = ledger
    BY <1>1, <2>1, <2>3, ToolKind DEF Sends
  <2>5. Told(e, phase', performed')
    <3>1. CASE Stamps(i, m)
      BY <2>4, <3>1 DEF Stamps
    <3>2. CASE Repeats(i, m)
      BY <2>4, <3>2 DEF Repeats, AlwaysKnown, TruthInv, PhasesFit
    <3> QED
      BY <3>1, <3>2
  <2>6. \A n \in DOMAIN toHost : toHost[n].method = "audit/outcome" => toHost[n].event.id # e.id
    BY <2>3, <2>4 DEF AlwaysKnown, TruthInv, OutcomesTold, EndTold, Told
  <2>7. \A k \in TerminalRecords : ledger[k].event.id # e.id
    BY <2>3, <2>4 DEF TerminalRecords, AlwaysKnown, TruthInv, RecordTellsTruth
  <2> QED
    BY <2>4, <2>5, <2>6, <2>7, SameLedger
<1>2. CASE e \in lost
  <2>1. /\ EndTold(e)
        /\ \A n \in DOMAIN toHost : toHost[n].method = "audit/outcome" => toHost[n].event.id # e.id
        /\ \A k \in TerminalRecords : ledger[k].event.id # e.id
        /\ e.id \in Ids
    BY <1>2, ToolEventFields DEF LostForGood, AlwaysKnown, ToolInv, ToolTypeOK
  <2>2. Told(e, phase', performed')
    BY <2>1, EndStays DEF AlwaysKnown
  <2>3. ASSUME NEW n \in DOMAIN toHost', toHost'[n].method = "audit/outcome"
        PROVE  toHost'[n].event.id # e.id
    <3>1. ASSUME NEW k \in DOMAIN toHost, toHost'[n] = toHost[k]
          PROVE  toHost'[n].event.id # e.id
      BY <2>1, <2>3, <3>1
    <3>2. ASSUME NEW i \in Ids, NEW m, Stamps(i, m) \/ Repeats(i, m)
          PROVE  toHost'[n].event.id # e.id
      <4>1. m \in Messages /\ Sends(m) /\ m.event.id = i /\ phase[i] # "concluded"
        BY <3>2, SentEvent DEF FlagInv
      <4>2. i # e.id
        BY <2>1, <4>1 DEF EndTold, Told
      <4> QED
        BY <3>1, <4>1, <4>2, SendsBehind
    <3>3. ASSUME NEW s \in Sessions, respond(s)
          PROVE  toHost'[n].event.id # e.id
      <4> DEFINE m == ResultMessage(s)
      <4>1. toHost' = Append(toHost, m) /\ toHost \in Seq(Messages) /\ m.method = "result"
        BY <3>3 DEF respond, ResultMessage, AlwaysKnown, ToolInv, ToolTypeOK
      <4> HIDE DEF m
      <4>2. toHost'[n] = m \/ \E k \in DOMAIN toHost : toHost'[n] = toHost[k]
        BY <4>1
      <4> QED
        BY <2>3, <3>1, <4>1, <4>2
    <3>4. CASE toHost' = toHost
      BY <2>3, <3>1, <3>4
    <3>5. CASE toHost # << >> /\ toHost' = Tail(toHost)
      BY <3>1, <3>5, TakenOff
    <3>6. ASSUME NEW s \in Sessions, callAudited(s) \/ callGivenUp(s)
          PROVE  toHost' = toHost
      BY <3>6, Begins, GivenUp
    <3> QED
      BY <3>2, <3>3, <3>4, <3>5, <3>6, ToolKind, RestKind
         DEF Performs, TakesEvent, TakesResult, Quiet
  <2>4. ASSUME NEW k \in TerminalRecords'
        PROVE  ledger'[k].event.id # e.id
    <3>1. CASE UNCHANGED ledger
      <4>1. TerminalRecords' = TerminalRecords
        BY <3>1, SameLedger
      <4> QED
        BY <2>1, <2>4, <3>1, <4>1
    <3>2. CASE TakesEvent /\ Seals(Head(toHost).event)
      <4> DEFINE f == Head(toHost).event
      <4>1. /\ f \in Events /\ 1 \in DOMAIN toHost /\ f = toHost[1].event
            /\ ~IsAttempt(f) => toHost[1].method = "audit/outcome"
        BY <3>2, HeadEvent, HeadOf DEF TakesEvent, FlagInv, AlwaysKnown
      <4> HIDE DEF f
      <4>2. \/ k \in TerminalRecords /\ ledger'[k] = ledger[k]
            \/ ~IsAttempt(f) /\ ledger'[k].event = f
        BY <2>4, <3>2, <4>1, SealsAppends DEF AlwaysKnown, TerminalRecords, f
      <4> QED
        BY <2>1, <4>1, <4>2
    <3>3. UNCHANGED ledger \/ (TakesEvent /\ Seals(Head(toHost).event))
      <4>1. ASSUME NEW s \in Sessions, callAudited(s) \/ callGivenUp(s)
            PROVE  UNCHANGED ledger
        BY <4>1, Begins, GivenUp, Ends
      <4>2. CASE TakesResult
        BY <4>2, Ends DEF TakesResult, vars, sealVars
      <4>3. CASE TakesEvent
        BY <4>3 DEF TakesEvent, Late, Takes
      <4> QED
        BY <4>1, <4>2, <4>3, ToolKind, RestKind DEF Quiet
    <3> QED
      BY <3>1, <3>2, <3>3
  <2> QED
    BY <2>2, <2>3, <2>4
<1> QED
  BY <1>1, <1>2

-----------------------------------------------------------------------------
\* What is known of every call of the example tool.
LEMMA AnalystInvariant ==
    ASSUME MaxMisdelivered = 0 \/ Signs \/ RequireCountersign
    PROVE  AnalystSpec => [](/\ AlwaysKnown /\ FlagInv /\ OneAttemptPerId
                             /\ StepsInOrder /\ ProgramOrder /\ LostForGood)
<1>1. CallInit => StepsInOrder /\ ProgramOrder /\ LostForGood
  <2> SUFFICES ASSUME CallInit PROVE StepsInOrder /\ ProgramOrder /\ LostForGood
    OBVIOUS
  <2>1. /\ phase = [i \in Ids |-> "idle"] /\ toHost = << >> /\ ledger = << >> /\ lost = {}
    BY DEF CallInit, InitWith, ToolInit
  <2>2. DOMAIN toHost = {} /\ DOMAIN ledger = {} /\ \A i \in Ids : phase[i] = "idle"
    BY <2>1
  <2> QED
    BY <2>1, <2>2, StepFields DEF StepsInOrder, ProgramOrder, LostForGood
<1>2. AlwaysKnown /\ StepsInOrder /\ [AnalystNext]_allVars => StepsInOrder'
  BY StepsInOrderStep DEF AlwaysKnown
<1>3. /\ AlwaysKnown /\ FlagInv /\ StepsInOrder /\ StepsInOrder' /\ ProgramOrder /\ LostForGood
      /\ [AnalystNext]_allVars
      => ProgramOrder' /\ LostForGood'
  BY AnalystStep, ProgramOrderStep, LostForGoodStep
<1>4. AnalystSpec => [](AlwaysKnown /\ FlagInv)
  BY AnalystIsCall, FlagInvariant, PTL
<1>5. AnalystSpec => []OneAttemptPerId
  BY AnalystIsCall, CallImplementsHost, PairingTheorem, PTL
<1> QED
  BY <1>1, <1>2, <1>3, <1>4, <1>5, PTL DEF AnalystSpec

\* The ledger shows the program of the example tool, in its order, whatever was
\* repeated, late or lost: each attempt before its outcome and behind what came
\* before it, nothing behind a refusal, and nothing performed unless what the
\* program does before it is on record.
THEOREM ProgramTheorem ==
    ASSUME MaxMisdelivered = 0 \/ Signs \/ RequireCountersign
    PROVE  AnalystSpec => []RecordsFollowProgram
<1>1. AlwaysKnown /\ OneAttemptPerId /\ StepsInOrder /\ ProgramOrder => RecordsFollowProgram
  <2> SUFFICES ASSUME AlwaysKnown, OneAttemptPerId, StepsInOrder, ProgramOrder
               PROVE  RecordsFollowProgram
    OBVIOUS
  <2>1. ASSUME NEW m \in DOMAIN ledger, NEW n \in DOMAIN ledger, m < n,
               ledger[m].event.session_id = ledger[n].event.session_id
        PROVE  LET e == ledger[m].event
                   f == ledger[n].event
               IN /\ e.outcome # "aborted"
                  /\ \/ StepOf(e) < StepOf(f)
                     \/ StepOf(e) = StepOf(f) /\ IsAttempt(e) /\ ~IsAttempt(f)
    <3> DEFINE e == ledger[m].event
               f == ledger[n].event
    <3>1. Follows(f, e)
      BY <2>1 DEF ProgramOrder
    <3>2. e \in ToolEvents /\ f \in ToolEvents /\ e.session_id = f.session_id
      BY <2>1, SealedEvent DEF OfTool
    <3>3. ASSUME IsAttempt(e), IsAttempt(f)
          PROVE  e.id # f.id
      <4>1. m \in AttemptRecords /\ n \in AttemptRecords /\ m # n
        <5>1. m \in Nat /\ n \in Nat
          BY DEF AlwaysKnown, TypeOK, SealedOK
        <5> QED
          BY <2>1, <3>3, <5>1 DEF AttemptRecords
      <4> QED
        BY <4>1 DEF OneAttemptPerId
    <3> HIDE DEF e, f
    <3>4. StepOf(e) = StepOf(f) => e.id = f.id
      BY <3>2, StepOfIs
    <3> QED
      BY <3>1, <3>2, <3>3, <3>4 DEF Follows, e, f
  <2>2. ASSUME NEW s \in Sessions, NEW n \in DOMAIN ActionTypes, performed[StepsOf[s][n]] > 0,
               NEW m \in 1..(n - 1)
        PROVE  \E k \in DOMAIN ledger : ledger[k].event = sent[StepsOf[s][m]]
    <3>1. StepsOf[s][n] \in Ids /\ m \in DOMAIN ActionTypes
      BY StepFields
    <3>2. StepsOf[s][m] \in Ids
      BY <3>1, StepFields
    <3>3. phase[StepsOf[s][n]] # "idle"
      BY <2>2, <3>1 DEF AlwaysKnown, TruthInv, PhasesFit
    <3>4. performed[StepsOf[s][m]] = 1
      BY <3>3 DEF StepsInOrder, resolved
    <3> QED
      BY <3>2, <3>4 DEF AlwaysKnown, PerformedIsSealed
  <2> QED
    BY <2>1, <2>2 DEF RecordsFollowProgram
<1> QED
  BY <1>1, AnalystInvariant, PTL

\* What the result of a call says of its operations.
LEMMA ResultIs ==
    ASSUME NEW s \in Sessions
    PROVE  /\ resultOf(s) = "content" => \A n \in DOMAIN ActionTypes : resolved(StepsOf[s][n])
           /\ resultOf(s) = "audit_aborted" =>
                \E n \in DOMAIN ActionTypes :
                   rejectedOp(StepsOf[s][n]) /\ ~abortMasked(StepsOf[s][n])
           /\ resultOf(s) = "error" =>
                \E n \in DOMAIN ActionTypes :
                   rejectedOp(StepsOf[s][n]) /\ abortMasked(StepsOf[s][n])
<1> DEFINE steps == {StepsOf[s][n] : n \in DOMAIN ActionTypes}
<1>1. \A i : abortMasked(i) => rejectedOp(i)
  BY DEF abortMasked
<1>2. /\ resultOf(s) = "content" => \A i \in steps : resolved(i)
      /\ resultOf(s) = "audit_aborted" => \E i \in steps : rejectedOp(i) /\ ~abortMasked(i)
      /\ resultOf(s) = "error" => \E i \in steps : abortMasked(i)
  BY DEF resultOf
<1> QED
  BY <1>1, <1>2

\* Behind a refused operation nothing is begun.
LEMMA NothingAfter ==
    ASSUME StepsInOrder, NEW s \in Sessions, NEW n \in DOMAIN ActionTypes,
           rejectedOp(StepsOf[s][n])
    PROVE  /\ performed[StepsOf[s][n]] = 0
           /\ \A m \in (n + 1)..Len(ActionTypes) : phase[StepsOf[s][m]] = "idle"
<1>1. DOMAIN ActionTypes = 1..3 /\ Len(ActionTypes) = 3
  BY DEF ActionTypes
<1>2. ASSUME NEW m \in (n + 1)..Len(ActionTypes), phase[StepsOf[s][m]] # "idle"
      PROVE  FALSE
  <2>1. m \in DOMAIN ActionTypes /\ n \in 1..(m - 1)
    BY <1>1, <1>2
  <2>2. resolved(StepsOf[s][n])
    BY <1>2, <2>1 DEF StepsInOrder
  <2> QED
    BY <2>2 DEF resolved, rejectedOp
<1> QED
  BY <1>2 DEF rejectedOp

\* What is known of a refusal: it is on record, or on its way there, unless it was
\* lost - and then it is neither.
LEMMA RefusalKnown ==
    ASSUME AlwaysKnown, FlagInv, LostForGood, NEW i \in Ids, rejectedOp(i)
    PROVE  LET recorded ==
                 \/ \E n \in DOMAIN ledger :
                       ledger[n].event.id = i /\ ledger[n].event.outcome = "aborted"
                 \/ UnderWay(i, "aborted")
           IN  /\ ~abortMasked(i) => recorded \/ SessionOf[i] \in outage \cup givenUp
               /\ abortMasked(i) => ~recorded
<1>1. phase[i] = "concluded" /\ performed[i] = 0
  BY DEF rejectedOp
<1>2. ASSUME NEW e, EndTold(e) \/ RecordTold(e, sent, phase, performed), e.id = i, ~IsAttempt(e),
             e \in ToolEvents
      PROVE  e.outcome = "aborted"
  BY <1>1, <1>2 DEF EndTold, RecordTold, Told, ToolEvents, Outcomes, IsAttempt
<1>3. \A n \in DOMAIN toHost :
         toHost[n].method = "audit/outcome" =>
           toHost[n].event \in ToolEvents /\ EndTold(toHost[n].event) /\ ~IsAttempt(toHost[n].event)
  BY PostedEvent DEF IsEvent, OfTool, AlwaysKnown, TruthInv, OutcomesTold, EndTold, Told
<1>4. \A k \in DOMAIN ledger : ledger[k].event \in ToolEvents
                               /\ RecordTold(ledger[k].event, sent, phase, performed)
  BY SealedEvent DEF OfTool
<1>5. \A e \in lost : e \in ToolEvents
  BY DEF AlwaysKnown, ToolInv, ToolTypeOK
<1>6. ASSUME ~abortMasked(i)
      PROVE  \/ \E n \in DOMAIN ledger :
                   ledger[n].event.id = i /\ ledger[n].event.outcome = "aborted"
             \/ UnderWay(i, "aborted")
             \/ SessionOf[i] \in outage \cup givenUp
  <2>1. \A e \in lost : e.id = i => IsAttempt(e)
    BY <1>2, <1>5, <1>6 DEF abortMasked, LostForGood
  <2>2. CASE \E n \in DOMAIN toHost : toHost[n].method = "audit/outcome" /\ toHost[n].event.id = i
    BY <1>2, <1>3, <2>2 DEF UnderWay
  <2>3. CASE \E k \in TerminalRecords : ledger[k].event.id = i
    BY <1>2, <1>4, <2>3 DEF TerminalRecords
  <2> QED
    BY <1>1, <2>1, <2>2, <2>3 DEF FlagInv, EndReported
<1>7. ASSUME abortMasked(i)
      PROVE  /\ ~\E n \in DOMAIN ledger :
                    ledger[n].event.id = i /\ ledger[n].event.outcome = "aborted"
             /\ ~UnderWay(i, "aborted")
  <2>1. PICK e \in lost : e.id = i /\ ~IsAttempt(e)
    BY <1>7 DEF abortMasked, IsAttempt
  <2> QED
    BY <2>1 DEF LostForGood, UnderWay, TerminalRecords, IsAttempt
<1> QED
  BY <1>6, <1>7

\* What the caller of the example tool gets tells what is on record.  Content: all
\* was performed, and is sealed.  A reported abort: nothing of it or behind it was
\* performed, and its refusal is sealed or on its way, unless the host itself had
\* trouble or gave the call up.  A protocol error: that refusal will never be on
\* record.
THEOREM ResultTheorem ==
    ASSUME MaxMisdelivered = 0 \/ Signs \/ RequireCountersign
    PROVE  AnalystSpec => []ResultTellsRecord
<1>1. AlwaysKnown /\ FlagInv /\ StepsInOrder /\ LostForGood => ResultTellsRecord
  <2> SUFFICES ASSUME AlwaysKnown, FlagInv, StepsInOrder, LostForGood
               PROVE  ResultTellsRecord
    OBVIOUS
  <2>1. ASSUME NEW s \in Sessions, resultOf(s) = "content", NEW n \in DOMAIN ActionTypes
        PROVE  performed[StepsOf[s][n]] = 1 /\ Sealed(sent[StepsOf[s][n]])
    <3>1. performed[StepsOf[s][n]] = 1 /\ StepsOf[s][n] \in Ids
      BY <2>1, ResultIs, StepFields DEF resolved
    <3> QED
      BY <3>1 DEF AlwaysKnown, PerformedIsSealed, Sealed
  <2>2. ASSUME NEW s \in Sessions, NEW n \in DOMAIN ActionTypes, rejectedOp(StepsOf[s][n])
        PROVE  LET i == StepsOf[s][n]
                   recorded ==
                      \/ \E k \in DOMAIN ledger :
                            ledger[k].event.id = i /\ ledger[k].event.outcome = "aborted"
                      \/ UnderWay(i, "aborted")
               IN  /\ performed[i] = 0
                   /\ \A m \in (n + 1)..Len(ActionTypes) : phase[StepsOf[s][m]] = "idle"
                   /\ ~abortMasked(i) => recorded \/ s \in outage \cup givenUp
                   /\ abortMasked(i) => ~recorded
    <3>1. StepsOf[s][n] \in Ids /\ SessionOf[StepsOf[s][n]] = s
      BY StepFields
    <3> QED
      BY <2>2, <3>1, NothingAfter, RefusalKnown
  <2> QED
    BY <2>1, <2>2, ResultIs DEF ResultTellsRecord
<1> QED
  BY <1>1, AnalystInvariant, PTL

-----------------------------------------------------------------------------
(***************************************************************************)
(* Reconciliation accuses no tool of what it audited, and misses nothing   *)
(* it left out.                                                            *)
(***************************************************************************)

\* A step of a boundary, or of a tool behind the host's back, is none of a call's.
LEMMA CallsGoOn == ReconciliationSpec => CallSpec
<1>1. ReconciliationInit => CallInit
  BY DEF ReconciliationInit
<1>2. [ReconciliationNext]_<<allVars, reconciliationVars>> => [CallNext]_allVars
  BY DEF ReconciliationNext, observeEgress, covertEgress
<1> QED
  BY <1>1, <1>2, PTL DEF ReconciliationSpec, CallSpec

\* What holds of calls at every moment.
CallsInv == TypeOK /\ ToolInv /\ CallVarsOK /\ TruthInv

\* What is known of calls holds beside the reconciliation.
LEMMA CallsInvariant == ReconciliationSpec => []CallsInv
BY CallsGoOn, TruthInvariant, PTL DEF CallsInv

\* What was reported stays reported.
LEMMA ReportedStays ==
    ASSUME CallsInv, [CallNext]_allVars, NEW s, NEW d \in reported(s)
    PROVE  d \in reported(s)'
<1>1. PICK n \in DOMAIN ledger : /\ ledger[n].event.session_id = s /\ ledger[n].event.body.egress
                                 /\ d = ledger[n].event.body.target
  BY DEF reported
<1>2. n \in DOMAIN ledger' /\ ledger'[n] = ledger[n]
  BY HostStep, RecordsStay DEF CallsInv
<1> QED
  BY <1>1, <1>2 DEF reported

-----------------------------------------------------------------------------
(***************************************************************************)
(* No false alarm.                                                         *)
(***************************************************************************)

\* What the boundary saw was reported before, or was covert.
ObservedIsReported ==
    /\ covert \subseteq observations
    /\ observations \subseteq EgressObservation
    /\ \A o \in observations : o \in covert \/ o.destination \in reported(o.session_id)

\* What the boundary sees of an audited operation is reported by its attempt.
LEMMA PerformedIsReported ==
    ASSUME CallsInv, PerformedIsSealed, NEW i \in Ids, performed[i] > 0, sent[i].body.egress
    PROVE  /\ sent[i].body.target \in Destinations
           /\ sent[i].body.target \in reported(SessionOf[i])
<1>1. phase[i] # "idle"
  BY DEF CallsInv, TruthInv, PhasesFit
<1>2. sent[i] \in ToolEvents /\ sent[i].id = i
  BY <1>1 DEF CallsInv, ToolInv, ToolTypeOK
<1>3. sent[i].session_id = SessionOf[i] /\ sent[i].body \in Bodies
  BY <1>2, ToolEventFields
<1>4. PICK n \in DOMAIN ledger : ledger[n].event = sent[i]
  BY DEF PerformedIsSealed
<1> QED
  BY <1>3, <1>4, BodiesAssumption DEF reported

\* What was observed of an honest tool stays reported.
LEMMA ObservedStays ==
    ASSUME CallsInv, PerformedIsSealed, ObservedIsReported,
           [ReconciliationNext]_<<allVars, reconciliationVars>>
    PROVE  ObservedIsReported'
<1>1. ASSUME NEW o \in observations, o \notin covert
      PROVE  o.destination \in reported(o.session_id)'
  <2>1. [CallNext]_allVars
    BY DEF ReconciliationNext, observeEgress, covertEgress
  <2> QED
    BY <1>1, <2>1, ReportedStays DEF ObservedIsReported
<1>2. CASE UNCHANGED reconciliationVars
  BY <1>1, <1>2 DEF ObservedIsReported, reconciliationVars
<1>3. ASSUME NEW i \in Ids, observeEgress(i)
      PROVE  ObservedIsReported'
  <2>0. PICK o : o = [session_id |-> SessionOf[i], destination |-> sent[i].body.target]
    OBVIOUS
  <2>1. /\ performed[i] > 0 /\ sent[i].body.egress
        /\ observations' = observations \cup {o} /\ covert' = covert /\ ledger' = ledger
    BY <1>3, <2>0 DEF observeEgress, allVars, vars
  <2>2. o \in EgressObservation /\ o.destination \in reported(o.session_id)
    BY <2>0, <2>1, PerformedIsReported, ToolAssumption DEF EgressObservation
  <2>3. o.destination \in reported(o.session_id)'
    BY <2>1, <2>2 DEF reported
  <2> QED
    BY <1>1, <2>1, <2>2, <2>3 DEF ObservedIsReported
<1>4. ASSUME NEW s \in Sessions, NEW d \in Destinations, covertEgress(s, d)
      PROVE  ObservedIsReported'
  <2> DEFINE o == [session_id |-> s, destination |-> d]
  <2>1. covert' = covert \cup {o} /\ observations' = observations \cup {o}
    BY <1>4 DEF covertEgress
  <2>2. o \in EgressObservation
    BY DEF EgressObservation
  <2> HIDE DEF o
  <2> QED
    BY <1>1, <2>1, <2>2 DEF ObservedIsReported
<1> QED
  BY <1>2, <1>3, <1>4 DEF ReconciliationNext

\* It is so at all times.
LEMMA ObservedInvariant ==
    ASSUME MaxMisdelivered = 0 \/ Signs \/ RequireCountersign
    PROVE  ReconciliationSpec => []ObservedIsReported
<1>1. ReconciliationInit => ObservedIsReported
  BY DEF ReconciliationInit, ObservedIsReported
<1>2. ReconciliationSpec => []PerformedIsSealed
  BY CallsGoOn, PerformedTheorem, PTL
<1> QED
  BY <1>1, <1>2, CallsInvariant, ObservedStays, PTL DEF ReconciliationSpec

\* Reconciling at any moment of a call accuses a tool of nothing it audited,
\* whatever is lost, late or given up: the attempt was sealed before the boundary
\* could see anything.
THEOREM AlarmsTheorem ==
    ASSUME MaxMisdelivered = 0 \/ Signs \/ RequireCountersign
    PROVE  ReconciliationSpec => []AlarmsAreCovert
<1>1. ObservedIsReported => AlarmsAreCovert
  <2> SUFFICES ASSUME ObservedIsReported, NEW s \in Sessions, NEW d \in reconcile(s)
               PROVE  [session_id |-> s, destination |-> d] \in covert
    BY DEF AlarmsAreCovert
  <2>1. PICK o \in observations : o.session_id = s /\ o.destination = d
    BY DEF reconcile
  <2>2. o = [session_id |-> s, destination |-> d] /\ d \notin reported(s)
    BY <2>1 DEF ObservedIsReported, EgressObservation, reconcile
  <2> QED
    BY <2>1, <2>2 DEF ObservedIsReported
<1> QED
  BY <1>1, ObservedInvariant, PTL

-----------------------------------------------------------------------------
(***************************************************************************)
(* No suppressed egress that stays unseen.                                 *)
(***************************************************************************)

\* What is on the connection, and what is sealed, is of the body its operation
\* was started with.
BodiesFit ==
    /\ \A n \in DOMAIN toHost : toHost[n].method # "result" => BodyFits(toHost[n].event, phase, sent)
    /\ \A n \in DOMAIN ledger : BodyFits(ledger[n].event, phase, sent)

\* An event that fits its operation goes on fitting it.
LEMMA BodyStays ==
    ASSUME ToolInv, [CallNext]_allVars, NEW e, e.id \in Ids, BodyFits(e, phase, sent)
    PROVE  BodyFits(e, phase', sent')
BY AttemptStays DEF BodyFits

\* So do all events that are on the connection or sealed.
LEMMA BodiesStay ==
    ASSUME CallsInv, CallsInv', BodiesFit, [CallNext]_allVars
    PROVE  BodiesFit'
<1>1. ASSUME NEW n \in DOMAIN toHost', toHost'[n].method # "result"
      PROVE  BodyFits(toHost'[n].event, phase', sent')
  <2>1. /\ toHost'[n].method \in {"audit/attempt", "audit/outcome"}
        /\ toHost'[n].event \in ToolEvents
    BY <1>1 DEF CallsInv, ToolInv, ToolTypeOK, Messages
  <2>2. toHost'[n].event.id \in Ids
    BY <2>1, ToolEventFields
  <2>3. CASE toHost'[n].method = "audit/attempt"
    <3>1. toHost'[n].event = sent'[toHost'[n].event.id]
      BY <2>3 DEF CallsInv, ToolInv, MessagesOK
    <3>2. toHost'[n].event # Nothing
      BY <2>1, ToolEventFields, NothingAssumption
    <3>3. phase'[toHost'[n].event.id] # "idle"
      BY <2>2, <3>1, <3>2 DEF CallsInv, ToolInv
    <3> QED
      BY <3>1, <3>3 DEF BodyFits
  <2>4. CASE toHost'[n].method = "audit/outcome"
    <3>1. BodyFits(toHost'[n].event, phase, sent)
      BY <1>1, <2>4, OutcomeSource DEF CallsInv, TruthInv, BodiesFit
    <3> QED
      BY <2>2, <3>1, BodyStays DEF CallsInv, BodyFits
  <2> QED
    BY <2>1, <2>3, <2>4
<1>2. ASSUME NEW n \in DOMAIN ledger'
      PROVE  BodyFits(ledger'[n].event, phase', sent')
  <2>1. ledger'[n].event.id \in Ids
    BY ToolEventFields DEF CallsInv, TruthInv, RecordsAreTools
  <2>2. BodyFits(ledger'[n].event, phase, sent)
    <3>1. CASE UNCHANGED ledger
      BY <3>1 DEF BodiesFit
    <3>2. CASE ~UNCHANGED ledger
      <4> DEFINE e == Head(toHost).event
      <4>1. /\ toHost # << >> /\ Head(toHost).method \in {"audit/attempt", "audit/outcome"}
            /\ e \in Events /\ Seals(e)
        BY <3>2, LedgerStep DEF CallsInv
      <4>2. BodyFits(e, phase, sent)
        <5>1. 1 \in DOMAIN toHost /\ Head(toHost) = toHost[1]
          BY <4>1 DEF CallsInv, ToolInv, ToolTypeOK
        <5> QED
          BY <4>1, <5>1 DEF BodiesFit
      <4> HIDE DEF e
      <4>3. (n \in DOMAIN ledger /\ ledger'[n] = ledger[n]) \/ ledger'[n].event = e
        BY <4>1, SealsAppends DEF CallsInv
      <4> QED
        BY <4>2, <4>3 DEF BodiesFit
    <3> QED
      BY <3>1, <3>2
  <2> QED
    BY <2>1, <2>2, BodyStays DEF CallsInv, BodyFits
<1> QED
  BY <1>1, <1>2 DEF BodiesFit, BodyFits

\* Everything covert is seen.
CovertIsSeen == covert \subseteq observations

\* A suppressed egress is found, whatever the other calls reported, unless an
\* operation of that very session named the destination as an egress of its own.
THEOREM CovertTheorem == ReconciliationSpec => []CovertIsFound
<1>1. ReconciliationInit => BodiesFit /\ CovertIsSeen
  BY DEF ReconciliationInit, CallInit, InitWith, ToolInit, BodiesFit, CovertIsSeen
<1>2. CallsInv /\ CallsInv' /\ BodiesFit /\ [CallNext]_allVars => BodiesFit'
  BY BodiesStay
<1>3. CovertIsSeen /\ [ReconciliationNext]_<<allVars, reconciliationVars>> => CovertIsSeen'
  BY DEF CovertIsSeen, ReconciliationNext, observeEgress, covertEgress, reconciliationVars
<1>4. CallsInv /\ BodiesFit /\ CovertIsSeen => CovertIsFound
  <2> SUFFICES ASSUME CallsInv, BodiesFit, CovertIsSeen, NEW o \in covert,
                      o.destination \notin reconcile(o.session_id)
               PROVE  \E i \in OpsOf(o.session_id) :
                         /\ phase[i] # "idle"
                         /\ sent[i].body = [egress |-> TRUE, target |-> o.destination]
    BY DEF CovertIsFound
  <2>1. o.destination \in reported(o.session_id)
    BY DEF reconcile, CovertIsSeen
  <2>2. PICK n \in DOMAIN ledger : /\ ledger[n].event.session_id = o.session_id
                                   /\ ledger[n].event.body.egress
                                   /\ ledger[n].event.body.target = o.destination
    BY <2>1 DEF reported
  <2> DEFINE e == ledger[n].event
  <2>3. e \in ToolEvents /\ BodyFits(e, phase, sent)
    BY DEF CallsInv, TruthInv, RecordsAreTools, BodiesFit
  <2>4. /\ e.id \in OpsOf(o.session_id) /\ e.body \in Bodies
        /\ phase[e.id] # "idle" /\ sent[e.id].body = e.body
    BY <2>2, <2>3, ToolEventFields DEF OpsOf, BodyFits
  <2>5. e.body = [egress |-> TRUE, target |-> o.destination]
    BY <2>2, <2>4, BodiesAssumption
  <2> QED
    BY <2>4, <2>5
<1>5. [ReconciliationNext]_<<allVars, reconciliationVars>> => [CallNext]_allVars
  BY DEF ReconciliationNext, observeEgress, covertEgress
<1> QED
  BY <1>1, <1>2, <1>3, <1>4, <1>5, CallsInvariant, PTL DEF ReconciliationSpec
=============================================================================
