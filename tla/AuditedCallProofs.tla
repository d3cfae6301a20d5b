-------------------------- MODULE AuditedCallProofs -------------------------
(***************************************************************************)
(* Theorems about AuditedCall, for every assignment of operations to calls *)
(* and every bound: calls only ever take the host's steps, so every        *)
(* theorem about AuditHost is one about calls; nothing is performed that   *)
(* is not sealed; the record tells the truth; and the host flags an honest *)
(* tool with a cause only.                                                 *)
(***************************************************************************)
EXTENDS AuditedCall, AuditHostProofs

\* The messages on the connection are ones the tool sends: of a session the host
\* issued, and an attempt as it was stamped, however often it is sent.
MessagesOK ==
    \A n \in DOMAIN toHost :
       LET m == toHost[n] IN
       /\ m \in Messages
       /\ m.method # "result" => m.event.session_id \in issued
       /\ m.method = "audit/attempt" => m.event = sent[m.event.id]

\* The tool and the connection.
ToolInv ==
    /\ ToolTypeOK
    /\ calls \subseteq issued
    /\ \A i \in Ids : phase[i] = "idle" => sent[i] = Nothing
    /\ \A i \in Ids : phase[i] # "idle" => SessionOf[i] \in issued
    /\ MessagesOK

-----------------------------------------------------------------------------
(***************************************************************************)
(* The tool's steps.                                                       *)
(***************************************************************************)

\* An event that is stamped and numbered is one the tool may build.
LEMMA StampedEvent ==
    ASSUME ToolTypeOK, NEW i \in Ids, NEW outcome \in Outcomes,
           NEW reason \in AbortReasons \cup {NoReason}, NEW body \in Bodies,
           outcome = "aborted" => reason # NoReason, numbers(SessionOf[i])
    PROVE  /\ stamped(i, outcome, reason, body) \in ToolEvents
           /\ stamped(i, outcome, reason, body) \in Events
           /\ stamped(i, outcome, reason, body).id = i
           /\ stamped(i, outcome, reason, body).session_id = SessionOf[i]
           /\ stamped(i, outcome, reason, body).body = body
           /\ stamped(i, outcome, reason, body) # Nothing
           /\ nextSeq' \in [Sessions -> 0..(MaxSignerSeq + 1)]
<1>1. /\ SessionOf[i] \in Sessions /\ ToolKeyId \in KeyIds /\ ToolKey \in PublicKeys
      /\ MaxSignerSeq \in Nat /\ Signs \in BOOLEAN /\ ToolEvents \subseteq Events
      /\ Nothing \notin Events
  BY ToolAssumption, NothingAssumption
<1>2. /\ nextSeq[SessionOf[i]] \in 0..(MaxSignerSeq + 1)
      /\ Signs => nextSeq[SessionOf[i]] \in 0..MaxSignerSeq
  BY <1>1 DEF ToolTypeOK, numbers
<1>3. stamped(i, outcome, reason, body) \in ToolEvents
  BY <1>1, <1>2 DEF stamped, ToolEvents, WellFormed
<1>4. nextSeq' \in [Sessions -> 0..(MaxSignerSeq + 1)]
  BY <1>1, <1>2 DEF numbers, ToolTypeOK
<1> QED
  BY <1>1, <1>3, <1>4 DEF stamped

\* The tool's events name an operation and its session.
LEMMA ToolEventFields ==
    ASSUME NEW e \in ToolEvents
    PROVE  /\ e \in Events /\ e.id \in Ids /\ e.session_id = SessionOf[e.id]
           /\ e.session_id \in Sessions /\ e.body \in Bodies
BY ToolAssumption DEF ToolEvents

\* A message that is sent is on the connection, behind the others, or lost.
LEMMA Transmitted ==
    ASSUME ToolInv, NEW m \in Messages, m.method # "result", m.event \in ToolEvents, transmits(m),
           m.event.session_id \in issued', issued' = issued,
           m.method = "audit/attempt" => m.event = sent'[m.event.id],
           \A i \in Ids : phase[i] # "idle" => sent'[i] = sent[i],
           \A n \in DOMAIN toHost : toHost[n].method = "audit/attempt"
                                      => sent'[toHost[n].event.id] = sent[toHost[n].event.id]
    PROVE  /\ toHost' \in Seq(Messages) /\ lost' \subseteq ToolEvents
           /\ MessagesOK'
<1>1. toHost \in Seq(Messages) /\ lost \subseteq ToolEvents /\ MessagesOK
  BY DEF ToolInv, ToolTypeOK
<1>2. \A n \in DOMAIN toHost :
         /\ toHost[n] \in Messages
         /\ toHost[n].method # "result" => toHost[n].event.session_id \in issued'
         /\ toHost[n].method = "audit/attempt" => toHost[n].event = sent'[toHost[n].event.id]
  BY <1>1 DEF MessagesOK
<1>3. CASE toHost' = Append(toHost, m) /\ UNCHANGED lost
  <2>1. /\ toHost' \in Seq(Messages)
        /\ \A n \in DOMAIN toHost' :
              (n \in DOMAIN toHost /\ toHost'[n] = toHost[n]) \/ toHost'[n] = m
    BY <1>1, <1>3
  <2> QED
    BY <1>1, <1>2, <1>3, <2>1 DEF MessagesOK
<1>4. CASE toHost' = toHost /\ lost' = lost \cup {m.event}
  <2>1. MessagesOK'
    BY <1>2, <1>4 DEF MessagesOK
  <2> QED
    BY <1>1, <1>4, <2>1
<1> QED
  BY <1>3, <1>4 DEF transmits

\* An operation starts.
LEMMA AuditedKeeps ==
    ASSUME ToolInv, NEW i \in Ids, NEW body \in Bodies, audited(i, body), UNCHANGED issued
    PROVE  ToolInv'
<1> DEFINE attempt == stamped(i, "attempted", NoReason, body)
           m == AttemptMessage(i, attempt, 1)
<1>1. /\ numbers(SessionOf[i]) /\ transmits(m)
      /\ sent' = [sent EXCEPT ![i] = attempt]
      /\ phase' = [phase EXCEPT ![i] = "asking"]
      /\ asked' = [asked EXCEPT ![i] = 1]
      /\ UNCHANGED <<calls, performed, toTool>>
      /\ SessionOf[i] \in calls /\ phase[i] = "idle"
  BY DEF audited
<1>2. /\ ToolTypeOK /\ calls \subseteq issued /\ MessagesOK
      /\ \A j \in Ids : phase[j] = "idle" => sent[j] = Nothing
      /\ \A j \in Ids : phase[j] # "idle" => SessionOf[j] \in issued
  BY DEF ToolInv
<1>3. /\ attempt \in ToolEvents /\ attempt \in Events /\ attempt.id = i
      /\ attempt.session_id = SessionOf[i] /\ attempt # Nothing
      /\ nextSeq' \in [Sessions -> 0..(MaxSignerSeq + 1)]
  BY <1>1, <1>2, StampedEvent DEF Outcomes, AbortReasons, NoReason
<1> HIDE DEF attempt
<1>4. /\ m \in Messages /\ m.method = "audit/attempt" /\ m.event = attempt
  BY <1>3 DEF AttemptMessage, Messages
<1> HIDE DEF m
<1>5. /\ sent' \in [Ids -> ToolEvents \cup {Nothing}] /\ sent'[i] = attempt
      /\ \A j \in Ids : j # i => sent'[j] = sent[j]
  BY <1>1, <1>2, <1>3 DEF ToolTypeOK
<1>6. \A n \in DOMAIN toHost : toHost[n].method = "audit/attempt"
                                 => sent'[toHost[n].event.id] = sent[toHost[n].event.id]
  <2> SUFFICES ASSUME NEW n \in DOMAIN toHost, toHost[n].method = "audit/attempt"
               PROVE  sent'[toHost[n].event.id] = sent[toHost[n].event.id]
    OBVIOUS
  <2>1. toHost[n] \in Messages /\ toHost[n].event = sent[toHost[n].event.id]
    BY <1>2 DEF MessagesOK
  <2>2. toHost[n].event \in ToolEvents
    BY <2>1 DEF Messages
  <2>3. toHost[n].event.id \in Ids /\ toHost[n].event # Nothing
    BY <2>2, ToolEventFields, NothingAssumption
  <2>4. toHost[n].event.id # i
    BY <1>1, <1>2, <2>1, <2>3
  <2> QED
    BY <1>5, <2>3, <2>4
<1>7. toHost' \in Seq(Messages) /\ lost' \subseteq ToolEvents /\ MessagesOK'
  <2>1. m.event.session_id \in issued' /\ issued' = issued
    BY <1>1, <1>2, <1>3, <1>4
  <2>2. \A j \in Ids : phase[j] # "idle" => sent'[j] = sent[j]
    BY <1>1, <1>5
  <2> QED
    BY <1>1, <1>3, <1>4, <1>5, <1>6, <2>1, <2>2, Transmitted
<1>8. /\ phase' \in [Ids -> {"idle", "asking", "performing", "concluded"}]
      /\ asked' \in [Ids -> 0..(AttemptRetries + 1)]
      /\ \A j \in Ids : phase'[j] = IF j = i THEN "asking" ELSE phase[j]
  BY <1>1, <1>2, ToolAssumption DEF ToolTypeOK
<1>9. ToolTypeOK'
  BY <1>1, <1>2, <1>3, <1>5, <1>7, <1>8 DEF ToolTypeOK
<1> QED
  BY <1>1, <1>2, <1>5, <1>7, <1>8, <1>9 DEF ToolInv

\* The identical attempt is sent again.
LEMMA RetryKeeps ==
    ASSUME ToolInv, NEW i \in Ids, phase[i] = "asking", retry(i), UNCHANGED issued
    PROVE  ToolInv'
<1> DEFINE m == AttemptMessage(i, sent[i], asked[i] + 1)
<1>1. /\ asked[i] <= AttemptRetries /\ transmits(m)
      /\ asked' = [asked EXCEPT ![i] = @ + 1]
      /\ toTool' = [toTool EXCEPT ![i] = Nothing]
      /\ UNCHANGED <<calls, phase, sent, nextSeq, performed>>
  BY DEF retry, MayRetry
<1>2. /\ ToolTypeOK /\ calls \subseteq issued /\ MessagesOK
      /\ \A j \in Ids : phase[j] = "idle" => sent[j] = Nothing
      /\ \A j \in Ids : phase[j] # "idle" => SessionOf[j] \in issued
  BY DEF ToolInv
<1>3. /\ sent[i] \in ToolEvents /\ sent[i].id = i /\ sent[i].session_id = SessionOf[i]
      /\ asked[i] \in 0..(AttemptRetries + 1) /\ AttemptRetries \in Nat
  BY <1>2, ToolEventFields, ToolAssumption DEF ToolTypeOK
<1>4. /\ m \in Messages /\ m.method = "audit/attempt" /\ m.event = sent[i]
  BY <1>3 DEF AttemptMessage, Messages
<1> HIDE DEF m
<1>5. toHost' \in Seq(Messages) /\ lost' \subseteq ToolEvents /\ MessagesOK'
  <2>1. m.event.session_id \in issued' /\ issued' = issued
    BY <1>2, <1>3, <1>4
  <2> QED
    BY <1>1, <1>3, <1>4, <2>1, Transmitted
<1>6. /\ asked' \in [Ids -> 0..(AttemptRetries + 1)]
      /\ toTool' \in [Ids -> Responses \cup {Nothing}]
  BY <1>1, <1>2, <1>3 DEF ToolTypeOK
<1>7. ToolTypeOK'
  BY <1>1, <1>2, <1>5, <1>6 DEF ToolTypeOK
<1> QED
  BY <1>1, <1>2, <1>5, <1>7 DEF ToolInv

\* An operation ends with a terminal outcome.
LEMMA ConcludesKeeps ==
    ASSUME ToolInv, NEW i \in Ids, phase[i] # "idle", UNCHANGED <<issued, performed>>,
           NEW outcome \in {"success", "failed", "aborted"},
           NEW reason \in AbortReasons \cup {NoReason}, outcome = "aborted" => reason # NoReason,
           concludes(i, outcome, reason), toTool' \in [Ids -> Responses \cup {Nothing}]
    PROVE  ToolInv'
<1> DEFINE e == stamped(i, outcome, reason, sent[i].body)
           m == OutcomeMessage(e)
<1>1. /\ numbers(SessionOf[i]) /\ transmits(m)
      /\ phase' = [phase EXCEPT ![i] = "concluded"]
      /\ UNCHANGED <<calls, sent, asked>>
  BY DEF concludes
<1>2. /\ ToolTypeOK /\ calls \subseteq issued /\ MessagesOK
      /\ \A j \in Ids : phase[j] = "idle" => sent[j] = Nothing
      /\ \A j \in Ids : phase[j] # "idle" => SessionOf[j] \in issued
  BY DEF ToolInv
<1>3. sent[i] \in ToolEvents /\ sent[i].body \in Bodies
  BY <1>2, ToolEventFields DEF ToolTypeOK
<1>4. /\ e \in ToolEvents /\ e.session_id = SessionOf[i]
      /\ nextSeq' \in [Sessions -> 0..(MaxSignerSeq + 1)]
  BY <1>1, <1>2, <1>3, StampedEvent DEF Outcomes
<1> HIDE DEF e
<1>5. /\ m \in Messages /\ m.method = "audit/outcome" /\ m.event = e
  BY <1>4 DEF OutcomeMessage, Messages
<1> HIDE DEF m
<1>6. toHost' \in Seq(Messages) /\ lost' \subseteq ToolEvents /\ MessagesOK'
  <2>1. m.event.session_id \in issued' /\ issued' = issued
    BY <1>2, <1>4, <1>5
  <2> QED
    BY <1>1, <1>4, <1>5, <2>1, Transmitted
<1>7. /\ phase' \in [Ids -> {"idle", "asking", "performing", "concluded"}]
      /\ \A j \in Ids : phase'[j] = IF j = i THEN "concluded" ELSE phase[j]
  BY <1>1, <1>2 DEF ToolTypeOK
<1>8. ToolTypeOK'
  BY <1>1, <1>2, <1>4, <1>6, <1>7 DEF ToolTypeOK
<1> QED
  BY <1>1, <1>2, <1>6, <1>7, <1>8 DEF ToolInv

\* The answer the tool waits for stops the operation for one of the abort codes,
\* or is an accept that passed every check.
LEMMA StopsOrPasses ==
    ASSUME ToolInv, NEW i \in Ids, toTool[i] # Nothing
    PROVE  /\ AbortReason(i, toTool[i]) \in AbortReasons \cup {NoReason}
           /\ AbortReason(i, toTool[i]) = NoReason =>
                toTool[i].status = "accept" /\ ~Polluted(i, toTool[i])
<1>1. toTool[i] \in Responses
  BY DEF ToolInv, ToolTypeOK
<1>2. toTool[i].status \in {"accept", "reject", "unavailable"}
  BY <1>1 DEF Responses
<1> QED
  BY <1>2 DEF AbortReason, AbortReasons, NoReason

\* An operation is aborted.
LEMMA AbortKeeps ==
    ASSUME ToolInv, NEW i \in Ids, phase[i] = "asking", UNCHANGED issued,
           NEW reason \in AbortReasons, abort(i, reason)
    PROVE  ToolInv'
<1>1. toTool' \in [Ids -> Responses \cup {Nothing}]
  BY DEF abort, ToolInv, ToolTypeOK
<1>2. reason # NoReason
  BY DEF AbortReasons, NoReason
<1> QED
  BY <1>1, <1>2, ConcludesKeeps DEF abort

\* Whatever the tool does.
LEMMA ToolKeeps ==
    ASSUME ToolInv, UNCHANGED issued,
           \/ \E i \in Ids : operates(i)
           \/ \E s \in Sessions : respond(s)
    PROVE  ToolInv'
<1>1. ASSUME NEW i \in Ids, unanswered(i)
      PROVE  ToolInv'
  BY <1>1, RetryKeeps, AbortKeeps DEF unanswered, AbortReasons
<1>2. ASSUME NEW i \in Ids, answered(i)
      PROVE  ToolInv'
  <2> DEFINE reason == AbortReason(i, toTool[i])
  <2>1. phase[i] = "asking" /\ toTool[i] # Nothing
    BY <1>2 DEF answered
  <2>2. reason \in AbortReasons \cup {NoReason}
    BY <2>1, StopsOrPasses
  <2>3. CASE retry(i)
    BY <2>1, <2>3, RetryKeeps
  <2>4. CASE reason # NoReason /\ abort(i, reason)
    BY <2>1, <2>2, <2>4, AbortKeeps
  <2>5. CASE /\ phase' = [phase EXCEPT ![i] = "performing"]
             /\ performed' = [performed EXCEPT ![i] = @ + 1]
             /\ toTool' = [toTool EXCEPT ![i] = Nothing]
             /\ UNCHANGED <<calls, sent, asked, nextSeq, toHost, lost>>
    <3>1. /\ phase' \in [Ids -> {"idle", "asking", "performing", "concluded"}]
          /\ \A j \in Ids : phase'[j] = IF j = i THEN "performing" ELSE phase[j]
          /\ performed' \in [Ids -> Nat]
          /\ toTool' \in [Ids -> Responses \cup {Nothing}]
      BY <2>5 DEF ToolInv, ToolTypeOK
    <3>2. ToolTypeOK'
      BY <2>1, <2>5, <3>1 DEF ToolInv, ToolTypeOK
    <3>3. MessagesOK'
      BY <2>5 DEF ToolInv, MessagesOK
    <3> QED
      BY <2>1, <2>5, <3>1, <3>2, <3>3 DEF ToolInv
  <2> QED
    BY <1>2, <2>3, <2>4, <2>5 DEF answered
<1>3. ASSUME NEW i \in Ids, performEnds(i)
      PROVE  ToolInv'
  <2>1. PICK outcome \in {"success", "failed"} : concludes(i, outcome, NoReason)
    BY <1>3 DEF performEnds
  <2>2. /\ phase[i] # "idle" /\ UNCHANGED performed
        /\ toTool' \in [Ids -> Responses \cup {Nothing}]
    BY <1>3 DEF performEnds, ToolInv, ToolTypeOK
  <2> QED
    BY <2>1, <2>2, ConcludesKeeps
<1>4. ASSUME NEW s \in Sessions, respond(s)
      PROVE  ToolInv'
  <2>1. /\ toHost' = Append(toHost, ResultMessage(s)) /\ calls' \subseteq calls
        /\ UNCHANGED <<phase, sent, asked, nextSeq, performed, toTool, lost>>
    BY <1>4 DEF respond
  <2>2. toHost \in Seq(Messages) /\ ResultMessage(s) \in Messages
    BY DEF ToolInv, ToolTypeOK, ResultMessage, Messages
  <2>3. /\ toHost' \in Seq(Messages)
        /\ \A n \in DOMAIN toHost' :
              (n \in DOMAIN toHost /\ toHost'[n] = toHost[n]) \/ toHost'[n] = ResultMessage(s)
    BY <2>1, <2>2
  <2>4. MessagesOK'
    <3>1. ResultMessage(s).method = "result"
      BY DEF ResultMessage
    <3> QED
      BY <2>1, <2>2, <2>3, <3>1 DEF ToolInv, MessagesOK
  <2>5. ToolTypeOK'
    BY <2>1, <2>3 DEF ToolInv, ToolTypeOK
  <2> QED
    BY <2>1, <2>4, <2>5 DEF ToolInv
<1> QED
  BY <1>1, <1>2, <1>3, <1>4, AuditedKeeps DEF operates

-----------------------------------------------------------------------------
(***************************************************************************)
(* Calls take the host's steps.                                            *)
(***************************************************************************)

\* Of the sessions in flight the host only asks whether the event's is one.
LEMMA OwnSessionDecides ==
    ASSUME NEW e \in Events, NEW arrivedOn
    PROVE  LET own == IF e.session_id \in arrivedOn THEN {e.session_id} ELSE {} IN
           /\ handleAttempt(e, arrivedOn) => handleAttempt(e, own)
           /\ handleOutcome(e, arrivedOn) => handleOutcome(e, own)
<1> DEFINE own == IF e.session_id \in arrivedOn THEN {e.session_id} ELSE {}
<1>1. NotInFlight(e, arrivedOn) <=> NotInFlight(e, own)
  BY DEF NotInFlight
<1>2. \A attempt : Admitted(e, attempt, arrivedOn) <=> Admitted(e, attempt, own)
  BY <1>1 DEF Admitted
<1> HIDE DEF own
<1> QED
  BY <1>2 DEF handleAttempt, handleOutcome, rejectInadmissible, dropInadmissible, own

\* An event the host takes off the connection.
LEMMA ReceivedEvent ==
    ASSUME ToolInv, toHost # << >>, Head(toHost).method # "result"
    PROVE  /\ Head(toHost) \in Messages /\ Head(toHost).event \in ToolEvents
           /\ Head(toHost).event \in Events
           /\ Head(toHost).event.session_id \in issued
           /\ Head(toHost).method = "audit/attempt" =>
                Head(toHost).event = sent[Head(toHost).event.id]
<1>1. toHost \in Seq(Messages)
  BY DEF ToolInv, ToolTypeOK
<1>2. 1 \in DOMAIN toHost /\ Head(toHost) = toHost[1]
  BY <1>1
<1>3. Head(toHost) \in Messages /\ Head(toHost).event.session_id \in issued
      /\ (Head(toHost).method = "audit/attempt" => Head(toHost).event = sent[Head(toHost).event.id])
  BY <1>2 DEF ToolInv, MessagesOK
<1>4. Head(toHost).event \in ToolEvents
  BY <1>3 DEF Messages
<1> QED
  BY <1>3, <1>4, ToolEventFields

\* Every step of the composition is a step of the host, or leaves the host alone.
LEMMA HostStep ==
    ASSUME ToolInv, [CallNext]_allVars
    PROVE  [Next]_vars
<1>1. CASE UNCHANGED allVars
  BY <1>1 DEF allVars
<1>2. ASSUME NEW s \in Sessions, callAudited(s)
      PROVE  [Next]_vars
  BY <1>2 DEF callAudited, Next
<1>3. ASSUME NEW s \in Sessions, callGivenUp(s)
      PROVE  [Next]_vars
  BY <1>3 DEF callGivenUp, endCall, Next
<1>4. CASE toolSteps \/ \E i \in Ids : misdeliver(i)
  BY <1>4 DEF toolSteps, misdeliver
<1>5. CASE receive
  <2> DEFINE m == Head(toHost)
  <2>1. CASE m.method = "audit/attempt" /\ receiveAttempt(m)
    <3>1. m.event \in Events /\ handleAttempt(m.event, inFlight)
      BY <1>5, <2>1, ReceivedEvent DEF receive, receiveAttempt
    <3>2. \E arrivedOn \in {{m.event.session_id}, {}} : handleAttempt(m.event, arrivedOn)
      BY <3>1, OwnSessionDecides
    <3> QED
      BY <3>1, <3>2 DEF Next
  <2>2. CASE m.method = "audit/outcome" /\ receiveOutcome(m)
    <3>1. m.event \in Events /\ handleOutcome(m.event, inFlight)
      BY <1>5, <2>2, ReceivedEvent DEF receive, receiveOutcome
    <3>2. \E arrivedOn \in {{m.event.session_id}, {}} : handleOutcome(m.event, arrivedOn)
      BY <3>1, OwnSessionDecides
    <3> QED
      BY <3>1, <3>2 DEF Next
  <2>3. CASE receiveResult(m)
    <3>1. m \in Messages
      <4>1. toHost \in Seq(Messages) /\ toHost # << >>
        BY <1>5 DEF receive, ToolInv, ToolTypeOK
      <4> QED
        BY <4>1
    <3>2. m.session \in Sessions
      BY <2>3, <3>1 DEF receiveResult, Messages
    <3> QED
      BY <2>3, <3>2 DEF receiveResult, endCall, Next
  <2> QED
    BY <1>5, <2>1, <2>2, <2>3 DEF receive, receiveAttempt, receiveOutcome
<1>6. CASE switchDurability
  BY <1>6 DEF switchDurability, Next
<1>7. CASE provisionTool
  BY <1>7 DEF provisionTool
<1> QED
  BY <1>1, <1>2, <1>3, <1>4, <1>5, <1>6, <1>7 DEF CallNext

\* The calls begin with a host as it may be set up.
LEMMA CallBegins ==
    CallInit => Init
<1>1. register(emptyRegistry, ToolKeyId, ToolKey) \in KeyRegistryType
  BY ToolAssumption DEF register, emptyRegistry, isRegistered, KeyRegistryType, RegisteredKey
<1> QED
  BY <1>1 DEF CallInit, Init

\* An event that is handled neither opens nor ends a session.
LEMMA HandlersKeepSessions ==
    ASSUME NEW e, NEW arrivedOn, handleAttempt(e, arrivedOn) \/ handleOutcome(e, arrivedOn)
    PROVE  UNCHANGED <<issued, sessions>>
<1>1. CASE handleOutcome(e, arrivedOn)
  BY <1>1 DEF handleOutcome, sessionVars
<1>2. CASE handleAttempt(e, arrivedOn)
  BY <1>2 DEF handleAttempt, rejectInadmissible, rejectUnverified, answerFromLedger, rejectReplay,
     answerUnavailable, acceptAttempt, attemptSealThrows, sessionVars
<1> QED
  BY <1>1, <1>2

-----------------------------------------------------------------------------
(***************************************************************************)
(* The connection keeps the tool's invariant.                              *)
(***************************************************************************)

\* The tool's variables but for the connection are left alone, and what is on the
\* connection was there before.
LEMMA ConnectionKeeps ==
    ASSUME ToolInv, issued \subseteq issued',
           UNCHANGED <<phase, sent, asked, nextSeq, performed, lost>>,
           calls' \subseteq Sessions, calls' \subseteq issued',
           toHost' = toHost \/ (toHost # << >> /\ toHost' = Tail(toHost)),
           toTool' \in [Ids -> Responses \cup {Nothing}]
    PROVE  ToolInv'
<1>1. /\ toHost' \in Seq(Messages)
      /\ \A n \in DOMAIN toHost' : \E k \in DOMAIN toHost : toHost'[n] = toHost[k]
  <2>1. toHost \in Seq(Messages)
    BY DEF ToolInv, ToolTypeOK
  <2>2. CASE toHost' = toHost
    BY <2>1, <2>2
  <2>3. CASE toHost # << >> /\ toHost' = Tail(toHost)
    <3>1. /\ Tail(toHost) \in Seq(Messages) /\ Len(Tail(toHost)) = Len(toHost) - 1
          /\ \A n \in 1..(Len(toHost) - 1) : Tail(toHost)[n] = toHost[n + 1]
      BY <2>1, <2>3
    <3>2. Len(toHost) \in Nat /\ DOMAIN toHost = 1..Len(toHost)
      BY <2>1
    <3> DEFINE tail == Tail(toHost)
    <3>3. tail \in Seq(Messages) /\ Len(tail) = Len(toHost) - 1
      BY <3>1
    <3>4. \A n \in 1..(Len(toHost) - 1) : tail[n] = toHost[n + 1]
      BY <3>1
    <3> HIDE DEF tail
    <3>5. DOMAIN tail = 1..(Len(toHost) - 1)
      BY <3>3
    <3>6. ASSUME NEW n \in DOMAIN tail
          PROVE  n + 1 \in DOMAIN toHost /\ tail[n] = toHost[n + 1]
      BY <3>2, <3>4, <3>5
    <3>7. toHost' = tail
      BY <2>3 DEF tail
    <3> QED
      BY <3>3, <3>6, <3>7
  <2> QED
    BY <2>2, <2>3
<1>2. MessagesOK'
  BY <1>1 DEF ToolInv, MessagesOK
<1>3. ToolTypeOK'
  BY <1>1 DEF ToolInv, ToolTypeOK
<1> QED
  BY <1>2, <1>3 DEF ToolInv

\* What the host answers is an Attempt Response, for the operation that waits.
LEMMA AnswersKeep ==
    ASSUME ToolInv, TypeOK', NEW m, m.event \in Events, answers(m)
    PROVE  toTool' \in [Ids -> Responses \cup {Nothing}]
<1>1. m.event.id \in Ids /\ toTool \in [Ids -> Responses \cup {Nothing}]
  BY EventFields DEF ToolInv, ToolTypeOK
<1>2. CASE answer' # {} /\ phase[m.event.id] = "asking" /\ asked[m.event.id] = m.try
  <2>1. (CHOOSE a \in answer' : TRUE) \in answer'
    BY <1>2
  <2>2. (CHOOSE a \in answer' : TRUE).response \in Responses
    <3>1. Reject("schema-invalid") \in Responses
      BY DEF Reject, Responses, RejectReasons
    <3> QED
      BY <2>1, <3>1 DEF TypeOK, OutputOK, Answers
  <2> QED
    BY <1>1, <1>2, <2>2 DEF answers
<1>3. CASE ~(answer' # {} /\ phase[m.event.id] = "asking" /\ asked[m.event.id] = m.try)
  BY <1>1, <1>3 DEF answers
<1> QED
  BY <1>2, <1>3

\* An answer that takes another's place is one the host's records allow.
LEMMA ReplayableTyped ==
    ASSUME TypeOK, NEW response \in ReplayableAnswers
    PROVE  /\ response \in Responses
           /\ \E n \in DOMAIN ledger :
                 /\ response.seq = ledger[n].seq /\ response.host_ts = ledger[n].host_ts
                 /\ response.previous_hash = ledger[n].previous_hash
                 /\ response.record_hash = ledger[n].record_hash
<1>1. PICK n \in DOMAIN ledger,
           signature \in {{}} \cup {ledger[k].host_signature : k \in DOMAIN ledger} :
             response = [Accept(ledger[n]) EXCEPT !.host_signature = signature]
  BY DEF ReplayableAnswers
<1>2. \A k \in DOMAIN ledger : ledger[k] \in SealedRecords(Events)
  BY DEF TypeOK, SealedOK
<1>3. signature \in SUBSET [seq : Nat, host_ts : Nat, previous_hash : Hashes(Events),
                            record_hash : Hashes(Events)]
  BY <1>2 DEF SealedRecords
<1>4. response = [status |-> "accept", seq |-> ledger[n].seq, host_ts |-> ledger[n].host_ts,
                  previous_hash |-> ledger[n].previous_hash,
                  record_hash |-> ledger[n].record_hash, host_signature |-> signature]
  BY <1>1 DEF Accept
<1>5. ledger[n] \in SealedRecords(Events)
  BY <1>2
<1>6. response \in Responses
  BY <1>3, <1>4, <1>5 DEF Responses, SealedRecords
<1> QED
  BY <1>4, <1>6

-----------------------------------------------------------------------------
(***************************************************************************)
(* The types of the composition, and the host inside it.                   *)
(***************************************************************************)

\* The variables of the composition itself.
CallVarsOK ==
    /\ inFlight = sessions
    /\ givenUp \subseteq issued
    /\ outage \subseteq issued
    /\ misdelivered \in 0..MaxMisdelivered
    /\ hostRegistry \in HostRegistryType

\* Registering or revoking a host key leaves the tool a registry.
LEMMA HostRegistryKeeps ==
    ASSUME hostRegistry \in HostRegistryType, changeHostRegistry
    PROVE  hostRegistry' \in HostRegistryType
<1>1. CASE \E publicKey \in PublicKeys : registerHostKey(publicKey)
  BY <1>1 DEF registerHostKey, register, HostRegistryType, RegisteredKey
<1>2. CASE revokeHostKey
  BY <1>2 DEF revokeHostKey, revoke, isRegistered, HostRegistryType, RegisteredKey
<1> QED
  BY <1>1, <1>2 DEF changeHostRegistry

\* The tool starts with one.
LEMMA HostRegistryBegins ==
    ToolInit => hostRegistry \in HostRegistryType
<1>1. HostKey \in PublicKeys
  BY ToolAssumption
<1>2. emptyHostRegistry \in HostRegistryType
  BY DEF emptyHostRegistry, HostRegistryType
<1>3. register(emptyHostRegistry, HostKeyId, HostKey) \in HostRegistryType
  BY <1>1, <1>2 DEF register, HostRegistryType, RegisteredKey
<1> QED
  BY <1>2, <1>3 DEF ToolInit

\* The tool can check the host's countersignatures exactly when its registry holds
\* the host's key, not revoked.
LEMMA TrustedHostKey ==
    ASSUME hostRegistry \in HostRegistryType
    PROVE  isCurrent(hostRegistry, HostKeyId) /\ get(hostRegistry, HostKeyId).publicKey = HostKey
             <=> hostRegistry[HostKeyId] = [publicKey |-> HostKey, revoked |-> FALSE]
<1>1. hostRegistry[HostKeyId] \in RegisteredKey \cup {NotRegistered}
  BY DEF HostRegistryType
<1>2. HostKey \in PublicKeys
  BY ToolAssumption
<1>3. [publicKey |-> HostKey, revoked |-> FALSE] # NotRegistered
  <2>1. [publicKey |-> HostKey, revoked |-> FALSE] \in [publicKey : PublicKeys, revoked : BOOLEAN]
    BY <1>2
  <2> QED
    BY <2>1, NotRegisteredAssumption
<1>4. CASE hostRegistry[HostKeyId] = NotRegistered
  BY <1>3, <1>4 DEF isCurrent, isRegistered
<1>5. CASE hostRegistry[HostKeyId] # NotRegistered
  <2> DEFINE entry == hostRegistry[HostKeyId]
  <2>1. /\ entry = [publicKey |-> entry.publicKey, revoked |-> entry.revoked]
        /\ entry.revoked \in BOOLEAN
    BY <1>1, <1>5 DEF RegisteredKey
  <2>2. isCurrent(hostRegistry, HostKeyId) <=> ~entry.revoked
    BY <1>5 DEF isCurrent, isRegistered
  <2>3. get(hostRegistry, HostKeyId) = entry
    BY DEF get
  <2> HIDE DEF entry
  <2>4. ~entry.revoked /\ entry.publicKey = HostKey
          <=> entry = [publicKey |-> HostKey, revoked |-> FALSE]
    BY <2>1
  <2> QED
    BY <2>2, <2>3, <2>4 DEF entry
<1> QED
  BY <1>4, <1>5

\* No step leaves the types, or lets the sessions in flight and the host's open
\* sessions come apart.
LEMMA CallStep ==
    ASSUME TypeOK, ToolInv, CallVarsOK, [CallNext]_allVars
    PROVE  TypeOK' /\ ToolInv' /\ CallVarsOK'
<1>1. TypeOK'
  BY HostStep, TypeStep
<1>2. calls \subseteq Sessions /\ calls \subseteq issued /\ issued \subseteq Sessions
      /\ toTool \in [Ids -> Responses \cup {Nothing}]
  BY DEF ToolInv, ToolTypeOK, TypeOK, SessionsOK
<1>3. CASE UNCHANGED allVars
  BY <1>1, <1>2, <1>3, ConnectionKeeps DEF allVars, vars, toolVars, callVars, CallVarsOK
<1>4. ASSUME NEW s \in Sessions, callAudited(s)
      PROVE  ToolInv' /\ CallVarsOK'
  <2>1. issued' = issued \cup {s} /\ sessions' = sessions \cup {s} /\ calls' = calls \cup {s}
    BY <1>4 DEF callAudited, openSession
  <2>2. ToolInv'
    BY <1>2, <1>4, <2>1, ConnectionKeeps DEF callAudited
  <2> QED
    BY <1>4, <2>1, <2>2 DEF callAudited, CallVarsOK
<1>5. ASSUME NEW s \in Sessions, callGivenUp(s)
      PROVE  ToolInv' /\ CallVarsOK'
  <2>1. /\ issued' = issued /\ sessions' = sessions \ {s} /\ inFlight' = inFlight \ {s}
        /\ s \in sessions
    BY <1>5 DEF callGivenUp, endCall, closeSession, forgetSession
  <2>2. ToolInv'
    BY <1>2, <1>5, <2>1, ConnectionKeeps DEF callGivenUp, toolVars
  <2> QED
    BY <1>5, <2>1, <2>2 DEF callGivenUp, CallVarsOK, TypeOK, SessionsOK
<1>6. CASE toolSteps
  <2>1. UNCHANGED <<issued, sessions, inFlight, givenUp, outage, misdelivered, hostRegistry>>
    BY <1>6 DEF toolSteps, vars, callVars
  <2>2. ToolInv'
    BY <1>6, <2>1, ToolKeeps DEF toolSteps
  <2> QED
    BY <1>1, <2>1, <2>2 DEF CallVarsOK
<1>7. CASE receive
  <2> DEFINE m == Head(toHost)
  <2>1. /\ toHost # << >> /\ toHost' = Tail(toHost)
        /\ UNCHANGED <<calls, phase, sent, asked, nextSeq, performed, lost, givenUp, misdelivered,
                       hostRegistry>>
    BY <1>7 DEF receive
  <2>2. CASE m.method = "audit/attempt" /\ receiveAttempt(m)
    <3>1. m.event \in Events /\ m.event.session_id \in issued
      BY <2>1, <2>2, ReceivedEvent
    <3>2. UNCHANGED <<issued, sessions, inFlight>>
      BY <2>2, HandlersKeepSessions DEF receiveAttempt
    <3>3. toTool' \in [Ids -> Responses \cup {Nothing}]
      BY <1>1, <2>2, <3>1, AnswersKeep DEF receiveAttempt
    <3>4. ToolInv'
      BY <1>2, <2>1, <3>2, <3>3, ConnectionKeeps
    <3> QED
      BY <1>1, <2>1, <2>2, <3>1, <3>2, <3>4 DEF receiveAttempt, notesOutage, CallVarsOK
  <2>3. CASE m.method = "audit/outcome" /\ receiveOutcome(m)
    <3>1. m.event.session_id \in issued
      BY <2>1, <2>3, ReceivedEvent
    <3>2. UNCHANGED <<issued, sessions, inFlight, toTool>>
      BY <2>3, HandlersKeepSessions DEF receiveOutcome
    <3>3. ToolInv'
      BY <1>2, <2>1, <3>2, ConnectionKeeps
    <3> QED
      BY <1>1, <2>1, <2>3, <3>1, <3>2, <3>3 DEF receiveOutcome, notesOutage, CallVarsOK
  <2>4. CASE receiveResult(m)
    <3>1. issued' = issued /\ UNCHANGED <<outage, toTool>>
      BY <2>4 DEF receiveResult, endCall, closeSession, vars
    <3>2. inFlight' = sessions'
      BY <2>4 DEF receiveResult, endCall, closeSession, forgetSession, vars, CallVarsOK
    <3>3. ToolInv'
      BY <1>2, <2>1, <3>1, ConnectionKeeps
    <3> QED
      BY <1>1, <2>1, <3>1, <3>2, <3>3 DEF CallVarsOK
  <2> QED
    BY <1>7, <2>2, <2>3, <2>4 DEF receive, receiveAttempt, receiveOutcome
<1>8. ASSUME NEW i \in Ids, misdeliver(i)
      PROVE  ToolInv' /\ CallVarsOK'
  <2>1. /\ misdelivered < MaxMisdelivered /\ misdelivered' = misdelivered + 1
        /\ UNCHANGED <<calls, phase, sent, asked, nextSeq, performed, toHost, lost,
                       inFlight, givenUp, outage, hostRegistry>>
        /\ UNCHANGED <<issued, sessions>>
    BY <1>8 DEF misdeliver, vars
  <2>2. PICK response \in ReplayableAnswers : toTool' = [toTool EXCEPT ![i] = response]
    BY <1>8 DEF misdeliver
  <2>3. toTool' \in [Ids -> Responses \cup {Nothing}]
    BY <1>2, <2>2, ReplayableTyped
  <2>4. ToolInv'
    BY <1>2, <2>1, <2>3, ConnectionKeeps
  <2>5. misdelivered' \in 0..MaxMisdelivered
    BY <2>1, CallAssumption DEF CallVarsOK
  <2> QED
    BY <2>1, <2>4, <2>5 DEF CallVarsOK
<1>9. CASE switchDurability
  <2>1. /\ UNCHANGED <<issued, sessions>>
        /\ UNCHANGED <<calls, phase, sent, asked, nextSeq, performed, toHost, toTool, lost>>
        /\ UNCHANGED <<inFlight, givenUp, outage, misdelivered, hostRegistry>>
    BY <1>9 DEF switchDurability, setUnavailable, sessionVars, toolVars, callVars
  <2>2. ToolInv'
    BY <1>2, <2>1, ConnectionKeeps
  <2> QED
    BY <1>1, <2>1, <2>2 DEF CallVarsOK
<1>10. CASE provisionTool
  <2>1. /\ UNCHANGED <<issued, sessions>>
        /\ UNCHANGED <<calls, phase, sent, asked, nextSeq, performed, toHost, toTool, lost>>
        /\ UNCHANGED <<inFlight, givenUp, outage, misdelivered>>
    BY <1>10 DEF provisionTool, vars, toolVars
  <2>2. hostRegistry' \in HostRegistryType
    BY <1>10, HostRegistryKeeps DEF provisionTool, CallVarsOK
  <2>3. ToolInv'
    BY <1>2, <2>1, ConnectionKeeps
  <2> QED
    BY <1>1, <2>1, <2>2, <2>3 DEF CallVarsOK
<1> QED
  BY <1>1, <1>3, <1>4, <1>5, <1>6, <1>7, <1>8, <1>9, <1>10 DEF CallNext

\* Calls begin well.
LEMMA CallInitOK ==
    CallInit => TypeOK /\ ToolInv /\ CallVarsOK
<1> SUFFICES ASSUME CallInit PROVE TypeOK /\ ToolInv /\ CallVarsOK
  OBVIOUS
<1>1. TypeOK
  BY CallBegins, TypeInit
<1>2. ToolTypeOK
  BY ToolAssumption DEF CallInit, ToolInit, ToolTypeOK
<1>3. ToolInv
  BY <1>2 DEF CallInit, ToolInit, InitWith, ToolInv, MessagesOK
<1> QED
  BY <1>1, <1>3, CallAssumption, HostRegistryBegins DEF CallInit, InitWith, CallVarsOK

\* Every variable of the composition keeps its type, and the sessions in flight
\* are the host's open sessions.
THEOREM CallTypeCorrect == CallSpec => []CallTypeOK
<1>1. ToolInv /\ CallVarsOK => CallTypeOK
  BY DEF ToolInv, CallVarsOK, CallTypeOK
<1>2. TypeOK /\ ToolInv /\ CallVarsOK /\ [CallNext]_allVars
      => TypeOK' /\ ToolInv' /\ CallVarsOK'
  BY CallStep
<1> QED
  BY <1>1, <1>2, CallInitOK, PTL DEF CallSpec

\* Calls implement the host: with the connection and the tool hidden, what
\* happens is a behaviour of AuditHost, so every theorem about it is one about
\* calls.
THEOREM CallImplementsHost == CallSpec => Spec
<1>1. CallInit => Init /\ TypeOK /\ ToolInv /\ CallVarsOK
  BY CallBegins, CallInitOK
<1>2. TypeOK /\ ToolInv /\ CallVarsOK /\ [CallNext]_allVars
      => [Next]_vars /\ TypeOK' /\ ToolInv' /\ CallVarsOK'
  BY CallStep, HostStep
<1> QED
  BY <1>1, <1>2, PTL DEF CallSpec, Spec

-----------------------------------------------------------------------------
(***************************************************************************)
(* Audit before act.                                                       *)
(***************************************************************************)

\* A response that is the accept of a sealed record: of this very event, or of
\* any, it names the record's hash, made over what it says of the record.
AcceptOf(response, record) ==
    /\ record.record_hash = response.record_hash
    /\ response.record_hash =
         computeRecordHash(record.event, response.seq, response.host_ts, response.previous_hash)

\* An accept that waits at the tool is of a sealed record, and of the attempt it
\* answers if none was replaced.
AcceptsAreSealed ==
    \A i \in Ids :
       toTool[i] # Nothing =>
         /\ phase[i] # "idle"
         /\ toTool[i].status = "accept" =>
              \E n \in DOMAIN ledger :
                 /\ AcceptOf(toTool[i], ledger[n])
                 /\ misdelivered = 0 => ledger[n].event = sent[i]

PerformedHasBegun == \A i \in Ids : performed[i] > 0 => phase[i] # "idle"

\* The hash tells events apart.
LEMMA HashTellsEvents ==
    ASSUME NEW hash \in Hashes(Events), NEW e \in Events, NEW f \in Events,
           NEW seq \in Nat, NEW host_ts \in Nat,
           computeRecordHash(e, seq, host_ts, hash) = computeRecordHash(f, seq, host_ts, hash)
    PROVE  e = f
<1> DEFINE Links == [event : Events, seq : Nat, host_ts : Nat]
           x == Link(e, seq, host_ts)
           y == Link(f, seq, host_ts)
<1>1. hash \in Seq(Links) /\ x \in Links /\ y \in Links
  BY DEF Hashes, Link
<1>2. Append(hash, x) = Append(hash, y)
  BY DEF computeRecordHash
<1>3. x.event = e /\ y.event = f
  BY DEF Link
<1> HIDE DEF Links, x, y
<1>4. Append(hash, x)[Len(hash) + 1] = x /\ Append(hash, y)[Len(hash) + 1] = y
  BY <1>1
<1> QED
  BY <1>2, <1>3, <1>4

\* A sealed record stays what and where it is.
LEMMA RecordsStay ==
    ASSUME TypeOK, [Next]_vars, NEW n \in DOMAIN ledger
    PROVE  n \in DOMAIN ledger' /\ ledger'[n] = ledger[n]
<1>1. CASE SealsNothing
  BY <1>1 DEF SealsNothing
<1>2. ASSUME NEW e \in Events, Seals(e)
      PROVE  n \in DOMAIN ledger' /\ ledger'[n] = ledger[n]
  BY <1>2, SealsRecord
<1> QED
  BY <1>1, <1>2, StepKind

\* An operation that has begun keeps its attempt.
LEMMA AttemptStays ==
    ASSUME ToolInv, [CallNext]_allVars, NEW i \in Ids, phase[i] # "idle"
    PROVE  phase'[i] # "idle" /\ sent'[i] = sent[i]
<1>1. /\ sent \in [Ids -> ToolEvents \cup {Nothing}]
      /\ phase \in [Ids -> {"idle", "asking", "performing", "concluded"}]
  BY DEF ToolInv, ToolTypeOK
<1>2. CASE toolSteps
  <2>1. ASSUME NEW j \in Ids, NEW body \in Bodies, audited(j, body)
        PROVE  phase'[i] # "idle" /\ sent'[i] = sent[i]
    <3>1. i # j /\ phase' = [phase EXCEPT ![j] = "asking"]
      BY <2>1 DEF audited
    <3>2. PICK attempt : sent' = [sent EXCEPT ![j] = attempt]
      BY <2>1 DEF audited
    <3> QED
      BY <1>1, <3>1, <3>2
  <2>2. ASSUME NEW j \in Ids, unanswered(j) \/ answered(j) \/ performEnds(j)
        PROVE  phase'[i] # "idle" /\ sent' = sent
    BY <1>1, <2>2 DEF unanswered, answered, performEnds, retry, abort, concludes
  <2>3. ASSUME NEW s \in Sessions, respond(s)
        PROVE  phase' = phase /\ sent' = sent
    BY <2>3 DEF respond
  <2> QED
    BY <1>2, <2>1, <2>2, <2>3 DEF toolSteps, operates
<1>3. CASE ~toolSteps
  <2>1. phase' = phase /\ sent' = sent
    BY <1>3 DEF CallNext, allVars, toolVars, callAudited, callGivenUp, receive, misdeliver,
       switchDurability, provisionTool
  <2> QED
    BY <2>1
<1> QED
  BY <1>2, <1>3

\* What is performed passed every check of the tool.
LEMMA PerformsAccepted ==
    ASSUME ToolInv, [CallNext]_allVars, NEW i \in Ids, performed'[i] # performed[i]
    PROVE  /\ phase[i] = "asking" /\ toTool[i] # Nothing
           /\ toTool[i].status = "accept" /\ ~Polluted(i, toTool[i])
<1>1. performed \in [Ids -> Nat]
  BY DEF ToolInv, ToolTypeOK
<1>2. CASE toolSteps
  <2>1. PICK j \in Ids : answered(j)
    BY <1>2 DEF toolSteps, operates, audited, unanswered, retry, abort, performEnds, respond
  <2>2. /\ phase[j] = "asking" /\ toTool[j] # Nothing
        /\ AbortReason(j, toTool[j]) = NoReason
        /\ performed' = [performed EXCEPT ![j] = @ + 1]
    BY <2>1 DEF answered, retry, abort
  <2>3. j = i
    BY <1>1, <2>2
  <2> QED
    BY <2>2, <2>3, StopsOrPasses
<1>3. CASE ~toolSteps
  BY <1>3 DEF CallNext, allVars, toolVars, callAudited, callGivenUp, receive, misdeliver,
     switchDurability, provisionTool
<1> QED
  BY <1>2, <1>3

\* The host answers the event it was asked about.
LEMMA AnswersTheEvent ==
    ASSUME NEW e, NEW arrivedOn, handleAttempt(e, arrivedOn)
    PROVE  \A a \in answer' : a.event = e
<1>1. \/ answer' = NoReply
      \/ \E response : answer' = Reply(e, response)
  BY DEF handleAttempt, rejectInadmissible, rejectUnverified, answerFromLedger, rejectReplay,
     answerUnavailable, acceptAttempt, attemptSealThrows
<1> QED
  BY <1>1 DEF Reply, NoReply

\* An answer at the tool was there, is the host's, or took another's place.
LEMMA AnswerSource ==
    ASSUME TypeOK, ToolInv, CallVarsOK, [CallNext]_allVars,
           NEW i \in Ids, toTool'[i] # Nothing, toTool'[i] # toTool[i]
    PROVE  \/ /\ phase[i] = "asking"
              /\ \E a \in answer' : a.event = sent[i] /\ a.response = toTool'[i]
           \/ /\ toTool[i] # Nothing /\ toTool'[i] \in ReplayableAnswers
              /\ misdelivered' # 0 /\ UNCHANGED ledger
<1>1. toTool \in [Ids -> Responses \cup {Nothing}]
  BY DEF ToolInv, ToolTypeOK
<1>2. CASE toolSteps
  <2>1. \A j \in Ids : operates(j) =>
           toTool' = toTool \/ toTool' = [toTool EXCEPT ![j] = Nothing]
    BY DEF operates, audited, unanswered, answered, performEnds, retry, abort
  <2>2. \A s \in Sessions : respond(s) => toTool' = toTool
    BY DEF respond
  <2> QED
    BY <1>1, <1>2, <2>1, <2>2 DEF toolSteps
<1>3. CASE receive
  <2> DEFINE m == Head(toHost)
  <2>1. receiveAttempt(m)
    BY <1>3 DEF receive, receiveOutcome, receiveResult
  <2>2. /\ m.event \in Events /\ m.event = sent[m.event.id] /\ m.event.id \in Ids
        /\ handleAttempt(m.event, inFlight) /\ answers(m)
    BY <1>3, <2>1, ReceivedEvent, EventFields DEF receive, receiveAttempt
  <2> HIDE DEF m
  <2>3. /\ answer' # {} /\ phase[m.event.id] = "asking"
        /\ toTool' = [toTool EXCEPT ![m.event.id] = (CHOOSE a \in answer' : TRUE).response]
    BY <2>2 DEF answers
  <2>4. i = m.event.id /\ toTool'[i] = (CHOOSE a \in answer' : TRUE).response
    BY <1>1, <2>2, <2>3
  <2>5. PICK a \in answer' : a.response = toTool'[i]
    BY <2>3, <2>4
  <2>6. a.event = m.event
    BY <2>2, AnswersTheEvent
  <2> QED
    BY <2>2, <2>3, <2>4, <2>5, <2>6
<1>4. ASSUME NEW j \in Ids, misdeliver(j)
      PROVE  /\ toTool[i] # Nothing /\ toTool'[i] \in ReplayableAnswers
             /\ misdelivered' # 0 /\ UNCHANGED ledger
  <2>1. PICK response \in ReplayableAnswers : toTool' = [toTool EXCEPT ![j] = response]
    BY <1>4 DEF misdeliver
  <2>2. i = j /\ toTool'[i] = response
    BY <1>1, <2>1
  <2>3. misdelivered \in Nat /\ misdelivered' = misdelivered + 1 /\ UNCHANGED ledger
    BY <1>4, CallAssumption DEF misdeliver, vars, CallVarsOK
  <2> QED
    BY <1>4, <2>1, <2>2, <2>3 DEF misdeliver
<1>5. CASE ~toolSteps /\ ~receive /\ ~(\E j \in Ids : misdeliver(j))
  BY <1>5 DEF CallNext, allVars, toolVars, callAudited, callGivenUp, switchDurability,
     provisionTool
<1> QED
  BY <1>2, <1>3, <1>4, <1>5

\* No answer at the tool is misdelivered without a trace.
LEMMA MisdeliveredCounts ==
    ASSUME CallVarsOK, [CallNext]_allVars, misdelivered' = 0
    PROVE  misdelivered = 0
<1>1. misdelivered \in Nat
  BY CallAssumption DEF CallVarsOK
<1>2. misdelivered' = misdelivered \/ misdelivered' = misdelivered + 1
  BY DEF CallNext, allVars, callVars, callAudited, callGivenUp, toolSteps, receive, misdeliver,
     switchDurability, provisionTool
<1> QED
  BY <1>1, <1>2

\* Every accept at the tool is of a sealed record.
LEMMA AcceptsStaySealed ==
    ASSUME TypeOK, ToolInv, CallVarsOK, ChainHolds, AcceptIsSealed', [CallNext]_allVars,
           AcceptsAreSealed
    PROVE  AcceptsAreSealed'
<1> SUFFICES ASSUME NEW i \in Ids, toTool'[i] # Nothing
             PROVE  /\ phase'[i] # "idle"
                    /\ toTool'[i].status = "accept" =>
                         \E n \in DOMAIN ledger' :
                            /\ AcceptOf(toTool'[i], ledger'[n])
                            /\ misdelivered' = 0 => ledger'[n].event = sent'[i]
  BY DEF AcceptsAreSealed, AcceptOf
<1>1. CASE toTool'[i] = toTool[i]
  <2>1. phase[i] # "idle" /\ phase'[i] # "idle" /\ sent'[i] = sent[i]
    BY <1>1, AttemptStays DEF AcceptsAreSealed
  <2>2. ASSUME NEW n \in DOMAIN ledger
        PROVE  n \in DOMAIN ledger' /\ ledger'[n] = ledger[n]
    BY HostStep, RecordsStay
  <2> QED
    BY <1>1, <2>1, <2>2, MisdeliveredCounts DEF AcceptsAreSealed
<1>2. ASSUME phase[i] = "asking", NEW a \in answer', a.event = sent[i], a.response = toTool'[i]
      PROVE  /\ phase'[i] # "idle"
             /\ toTool'[i].status = "accept" =>
                  \E n \in DOMAIN ledger' :
                     /\ AcceptOf(toTool'[i], ledger'[n])
                     /\ ledger'[n].event = sent'[i]
  <2>1. phase'[i] # "idle" /\ sent'[i] = sent[i]
    BY <1>2, AttemptStays
  <2>2. ASSUME a.response.status = "accept"
        PROVE  LET n == a.response.seq + 1 IN
               /\ n \in DOMAIN ledger' /\ ledger'[n].event = sent'[i]
               /\ AcceptOf(a.response, ledger'[n])
    BY <1>2, <2>1, <2>2 DEF AcceptIsSealed, AcceptOf
  <2> QED
    BY <1>2, <2>1, <2>2
<1>3. ASSUME toTool[i] # Nothing, toTool'[i] \in ReplayableAnswers, misdelivered' # 0,
             UNCHANGED ledger
      PROVE  /\ phase'[i] # "idle"
             /\ \E n \in DOMAIN ledger' : AcceptOf(toTool'[i], ledger'[n])
  <2>1. phase'[i] # "idle"
    BY <1>3, AttemptStays DEF AcceptsAreSealed
  <2>2. PICK n \in DOMAIN ledger :
           /\ toTool'[i].seq = ledger[n].seq /\ toTool'[i].host_ts = ledger[n].host_ts
           /\ toTool'[i].previous_hash = ledger[n].previous_hash
           /\ toTool'[i].record_hash = ledger[n].record_hash
    BY <1>3, ReplayableTyped
  <2>3. AcceptOf(toTool'[i], ledger[n])
    BY <2>2 DEF ChainHolds, AcceptOf
  <2> QED
    BY <1>3, <2>1, <2>3
<1> QED
  BY <1>1, <1>2, <1>3, AnswerSource

\* Audit before act: what is performed, or was, is sealed first, provided that no
\* answer is replaced on its way or that the tool recomputes the record hash -
\* which it does if it signs or requires countersignatures.
THEOREM PerformedTheorem ==
    ASSUME MaxMisdelivered = 0 \/ Signs \/ RequireCountersign
    PROVE  CallSpec => []PerformedIsSealed
<1> DEFINE Inv == AcceptsAreSealed /\ PerformedHasBegun /\ PerformedIsSealed
<1>1. CallInit => Inv
  BY DEF CallInit, ToolInit, AcceptsAreSealed, PerformedHasBegun, PerformedIsSealed
<1>2. /\ TypeOK /\ ToolInv /\ CallVarsOK /\ ChainHolds /\ AcceptIsSealed' /\ Inv
      /\ [CallNext]_allVars
      => Inv'
  <2> SUFFICES ASSUME TypeOK, ToolInv, CallVarsOK, ChainHolds, AcceptIsSealed', Inv,
                      [CallNext]_allVars
               PROVE  Inv'
    OBVIOUS
  <2>1. AcceptsAreSealed'
    BY AcceptsStaySealed
  <2>2. ASSUME NEW i \in Ids, performed'[i] > 0
        PROVE  /\ phase[i] # "idle"
               /\ \E n \in DOMAIN ledger : ledger[n].event = sent[i]
    <3>1. CASE performed'[i] = performed[i]
      BY <2>2, <3>1 DEF PerformedHasBegun, PerformedIsSealed
    <3>2. CASE performed'[i] # performed[i]
      <4> DEFINE r == toTool[i]
      <4>1. phase[i] = "asking" /\ r # Nothing /\ r.status = "accept" /\ ~Polluted(i, r)
        BY <3>2, PerformsAccepted
      <4>2. PICK n \in DOMAIN ledger :
               AcceptOf(r, ledger[n]) /\ (misdelivered = 0 => ledger[n].event = sent[i])
        BY <4>1 DEF AcceptsAreSealed
      <4>3. CASE misdelivered = 0
        BY <4>1, <4>2, <4>3
      <4>4. CASE misdelivered # 0
        <5>1. Signs \/ RequireCountersign
          BY <4>4 DEF CallVarsOK
        <5>2. r.record_hash = computeRecordHash(sent[i], r.seq, r.host_ts, r.previous_hash)
          BY <4>1, <5>1 DEF Polluted
        <5>3. /\ r.seq \in Nat /\ r.host_ts \in Nat /\ r.previous_hash \in Hashes(Events)
              /\ ledger[n].event \in Events /\ sent[i] \in Events
          <6>1. r \in Responses /\ ledger[n] \in SealedRecords(Events)
            BY <4>1 DEF ToolInv, ToolTypeOK, TypeOK, SealedOK
          <6>2. sent[i] \in Events
            BY <4>1, ToolEventFields DEF ToolInv, ToolTypeOK
          <6> QED
            BY <4>1, <6>1, <6>2 DEF Responses, SealedRecords
        <5>4. ledger[n].event = sent[i]
          BY <4>2, <5>2, <5>3, HashTellsEvents DEF AcceptOf
        <5> QED
          BY <4>1, <5>4
      <4> QED
        BY <4>3, <4>4
    <3> QED
      BY <3>1, <3>2
  <2>3. ASSUME NEW i \in Ids, performed'[i] > 0
        PROVE  /\ phase'[i] # "idle"
               /\ \E n \in DOMAIN ledger' : ledger'[n].event = sent'[i]
    <3>1. phase[i] # "idle" /\ phase'[i] # "idle" /\ sent'[i] = sent[i]
      BY <2>2, <2>3, AttemptStays
    <3>2. PICK n \in DOMAIN ledger : ledger[n].event = sent[i]
      BY <2>2, <2>3
    <3>3. n \in DOMAIN ledger' /\ ledger'[n] = ledger[n]
      BY HostStep, RecordsStay
    <3> QED
      BY <3>1, <3>2, <3>3
  <2> QED
    BY <2>1, <2>3 DEF PerformedHasBegun, PerformedIsSealed
<1>3. CallSpec => [](TypeOK /\ ToolInv /\ CallVarsOK)
  <2>1. TypeOK /\ ToolInv /\ CallVarsOK /\ [CallNext]_allVars
        => TypeOK' /\ ToolInv' /\ CallVarsOK'
    BY CallStep
  <2> QED
    BY <2>1, CallInitOK, PTL DEF CallSpec
<1>4. CallSpec => []ChainHolds /\ []AcceptIsSealed
  BY CallImplementsHost, ChainTheorem, AcceptTheorem, PTL
<1> QED
  BY <1>1, <1>2, <1>3, <1>4, PTL DEF CallSpec

-----------------------------------------------------------------------------
(***************************************************************************)
(* Further theorems about AuditedCall: the ledger tells the truth about    *)
(* what an honest tool did, and the exchange implements what               *)
(* AuditedOperations promises of it.                                       *)
(*                                                                         *)
(* An operation moves forward only (Moves), so what an outcome on the      *)
(* connection says of it stays true until the host seals it; and what the  *)
(* host seals is the event it takes off the connection (LedgerStep).       *)
(***************************************************************************)

\* What a terminal event says is how its operation ended.
Told(e, phases, performances) ==
    /\ ~IsAttempt(e)
    /\ phases[e.id] = "concluded"
    /\ e.outcome = "aborted" => performances[e.id] = 0
    /\ e.outcome \in {"success", "failed"} => performances[e.id] = 1

EndTold(e) == Told(e, phase, performed)

\* Performing begins and ends with its phase, and what is asked is an attempt.
PhasesFit ==
    \A i \in Ids :
       /\ phase[i] \in {"idle", "asking"} => performed[i] = 0
       /\ phase[i] = "performing" => performed[i] = 1
       /\ phase[i] # "idle" => IsAttempt(sent[i])

OutcomesTold ==
    \A n \in DOMAIN toHost : toHost[n].method = "audit/outcome" => EndTold(toHost[n].event)

\* The records are of events the tool built.
RecordsAreTools == \A n \in DOMAIN ledger : ledger[n].event \in ToolEvents

TruthInv == PhasesFit /\ OutcomesTold /\ RecordsAreTools /\ RecordTellsTruth

-----------------------------------------------------------------------------
(***************************************************************************)
(* What becomes of an operation.                                           *)
(***************************************************************************)

\* One operation goes one phase on; it is performed between asking and performing.
Moves(i) ==
    \/ /\ phase[i] = "idle" /\ phase' = [phase EXCEPT ![i] = "asking"]
       /\ UNCHANGED performed
       /\ \E body \in Bodies : sent' = [sent EXCEPT ![i] = stamped(i, "attempted", NoReason, body)]
    \/ /\ phase[i] = "asking" /\ phase' = [phase EXCEPT ![i] = "performing"]
       /\ performed' = [performed EXCEPT ![i] = @ + 1] /\ UNCHANGED <<sent, toHost>>
    \/ /\ phase[i] = "asking"
       /\ \E reason \in AbortReasons : concludes(i, "aborted", reason)
       /\ UNCHANGED performed
    \/ /\ phase[i] = "performing"
       /\ \E outcome \in {"success", "failed"} : concludes(i, outcome, NoReason)
       /\ UNCHANGED performed

\* The tool moves one operation on, or none.
LEMMA ToolMoves ==
    ASSUME ToolInv, toolSteps
    PROVE  (\E i \in Ids : Moves(i)) \/ UNCHANGED <<phase, sent, performed>>
<1>1. ASSUME NEW i \in Ids, NEW body \in Bodies, audited(i, body)
      PROVE  Moves(i)
  BY <1>1 DEF audited, Moves
<1>2. ASSUME NEW i \in Ids, unanswered(i)
      PROVE  Moves(i) \/ UNCHANGED <<phase, sent, performed>>
  BY <1>2 DEF unanswered, retry, abort, Moves, AbortReasons
<1>3. ASSUME NEW i \in Ids, answered(i)
      PROVE  Moves(i) \/ UNCHANGED <<phase, sent, performed>>
  <2>1. phase[i] = "asking" /\ AbortReason(i, toTool[i]) \in AbortReasons \cup {NoReason}
    BY <1>3, StopsOrPasses DEF answered
  <2>2. CASE retry(i)
    BY <2>2 DEF retry
  <2>3. CASE AbortReason(i, toTool[i]) # NoReason /\ abort(i, AbortReason(i, toTool[i]))
    BY <2>1, <2>3 DEF abort, Moves
  <2> QED
    BY <1>3, <2>1, <2>2, <2>3 DEF answered, Moves
<1>4. ASSUME NEW i \in Ids, performEnds(i)
      PROVE  Moves(i)
  BY <1>4 DEF performEnds, Moves
<1>5. ASSUME NEW s \in Sessions, respond(s)
      PROVE  UNCHANGED <<phase, sent, performed>>
  BY <1>5 DEF respond
<1> QED
  BY <1>1, <1>2, <1>3, <1>4, <1>5 DEF toolSteps, operates

\* Nobody else does.
LEMMA OnlyToolMoves ==
    ASSUME [CallNext]_allVars, ~toolSteps
    PROVE  UNCHANGED <<phase, sent, performed>>
BY DEF CallNext, allVars, toolVars, callAudited, callGivenUp, receive, misdeliver, switchDurability,
   provisionTool

\* An operation that is over stays as it ended.
LEMMA EndStays ==
    ASSUME ToolInv, [CallNext]_allVars, NEW e, e.id \in Ids, EndTold(e)
    PROVE  Told(e, phase', performed')
<1>1. /\ phase \in [Ids -> {"idle", "asking", "performing", "concluded"}]
      /\ performed \in [Ids -> Nat]
  BY DEF ToolInv, ToolTypeOK
<1>2. ASSUME NEW i \in Ids, Moves(i)
      PROVE  phase'[e.id] = phase[e.id] /\ performed'[e.id] = performed[e.id]
  <2>1. i # e.id
    BY <1>2 DEF EndTold, Told, Moves
  <2> QED
    BY <1>1, <1>2, <2>1 DEF Moves, concludes
<1>3. phase'[e.id] = phase[e.id] /\ performed'[e.id] = performed[e.id]
  BY <1>2, ToolMoves, OnlyToolMoves
<1> QED
  BY <1>3 DEF EndTold, Told

\* Phases and performing stay together.
LEMMA PhasesFitStep ==
    ASSUME ToolInv, [CallNext]_allVars, PhasesFit
    PROVE  PhasesFit'
<1>1. /\ phase \in [Ids -> {"idle", "asking", "performing", "concluded"}]
      /\ performed \in [Ids -> Nat] /\ sent \in [Ids -> ToolEvents \cup {Nothing}]
  BY DEF ToolInv, ToolTypeOK
<1>2. CASE UNCHANGED <<phase, sent, performed>>
  BY <1>2 DEF PhasesFit, IsAttempt
<1>3. ASSUME NEW i \in Ids, Moves(i)
      PROVE  PhasesFit'
  <2>1. ASSUME NEW body, sent' = [sent EXCEPT ![i] = stamped(i, "attempted", NoReason, body)]
        PROVE  sent'[i].outcome = "attempted" /\ \A j \in Ids : j # i => sent'[j] = sent[j]
    BY <1>1, <2>1 DEF stamped
  <2> QED
    BY <1>1, <1>3, <2>1 DEF Moves, concludes, PhasesFit, IsAttempt
<1> QED
  BY <1>2, <1>3, ToolMoves, OnlyToolMoves

-----------------------------------------------------------------------------
(***************************************************************************)
(* What is on the connection, and what is sealed of it.                    *)
(***************************************************************************)

\* The outcome an operation concludes with tells how it ended.
LEMMA ConclusionTold ==
    ASSUME ToolInv, PhasesFit, NEW i \in Ids, UNCHANGED performed,
           NEW e, e.id = i, e.outcome \in {"success", "failed", "aborted"},
           IF e.outcome = "aborted" THEN phase[i] = "asking" ELSE phase[i] = "performing",
           phase' = [phase EXCEPT ![i] = "concluded"]
    PROVE  Told(e, phase', performed')
<1>1. phase'[i] = "concluded" /\ performed'[i] = performed[i]
  BY DEF ToolInv, ToolTypeOK
<1>2. performed[i] = IF e.outcome = "aborted" THEN 0 ELSE 1
  BY DEF PhasesFit
<1> QED
  BY <1>1, <1>2 DEF Told, IsAttempt

\* An event is of the body its operation was started with.
BodyFits(e, phases, attempts) == phases[e.id] # "idle" /\ e.body = attempts[e.id].body

\* An outcome on the connection was there before, or tells how the operation that
\* has just ended did.
LEMMA OutcomeSource ==
    ASSUME ToolInv, [CallNext]_allVars, PhasesFit,
           NEW n \in DOMAIN toHost', toHost'[n].method = "audit/outcome"
    PROVE  \/ \E k \in DOMAIN toHost : toHost'[n] = toHost[k]
           \/ /\ Told(toHost'[n].event, phase', performed')
              /\ toHost'[n].event.id \in Ids /\ BodyFits(toHost'[n].event, phase, sent)
<1> DEFINE JustEnded(e) ==
             Told(e, phase', performed') /\ e.id \in Ids /\ BodyFits(e, phase, sent)
<1>1. toHost \in Seq(Messages)
  BY DEF ToolInv, ToolTypeOK
<1> HIDE DEF JustEnded
<1>2. ASSUME NEW m, toHost' = Append(toHost, m)
      PROVE  (\E k \in DOMAIN toHost : toHost'[n] = toHost[k]) \/ toHost'[n] = m
  BY <1>1, <1>2
<1>3. ASSUME NEW m, transmits(m)
      PROVE  (\E k \in DOMAIN toHost : toHost'[n] = toHost[k]) \/ toHost'[n] = m
  BY <1>2, <1>3 DEF transmits
<1>4. ASSUME NEW i \in Ids, NEW outcome \in {"success", "failed", "aborted"}, NEW reason,
             concludes(i, outcome, reason), UNCHANGED performed,
             IF outcome = "aborted" THEN phase[i] = "asking" ELSE phase[i] = "performing"
      PROVE  \/ \E k \in DOMAIN toHost : toHost'[n] = toHost[k]
             \/ JustEnded(toHost'[n].event)
  <2> DEFINE e == stamped(i, outcome, reason, sent[i].body)
  <2>1. e.id = i /\ e.outcome = outcome /\ e.body = sent[i].body
    BY DEF stamped
  <2>2. phase' = [phase EXCEPT ![i] = "concluded"] /\ transmits(OutcomeMessage(e))
    BY <1>4 DEF concludes
  <2> HIDE DEF e
  <2>3. JustEnded(e)
    <3>1. Told(e, phase', performed')
      BY <1>4, <2>1, <2>2, ConclusionTold
    <3> QED
      BY <1>4, <2>1, <3>1 DEF BodyFits, JustEnded
  <2>4. OutcomeMessage(e).event = e
    BY DEF OutcomeMessage
  <2> QED
    BY <1>3, <2>2, <2>3, <2>4
<1>5. ASSUME NEW i \in Ids, NEW e, NEW try, transmits(AttemptMessage(i, e, try))
      PROVE  \E k \in DOMAIN toHost : toHost'[n] = toHost[k]
  <2>1. AttemptMessage(i, e, try).method = "audit/attempt"
    BY DEF AttemptMessage
  <2> QED
    BY <1>3, <1>5, <2>1
<1>6. ASSUME toolSteps
      PROVE  \/ \E k \in DOMAIN toHost : toHost'[n] = toHost[k]
             \/ JustEnded(toHost'[n].event)
  <2>1. ASSUME NEW i \in Ids, NEW body \in Bodies, audited(i, body)
        PROVE  \E k \in DOMAIN toHost : toHost'[n] = toHost[k]
    BY <1>5, <2>1 DEF audited
  <2>2. ASSUME NEW i \in Ids, retry(i)
        PROVE  \E k \in DOMAIN toHost : toHost'[n] = toHost[k]
    BY <1>5, <2>2 DEF retry
  <2>3. ASSUME NEW i \in Ids, NEW reason, phase[i] = "asking", abort(i, reason)
        PROVE  \/ \E k \in DOMAIN toHost : toHost'[n] = toHost[k]
               \/ JustEnded(toHost'[n].event)
    BY <1>4, <2>3 DEF abort
  <2>4. ASSUME NEW i \in Ids, performEnds(i)
        PROVE  \/ \E k \in DOMAIN toHost : toHost'[n] = toHost[k]
               \/ JustEnded(toHost'[n].event)
    <3>1. PICK outcome \in {"success", "failed"} : concludes(i, outcome, NoReason)
      BY <2>4 DEF performEnds
    <3>2. phase[i] = "performing" /\ UNCHANGED performed /\ outcome # "aborted"
      BY <2>4 DEF performEnds
    <3> QED
      BY <1>4, <3>1, <3>2
  <2>5. ASSUME NEW s \in Sessions, respond(s)
        PROVE  \E k \in DOMAIN toHost : toHost'[n] = toHost[k]
    <3>1. toHost' = Append(toHost, ResultMessage(s)) /\ ResultMessage(s).method = "result"
      BY <2>5 DEF respond, ResultMessage
    <3> QED
      BY <1>2, <3>1
  <2>6. ASSUME UNCHANGED toHost
        PROVE  \E k \in DOMAIN toHost : toHost'[n] = toHost[k]
    BY <2>6
  <2> QED
    BY <1>6, <2>1, <2>2, <2>3, <2>4, <2>5, <2>6
       DEF toolSteps, operates, unanswered, answered
<1>7. CASE ~toolSteps
  <2>1. toHost' = toHost \/ (toHost # << >> /\ toHost' = Tail(toHost))
    BY <1>7 DEF CallNext, allVars, toolVars, callAudited, callGivenUp, receive, misdeliver,
       switchDurability, provisionTool
  <2>2. CASE toHost' = toHost
    BY <2>2
  <2>3. CASE toHost # << >> /\ toHost' = Tail(toHost)
    <3>1. n \in 1..(Len(toHost) - 1) /\ toHost'[n] = toHost[n + 1] /\ n + 1 \in DOMAIN toHost
      BY <1>1, <2>3
    <3> QED
      BY <3>1
  <2> QED
    BY <2>1, <2>2, <2>3
<1> QED
  BY <1>6, <1>7 DEF JustEnded

\* The host seals nothing but the event it takes off the connection.
LEMMA LedgerStep ==
    ASSUME TypeOK, ToolInv, [CallNext]_allVars
    PROVE  \/ UNCHANGED ledger
           \/ LET m == Head(toHost) IN
              /\ receive /\ toHost # << >> /\ m.method \in {"audit/attempt", "audit/outcome"}
              /\ m.event \in Events /\ m.event \in ToolEvents
              /\ Seals(m.event) /\ UNCHANGED <<phase, sent, performed>>
<1> DEFINE m == Head(toHost)
<1>1. CASE receive /\ m.method \in {"audit/attempt", "audit/outcome"}
  <2>1. /\ toHost # << >> /\ UNCHANGED <<phase, sent, performed>>
        /\ handleAttempt(m.event, inFlight) \/ handleOutcome(m.event, inFlight)
    BY <1>1 DEF receive, receiveAttempt, receiveOutcome, receiveResult
  <2>2. m.event \in Events /\ m.event \in ToolEvents
    BY <1>1, <2>1, ReceivedEvent
  <2> HIDE DEF m
  <2>3. Seals(m.event) \/ SealsNothing
    BY <2>1, <2>2, AttemptKind, OutcomeKind
  <2> QED
    BY <1>1, <2>1, <2>2, <2>3 DEF SealsNothing, m
<1>2. CASE receive /\ m.method \notin {"audit/attempt", "audit/outcome"}
  <2>1. receiveResult(m)
    BY <1>2 DEF receive, receiveAttempt, receiveOutcome
  <2> QED
    BY <2>1 DEF receiveResult, endCall, closeSession, sealVars, vars
<1>3. CASE ~receive
  BY <1>3 DEF CallNext, allVars, vars, callAudited, openSession, callGivenUp, endCall, closeSession,
     toolSteps, misdeliver, switchDurability, provisionTool, setUnavailable, sealVars
<1> QED
  BY <1>1, <1>2, <1>3

-----------------------------------------------------------------------------
(***************************************************************************)
(* The ledger tells the truth.                                             *)
(***************************************************************************)

\* What one record says of the honest tool.
RecordTold(e, attempts, phases, performances) ==
    IF IsAttempt(e) THEN e = attempts[e.id] ELSE Told(e, phases, performances)

\* The record that tells the truth now tells it ever after.
LEMMA RecordToldStays ==
    ASSUME ToolInv, [CallNext]_allVars, NEW e \in ToolEvents,
           RecordTold(e, sent, phase, performed)
    PROVE  RecordTold(e, sent', phase', performed')
<1>1. e.id \in Ids /\ e # Nothing
  BY ToolEventFields, NothingAssumption
<1>2. CASE IsAttempt(e)
  <2>1. phase[e.id] # "idle"
    BY <1>1, <1>2 DEF ToolInv, RecordTold
  <2> QED
    BY <1>1, <1>2, <2>1, AttemptStays DEF RecordTold
<1>3. CASE ~IsAttempt(e)
  BY <1>1, <1>3, EndStays DEF RecordTold, EndTold
<1> QED
  BY <1>2, <1>3

\* RecordTellsTruth, record by record.
LEMMA TruthByRecord ==
    ASSUME RecordsAreTools
    PROVE  RecordTellsTruth <=>
             \A n \in DOMAIN ledger : RecordTold(ledger[n].event, sent, phase, performed)
<1>1. \A n \in DOMAIN ledger : ledger[n].event.outcome \in Outcomes
  BY DEF RecordsAreTools, ToolEvents
<1> QED
  BY <1>1 DEF RecordTellsTruth, RecordTold, Told, IsAttempt, Outcomes

\* An event the host takes off the connection tells the truth.
LEMMA ReceivedTold ==
    ASSUME ToolInv, PhasesFit, OutcomesTold, toHost # << >>,
           Head(toHost).method \in {"audit/attempt", "audit/outcome"}
    PROVE  RecordTold(Head(toHost).event, sent, phase, performed)
<1> DEFINE m == Head(toHost)
<1>1. /\ m.event \in ToolEvents /\ m.event.id \in Ids /\ m.event # Nothing
      /\ m.method = "audit/attempt" => m.event = sent[m.event.id]
  BY ReceivedEvent, ToolEventFields, NothingAssumption
<1>2. 1 \in DOMAIN toHost /\ m = toHost[1]
  BY DEF ToolInv, ToolTypeOK
<1> HIDE DEF m
<1>3. CASE m.method = "audit/attempt"
  <2>1. phase[m.event.id] # "idle"
    BY <1>1, <1>3 DEF ToolInv
  <2>2. IsAttempt(m.event)
    BY <1>1, <1>3, <2>1 DEF PhasesFit
  <2> QED
    BY <1>1, <1>3, <2>2 DEF RecordTold, m
<1>4. CASE m.method = "audit/outcome"
  <2>1. Told(m.event, phase, performed)
    BY <1>2, <1>4 DEF OutcomesTold, EndTold
  <2> QED
    BY <2>1 DEF RecordTold, Told, m
<1> QED
  BY <1>3, <1>4 DEF m

\* Every step keeps records and outcomes true.
LEMMA TruthStep ==
    ASSUME TypeOK, ToolInv, [CallNext]_allVars, TruthInv
    PROVE  TruthInv'
<1>1. PhasesFit'
  BY PhasesFitStep DEF TruthInv
<1>2. OutcomesTold'
  <2> SUFFICES ASSUME NEW n \in DOMAIN toHost', toHost'[n].method = "audit/outcome"
               PROVE  Told(toHost'[n].event, phase', performed')
    BY DEF OutcomesTold, EndTold, Told, IsAttempt
  <2>1. ASSUME NEW k \in DOMAIN toHost, toHost'[n] = toHost[k]
        PROVE  Told(toHost'[n].event, phase', performed')
    <3>1. toHost[k] \in Messages /\ EndTold(toHost[k].event)
      BY <2>1 DEF ToolInv, ToolTypeOK, TruthInv, OutcomesTold
    <3>2. toHost[k].event.id \in Ids
      BY <2>1, <3>1, ToolEventFields DEF Messages
    <3> QED
      BY <2>1, <3>1, <3>2, EndStays
  <2> QED
    BY <2>1, OutcomeSource DEF TruthInv
<1>3. /\ RecordsAreTools'
      /\ \A n \in DOMAIN ledger' : RecordTold(ledger'[n].event, sent', phase', performed')
  <2>1. \A n \in DOMAIN ledger : /\ ledger[n].event \in ToolEvents
                                /\ RecordTold(ledger[n].event, sent, phase, performed)
    BY TruthByRecord DEF TruthInv, RecordsAreTools
  <2>2. \A n \in DOMAIN ledger : RecordTold(ledger[n].event, sent', phase', performed')
    BY <2>1, RecordToldStays
  <2>3. CASE UNCHANGED ledger
    BY <2>1, <2>2, <2>3 DEF RecordsAreTools
  <2>4. CASE ~UNCHANGED ledger
    <3> DEFINE e == Head(toHost).event
    <3>1. /\ toHost # << >> /\ Head(toHost).method \in {"audit/attempt", "audit/outcome"}
          /\ e \in Events /\ e \in ToolEvents /\ Seals(e)
      BY <2>4, LedgerStep
    <3>2. RecordTold(e, sent, phase, performed)
      BY <3>1, ReceivedTold DEF TruthInv
    <3> HIDE DEF e
    <3>3. RecordTold(e, sent', phase', performed')
      BY <3>1, <3>2, RecordToldStays
    <3>4. \A n \in DOMAIN ledger' :
             (n \in DOMAIN ledger /\ ledger'[n] = ledger[n]) \/ ledger'[n].event = e
      BY <3>1, SealsAppends
    <3> QED
      BY <2>1, <2>2, <3>1, <3>3, <3>4 DEF RecordsAreTools
  <2> QED
    BY <2>3, <2>4
<1>4. RecordTellsTruth'
  <2>1. \A n \in DOMAIN ledger' : ledger'[n].event.outcome \in Outcomes
    BY <1>3 DEF RecordsAreTools, ToolEvents
  <2> QED
    BY <1>3, <2>1 DEF RecordTellsTruth, RecordTold, Told, IsAttempt, Outcomes
<1> QED
  BY <1>1, <1>2, <1>3, <1>4 DEF TruthInv

\* They are true of every call.
LEMMA TruthInvariant == CallSpec => [](TypeOK /\ ToolInv /\ CallVarsOK /\ TruthInv)
<1>1. CallInit => TruthInv
  BY DEF CallInit, InitWith, ToolInit, TruthInv, PhasesFit, OutcomesTold, RecordsAreTools,
     RecordTellsTruth
<1>2. TypeOK /\ ToolInv /\ CallVarsOK /\ TruthInv /\ [CallNext]_allVars
      => TypeOK' /\ ToolInv' /\ CallVarsOK' /\ TruthInv'
  BY CallStep, TruthStep
<1> QED
  BY <1>1, <1>2, CallInitOK, PTL DEF CallSpec

\* The ledger tells the truth about an honest tool, whatever is lost, repeated,
\* late or misdelivered, and whether or not the call was given up.
THEOREM TruthTheorem == CallSpec => []RecordTellsTruth
BY TruthInvariant, PTL DEF TruthInv

-----------------------------------------------------------------------------
(***************************************************************************)
(* The exchange implements AuditedOperations.                              *)
(***************************************************************************)

\* What is known before and after every step.
KnownInv ==
    /\ TypeOK /\ ToolInv /\ CallVarsOK /\ TruthInv
    /\ OneAttemptPerId /\ OneTerminalRecord /\ NoAttemptAfterTerminal /\ OutcomeHasAttempt
    /\ PerformedIsSealed

\* Where no record is added, the record of no operation changes.
LEMMA RecordSame ==
    ASSUME UNCHANGED ledger
    PROVE  recordOf' = recordOf
BY DEF recordOf, entryOf, IsAttempt

\* What was done is what the phases and the counts say.
LEMMA ActSame ==
    ASSUME UNCHANGED <<phase, performed>>
    PROVE  actOf' = actOf
BY DEF actOf

\* What the tool does with one operation is one of the abstract actions, or is
\* not to be seen.
LEMMA MoveImplements ==
    ASSUME KnownInv, KnownInv', NEW i \in Ids, Moves(i), UNCHANGED vars
    PROVE  [Operations!Next]_(Operations!operationVars)
<1>1. /\ phase \in [Ids -> {"idle", "asking", "performing", "concluded"}]
      /\ performed \in [Ids -> Nat]
  BY DEF KnownInv, ToolInv, ToolTypeOK
<1>2. UNCHANGED <<sessions, issued, ledger>> /\ recordOf' = recordOf
  BY RecordSame DEF vars
<1>3. /\ phase[i] \in {"idle", "asking"} => performed[i] = 0
      /\ phase[i] = "performing" => performed[i] = 1
  BY DEF KnownInv, TruthInv, PhasesFit
<1>4. CASE phase[i] = "idle"
  <2>1. actOf' = actOf
    BY <1>1, <1>4 DEF Moves, actOf
  <2> QED
    BY <1>2, <2>1 DEF Operations!operationVars
<1>5. CASE phase[i] = "asking" /\ phase' = [phase EXCEPT ![i] = "performing"]
  <2>1. /\ performed' = [performed EXCEPT ![i] = @ + 1] /\ sent' = sent
    BY <1>1, <1>5 DEF Moves, concludes
  <2>2. actOf[i] = "undecided" /\ actOf' = [actOf EXCEPT ![i] = "running"]
    BY <1>1, <1>5, <2>1 DEF actOf
  <2>3. PICK n \in DOMAIN ledger : ledger[n].event = sent[i]
    <3>1. performed'[i] > 0
      BY <1>1, <2>1
    <3> QED
      BY <1>2, <2>1, <3>1 DEF KnownInv, PerformedIsSealed
  <2>4. IsAttempt(ledger[n].event) /\ ledger[n].event.id = i
    BY <1>5, <2>3 DEF KnownInv, ToolInv, ToolTypeOK, TruthInv, PhasesFit
  <2>5. "attempt" \in recordOf[i]
    BY <2>4 DEF recordOf, entryOf
  <2> QED
    BY <1>2, <2>2, <2>5 DEF Operations!Next, Operations!Perform, Operations!Becomes
<1>6. CASE phase[i] = "asking" /\ phase' = [phase EXCEPT ![i] = "concluded"] /\ UNCHANGED performed
  <2>1. actOf[i] = "undecided" /\ actOf' = [actOf EXCEPT ![i] = "refused"]
    BY <1>1, <1>3, <1>6 DEF actOf
  <2> QED
    BY <1>2, <2>1 DEF Operations!Next, Operations!Refuse, Operations!Becomes
<1>7. CASE phase[i] = "performing"
  <2>1. phase' = [phase EXCEPT ![i] = "concluded"] /\ UNCHANGED performed
    BY <1>7 DEF Moves, concludes
  <2>2. \A j \in Ids : phase'[j] = IF j = i THEN "concluded" ELSE phase[j]
    BY <1>1, <2>1
  <2>3. performed'[i] = 1 /\ \A j \in Ids : performed'[j] = performed[j]
    BY <1>3, <1>7, <2>1
  <2>4. /\ actOf[i] = "running" /\ actOf'[i] = "done"
        /\ \A j \in Ids : j # i => actOf'[j] = actOf[j]
    BY <1>7, <2>2, <2>3 DEF actOf
  <2>5. actOf' = [actOf EXCEPT ![i] = "done"]
    BY <2>4 DEF actOf
  <2> QED
    BY <1>2, <2>4, <2>5 DEF Operations!Next, Operations!Finish, Operations!Becomes
<1> QED
  BY <1>4, <1>5, <1>6, <1>7 DEF Moves, concludes

\* A record that is sealed enters the operation's record as it should.
LEMMA SealImplements ==
    ASSUME KnownInv, KnownInv', [CallNext]_allVars, ~UNCHANGED ledger
    PROVE  [Operations!Next]_(Operations!operationVars)
<1> DEFINE e == Head(toHost).event
           n == Len(ledger) + 1
<1>1. /\ toHost # << >> /\ Head(toHost).method \in {"audit/attempt", "audit/outcome"}
      /\ e \in Events /\ e \in ToolEvents /\ Seals(e)
      /\ UNCHANGED <<phase, sent, performed>>
  BY LedgerStep DEF KnownInv
<1>2. RecordTold(e, sent, phase, performed)
  BY <1>1, ReceivedTold DEF KnownInv, TruthInv
<1> HIDE DEF e
<1>3. /\ n \notin DOMAIN ledger /\ DOMAIN ledger' = DOMAIN ledger \cup {n}
      /\ \A m \in DOMAIN ledger : m \in Nat /\ m < n /\ ledger'[m] = ledger[m]
      /\ n \in Nat /\ ledger'[n].event = e
      /\ AttemptRecords' = IF IsAttempt(e) THEN AttemptRecords \cup {n} ELSE AttemptRecords
      /\ TerminalRecords' = IF IsAttempt(e) THEN TerminalRecords ELSE TerminalRecords \cup {n}
  BY <1>1, SealsAppends DEF KnownInv
<1> HIDE DEF n
<1>4. /\ e.id \in Ids /\ e.session_id = SessionOf[e.id] /\ e.outcome \in Outcomes
      /\ SessionOf[e.id] \in sessions
      /\ UNCHANGED <<sessions, issued>> /\ actOf' = actOf
  BY <1>1, ToolEventFields, ActSame DEF Seals, ToolEvents
<1>5. recordOf' = [recordOf EXCEPT ![e.id] = @ \cup {entryOf(e)}]
  <2>1. ASSUME NEW i \in Ids
        PROVE  recordOf'[i] = IF i = e.id THEN recordOf[i] \cup {entryOf(e)} ELSE recordOf[i]
    <3>1. {m \in DOMAIN ledger' : ledger'[m].event.id = i}
            = {m \in DOMAIN ledger : ledger[m].event.id = i} \cup (IF i = e.id THEN {n} ELSE {})
      BY <1>3
    <3>2. \A m \in DOMAIN ledger : entryOf(ledger'[m].event) = entryOf(ledger[m].event)
      BY <1>3
    <3>3. recordOf'[i] = {entryOf(ledger'[m].event) :
                            m \in {k \in DOMAIN ledger' : ledger'[k].event.id = i}}
      BY DEF recordOf, entryOf, IsAttempt
    <3>4. recordOf[i] = {entryOf(ledger[m].event) :
                            m \in {k \in DOMAIN ledger : ledger[k].event.id = i}}
      BY DEF recordOf
    <3> QED
      BY <1>3, <3>1, <3>2, <3>3, <3>4
  <2> QED
    BY <1>4, <2>1 DEF recordOf
<1>6. ASSUME NEW m \in DOMAIN ledger, ledger[m].event.id = e.id
      PROVE  /\ SameOperation(ledger'[m].event, ledger'[n].event)
             /\ m # n /\ m < n /\ ~(n < m) /\ ledger'[m] = ledger[m]
             /\ ledger[m].event.outcome \in Outcomes
             /\ m \in AttemptRecords' \/ m \in TerminalRecords'
  <2>1. ledger[m].event \in ToolEvents
    BY DEF KnownInv, TruthInv, RecordsAreTools
  <2>2. ledger[m].event.session_id = SessionOf[e.id] /\ ledger[m].event.outcome \in Outcomes
    BY <1>6, <2>1, ToolEventFields DEF ToolEvents
  <2>3. ledger'[m] = ledger[m] /\ m \in DOMAIN ledger' /\ m \in Nat /\ m < n /\ n \in Nat
    BY <1>3
  <2>4. m \in AttemptRecords' \/ m \in TerminalRecords'
    BY <2>3 DEF AttemptRecords, TerminalRecords, IsAttempt
  <2>5. SameOperation(ledger'[m].event, ledger'[n].event)
    BY <1>3, <1>4, <1>6, <2>2, <2>3 DEF SameOperation
  <2> QED
    BY <2>2, <2>3, <2>4, <2>5
<1>7. CASE IsAttempt(e)
  <2>1. n \in AttemptRecords'
    BY <1>3, <1>7
  <2>2. \A m \in DOMAIN ledger : ledger[m].event.id # e.id
    <3> SUFFICES ASSUME NEW m \in DOMAIN ledger, ledger[m].event.id = e.id PROVE FALSE
      OBVIOUS
    <3>1. ledger'[m].event.id = ledger'[n].event.id
      BY <1>3
    <3>2. m \notin AttemptRecords'
      BY <1>6, <2>1, <3>1 DEF KnownInv, OneAttemptPerId
    <3>3. m \notin TerminalRecords'
      <4>1. SameOperation(ledger'[n].event, ledger'[m].event)
        BY <1>6 DEF SameOperation
      <4> QED
        BY <1>6, <2>1, <4>1 DEF KnownInv, NoAttemptAfterTerminal
    <3> QED
      BY <1>6, <3>2, <3>3
  <2>3. recordOf[e.id] = {} /\ entryOf(e) = "attempt"
    BY <1>4, <1>7, <2>2 DEF recordOf, entryOf
  <2> QED
    BY <1>4, <1>5, <2>3 DEF Operations!Next, Operations!EnterAttempt, Operations!Enters
<1>8. CASE ~IsAttempt(e)
  <2>1. n \in TerminalRecords'
    BY <1>3, <1>8
  <2>2. \A m \in DOMAIN ledger : ledger[m].event.id = e.id => m \in AttemptRecords'
    BY <1>6, <2>1 DEF KnownInv, OneTerminalRecord
  <2>3. \A m \in DOMAIN ledger : ledger[m].event.id = e.id => IsAttempt(ledger[m].event)
    BY <1>3, <1>8, <2>2 DEF AttemptRecords
  <2>4. recordOf[e.id] \subseteq {"attempt"}
    BY <1>4, <2>3 DEF recordOf, entryOf
  <2>5. /\ entryOf(e) = IF e.outcome = "aborted" THEN "refused" ELSE "done"
        /\ e.outcome \in {"success", "failed", "aborted"}
    BY <1>4, <1>8 DEF entryOf, IsAttempt, Outcomes
  <2>6. entryOf(e) = actOf[e.id]
    BY <1>2, <1>4, <1>8, <2>5 DEF RecordTold, Told, actOf
  <2>7. ASSUME entryOf(e) = "done"
        PROVE  "attempt" \in recordOf[e.id]
    <3>1. ledger'[n].event.outcome \in {"success", "failed"}
      BY <1>3, <2>5, <2>7
    <3>2. PICK m \in AttemptRecords' : m < n /\ SameOperation(ledger'[m].event, ledger'[n].event)
      BY <1>3, <3>1 DEF KnownInv, OutcomeHasAttempt
    <3>3. m \in DOMAIN ledger /\ IsAttempt(ledger[m].event)
      BY <1>3, <1>8, <3>2 DEF AttemptRecords
    <3>4. ledger[m].event.id = e.id
      BY <1>3, <3>2, <3>3 DEF SameOperation
    <3> QED
      BY <1>4, <3>3, <3>4 DEF recordOf, entryOf
  <2> QED
    BY <1>4, <1>5, <2>4, <2>5, <2>6, <2>7
       DEF Operations!Next, Operations!EnterEnd, Operations!Enters
<1> QED
  BY <1>7, <1>8

\* A session begins, or ends.
LEMMA SessionImplements ==
    ASSUME KnownInv, NEW s \in Sessions, UNCHANGED <<phase, performed, ledger>>,
           openSession(s) \/ closeSession(s)
    PROVE  [Operations!Next]_(Operations!operationVars)
<1>1. actOf' = actOf /\ recordOf' = recordOf /\ sessions \subseteq issued
  BY ActSame, RecordSame DEF KnownInv, TypeOK, SessionsOK
<1>2. CASE openSession(s)
  <2>1. /\ s \notin issued /\ sessions' = sessions \cup {s}
        /\ issued' \ sessions' = issued \ sessions
    BY <1>1, <1>2 DEF openSession
  <2> QED
    BY <1>1, <2>1 DEF Operations!Next, Operations!Begin
<1>3. CASE closeSession(s)
  <2>1. /\ s \in sessions /\ sessions' = sessions \ {s}
        /\ issued' \ sessions' = (issued \ sessions) \cup {s}
    BY <1>1, <1>3 DEF closeSession, forgetSession
  <2> QED
    BY <1>1, <2>1 DEF Operations!Next, Operations!End
<1> QED
  BY <1>2, <1>3

\* Every step of the exchange is a step of the abstract specification, or is not
\* to be seen.
LEMMA StepImplements ==
    ASSUME KnownInv, KnownInv', [CallNext]_allVars
    PROVE  [Operations!Next]_(Operations!operationVars)
<1>1. CASE ~UNCHANGED ledger
  BY <1>1, SealImplements
<1>2. CASE UNCHANGED <<ledger, sessions, issued, phase, performed>>
  <2>1. actOf' = actOf /\ recordOf' = recordOf
    BY <1>2, ActSame, RecordSame
  <2> QED
    BY <1>2, <2>1 DEF Operations!operationVars
<1>3. CASE toolSteps
  <2>1. UNCHANGED vars /\ UNCHANGED <<ledger, sessions, issued>>
    BY <1>3 DEF toolSteps, vars
  <2>2. (\E i \in Ids : Moves(i)) \/ UNCHANGED <<phase, sent, performed>>
    BY <1>3, ToolMoves DEF KnownInv
  <2> QED
    BY <1>2, <2>1, <2>2, MoveImplements
<1>4. CASE ~toolSteps /\ UNCHANGED ledger
  <2>1. UNCHANGED <<phase, performed>>
    BY <1>4, OnlyToolMoves
  <2>2. ASSUME NEW s \in Sessions, callAudited(s)
        PROVE  openSession(s)
    BY <2>2 DEF callAudited
  <2>3. ASSUME NEW s \in Sessions, callGivenUp(s)
        PROVE  closeSession(s)
    BY <2>3 DEF callGivenUp, endCall
  <2>4. CASE receive /\ receiveResult(Head(toHost))
    <3>1. Head(toHost) \in Messages
      BY <2>4 DEF receive, KnownInv, ToolInv, ToolTypeOK
    <3>2. Head(toHost).session \in Sessions
      BY <2>4, <3>1 DEF receiveResult, Messages
    <3>3. closeSession(Head(toHost).session) \/ UNCHANGED <<sessions, issued>>
      BY <2>4 DEF receiveResult, endCall, vars
    <3> QED
      BY <1>2, <1>4, <2>1, <3>2, <3>3, SessionImplements
  <2>5. CASE receive /\ ~receiveResult(Head(toHost))
    <3>1. UNCHANGED <<sessions, issued>>
      BY <2>5, HandlersKeepSessions DEF receive, receiveAttempt, receiveOutcome
    <3> QED
      BY <1>2, <1>4, <2>1, <3>1
  <2>6. CASE UNCHANGED allVars \/ (\E i \in Ids : misdeliver(i)) \/ switchDurability
          \/ provisionTool
    <3>1. UNCHANGED <<sessions, issued>>
      BY <2>6 DEF allVars, vars, misdeliver, switchDurability,
         provisionTool, setUnavailable, sessionVars
    <3> QED
      BY <1>2, <1>4, <2>1, <3>1
  <2> QED
    BY <1>4, <2>1, <2>2, <2>3, <2>4, <2>5, <2>6, SessionImplements DEF CallNext
<1> QED
  BY <1>1, <1>3, <1>4

\* The exchange implements the promise, provided that no answer is replaced on its
\* way or that the tool recomputes the record hash.
THEOREM RefinementTheorem ==
    ASSUME MaxMisdelivered = 0 \/ Signs \/ RequireCountersign
    PROVE  CallSpec => AuditBeforeAct
<1>1. CallInit => Operations!Init
  BY DEF CallInit, InitWith, ToolInit, Operations!Init, actOf, recordOf
<1>2. KnownInv /\ KnownInv' /\ [CallNext]_allVars => [Operations!Next]_(Operations!operationVars)
  BY StepImplements
<1>3. CallSpec => []KnownInv
  <2>1. CallSpec => [](OneAttemptPerId /\ OneTerminalRecord /\ NoAttemptAfterTerminal
                         /\ OutcomeHasAttempt)
    BY CallImplementsHost, PairingTheorem, PTL
  <2> QED
    BY <2>1, TruthInvariant, PerformedTheorem, PTL DEF KnownInv
<1> QED
  BY <1>1, <1>2, <1>3, PTL DEF CallSpec, AuditBeforeAct, Operations!Spec

-----------------------------------------------------------------------------
(***************************************************************************)
(* What the host answers passes the tool's checks.                         *)
(***************************************************************************)

\* With no answer replaced, an accept at the tool is, field by field, the record
\* of the attempt it answers.
AnswersAreRecords ==
    misdelivered = 0 =>
      \A i \in Ids :
         toTool[i] # Nothing =>
           /\ phase[i] # "idle"
           /\ toTool[i].status = "accept" =>
                \E n \in DOMAIN ledger : ledger[n].event = sent[i] /\ toTool[i] = Accept(ledger[n])

\* The answers that wait stay those of records.
LEMMA AnswersStayRecords ==
    ASSUME TypeOK, ToolInv, CallVarsOK, AcceptIsRecord', [CallNext]_allVars, AnswersAreRecords
    PROVE  AnswersAreRecords'
<1> SUFFICES ASSUME misdelivered' = 0, NEW i \in Ids, toTool'[i] # Nothing
             PROVE  /\ phase'[i] # "idle"
                    /\ toTool'[i].status = "accept" =>
                         \E n \in DOMAIN ledger' :
                            ledger'[n].event = sent'[i] /\ toTool'[i] = Accept(ledger'[n])
  BY DEF AnswersAreRecords, Accept
<1>1. misdelivered = 0
  BY MisdeliveredCounts
<1>2. CASE toTool'[i] = toTool[i]
  <2>1. phase[i] # "idle" /\ phase'[i] # "idle" /\ sent'[i] = sent[i]
    BY <1>1, <1>2, AttemptStays DEF AnswersAreRecords
  <2>2. ASSUME NEW n \in DOMAIN ledger
        PROVE  n \in DOMAIN ledger' /\ ledger'[n] = ledger[n]
    BY HostStep, RecordsStay
  <2> QED
    BY <1>1, <1>2, <2>1, <2>2 DEF AnswersAreRecords
<1>3. ASSUME phase[i] = "asking", NEW a \in answer', a.event = sent[i], a.response = toTool'[i]
      PROVE  /\ phase'[i] # "idle"
             /\ toTool'[i].status = "accept" =>
                  \E n \in DOMAIN ledger' :
                     ledger'[n].event = sent'[i] /\ toTool'[i] = Accept(ledger'[n])
  <2>1. phase'[i] # "idle" /\ sent'[i] = sent[i]
    BY <1>3, AttemptStays
  <2>2. ASSUME a.response.status = "accept"
        PROVE  \E n \in DOMAIN ledger' :
                  ledger'[n].event = a.event /\ a.response = Accept(ledger'[n])
    BY <1>3, <2>2 DEF AcceptIsRecord, Accept
  <2> QED
    BY <1>3, <2>1, <2>2
<1> QED
  BY <1>1, <1>2, <1>3, AnswerSource

\* This is invariant.
LEMMA AnswersRecorded == CallSpec => []AnswersAreRecords
<1>1. CallInit => AnswersAreRecords
  BY DEF CallInit, ToolInit, AnswersAreRecords
<1>2. /\ TypeOK /\ ToolInv /\ CallVarsOK /\ AcceptIsRecord' /\ AnswersAreRecords
      /\ [CallNext]_allVars
      => AnswersAreRecords'
  BY AnswersStayRecords
<1>3. CallSpec => [](TypeOK /\ ToolInv /\ CallVarsOK)
  BY TruthInvariant, PTL
<1>4. CallSpec => []AcceptIsRecord
  BY CallImplementsHost, AcceptRecorded, PTL
<1> QED
  BY <1>1, <1>2, <1>3, <1>4, PTL DEF CallSpec

\* Unless an answer is replaced on its way, nothing is aborted for want of a
\* countersignature or for another record's hash, and an accept of the host, the first
\* or a repeat, is refused as invalidly countersigned exactly when it is countersigned
\* and the tool's registry does not hold the host's key, registered and not revoked, at
\* the moment the tool checks.
THEOREM AnswersTheorem == CallSpec => []AnswersVerify
<1>1. TypeOK /\ ToolInv /\ CallVarsOK /\ AnswersAreRecords /\ ChainHolds /\ RecordsCountersigned
      => AnswersVerify
  <2> DEFINE trusted == hostRegistry[HostKeyId] = [publicKey |-> HostKey, revoked |-> FALSE]
  <2> SUFFICES ASSUME TypeOK, ToolInv, CallVarsOK, AnswersAreRecords, ChainHolds,
                      RecordsCountersigned, misdelivered = 0,
                      NEW i \in Ids, toTool[i] # Nothing
               PROVE  /\ AbortReason(i, toTool[i]) \notin {"host-uncountersigned", "hash-mismatch"}
                      /\ AbortReason(i, toTool[i]) = "host-signature-invalid" <=>
                           /\ toTool[i].status = "accept"
                           /\ Countersigns /\ Verifies
                           /\ ~trusted
    BY DEF AnswersVerify
  <2> DEFINE r == toTool[i]
  <2>1. r.status \in {"accept", "reject", "unavailable"}
    BY DEF ToolInv, ToolTypeOK, Responses
  <2>2. CASE r.status # "accept"
    BY <2>1, <2>2 DEF AbortReason
  <2>3. CASE r.status = "accept"
    <3>1. PICK n \in DOMAIN ledger : ledger[n].event = sent[i] /\ r = Accept(ledger[n])
      BY <2>3 DEF AnswersAreRecords
    <3>2. /\ r.seq = ledger[n].seq /\ r.host_ts = ledger[n].host_ts
          /\ r.previous_hash = ledger[n].previous_hash /\ r.record_hash = ledger[n].record_hash
          /\ r.host_signature = ledger[n].host_signature
      BY <3>1 DEF Accept
    <3> HIDE DEF r
    <3>3. r.host_signature =
            IF Countersigns
            THEN {countersignaturePayload(r.seq, r.host_ts, r.previous_hash, r.record_hash)}
            ELSE {}
      BY <3>2 DEF RecordsCountersigned
    <3>4. ~Uncountersigned(r)
      BY <3>3, CallAssumption DEF Uncountersigned
    <3>5. CountersignatureInvalid(r) <=> Countersigns /\ Verifies /\ ~trusted
      BY <3>3, TrustedHostKey DEF CountersignatureInvalid, countersignatureVerifies, CallVarsOK
    <3>6. ~Polluted(i, r)
      BY <3>1, <3>2 DEF Polluted, ChainHolds
    <3> HIDE DEF trusted
    <3> QED
      BY <2>3, <3>4, <3>5, <3>6 DEF AbortReason, NoReason, r
  <2> QED
    BY <2>2, <2>3
<1>2. CallSpec => [](TypeOK /\ ToolInv /\ CallVarsOK)
  BY TruthInvariant, PTL
<1>3. CallSpec => []ChainHolds /\ []RecordsCountersigned
  BY CallImplementsHost, ChainTheorem, CountersignCorrect, PTL
<1> QED
  BY <1>1, <1>2, <1>3, AnswersRecorded, PTL

-----------------------------------------------------------------------------
(***************************************************************************)
(* The host flags an honest tool only with a cause.                        *)
(*                                                                         *)
(* What the host may find wrong with an event depends on what the event    *)
(* meets on arrival, and it may have been sent long before.  The invariant *)
(* therefore says of the connection what the host will be able to say of   *)
(* its events one by one: their sessions are open or given up (CallsFit),  *)
(* nothing of an operation follows its outcome (OutcomeIsLast), no two     *)
(* events share a number (NumbersTell), the numbers come without a gap     *)
(* unless one was lost (NumbersInOrder), and the outcome of an operation   *)
(* that is over is still to come unless there is a cause (EndReported).    *)
(***************************************************************************)

IsEvent(m) == m.method # "result"

LossIn(s) == \E e \in lost : e.session_id = s

\* The registry holds the tool's key and nothing happens to it.
RegistryFixed == registry = register(emptyRegistry, ToolKeyId, ToolKey)

\* A session is open while its call is served, or was given up; what is sent in it
\* is sent before the result; and it starts with an unused counter.
CallsFit ==
    /\ \A i \in Ids : phase[i] \in {"asking", "performing"} => SessionOf[i] \in calls
    /\ \A s \in calls : s \in sessions \cup givenUp
    /\ \A s \in Sessions \ issued : nextSeq[s] = 0
    /\ \A n \in DOMAIN toHost :
          IF IsEvent(toHost[n])
          THEN toHost[n].event.session_id \in sessions \cup givenUp
          ELSE toHost[n].session \in issued \ calls
    /\ \A n, m \in DOMAIN toHost :
          ~IsEvent(toHost[n]) /\ IsEvent(toHost[m]) /\ n < m
            => toHost[m].event.session_id # toHost[n].session

\* The outcome is the last event of its operation, on the connection and once it
\* is sealed.
OutcomeIsLast ==
    /\ \A n, m \in DOMAIN toHost :
          toHost[n].method = "audit/outcome" /\ IsEvent(toHost[m]) /\ n < m
            => toHost[m].event.id # toHost[n].event.id
    /\ \A k \in TerminalRecords, m \in DOMAIN toHost :
          IsEvent(toHost[m]) => toHost[m].event.id # ledger[k].event.id

\* The events of operations that have begun, under way or sealed.
Built ==
         {sent[i] : i \in {j \in Ids : phase[j] # "idle"}}
    \cup {toHost[n].event : n \in {m \in DOMAIN toHost : IsEvent(toHost[m])}}
    \cup {ledger[n].event : n \in DOMAIN ledger}

\* The number of an event tells it apart in its session.
NumbersTell ==
    Signs =>
      /\ \A e \in Built : e.signer_seq < nextSeq[e.session_id]
      /\ \A e, f \in Built : e.session_id = f.session_id /\ e.signer_seq = f.signer_seq => e = f

\* A number of a session is received before position n of the connection.
Precedes(v, s, n, queue, highest) ==
    \/ v <= highest[s][ToolKeyId]
    \/ \E m \in DOMAIN queue :
          /\ m < n /\ IsEvent(queue[m])
          /\ queue[m].event.session_id = s /\ queue[m].event.signer_seq = v

\* An event comes after all those of its session with lower numbers.
InOrder(s, next, queue, highest) ==
    /\ \A v \in Nat : v < next[s] => Precedes(v, s, Len(queue) + 1, queue, highest)
    /\ \A n \in DOMAIN queue, v \in Nat :
          /\ IsEvent(queue[n]) /\ queue[n].event.session_id = s
          /\ v < queue[n].event.signer_seq
          => Precedes(v, s, n, queue, highest)

NumbersInOrder ==
    Level = "L2" => \A s \in sessions : LossIn(s) \/ InOrder(s, nextSeq, toHost, received)

\* The host learns, or has learnt, how an operation ended, or has cause not to.
EndReported ==
    \A i \in Ids :
       phase[i] = "concluded" =>
         \/ \E n \in DOMAIN toHost : toHost[n].method = "audit/outcome" /\ toHost[n].event.id = i
         \/ \E k \in TerminalRecords : ledger[k].event.id = i
         \/ \E e \in lost : e.id = i /\ ~IsAttempt(e)
         \/ SessionOf[i] \in outage \cup givenUp

\* The index of sealed attempts names them by their ids.
IndexNames ==
    \A id \in Ids :
       sealedAttempts[id] # Nothing =>
         sealedAttempts[id].canonical.id = id /\ IsAttempt(sealedAttempts[id].canonical)

\* What is known of every state already.
AlwaysKnown ==
    /\ TypeOK /\ ToolInv /\ CallVarsOK /\ TruthInv
    /\ BooksMatchLedger /\ SpentIsDecided /\ IndexIsSealed /\ IndexNames
    /\ PerformedIsSealed

FlagInv ==
    /\ RegistryFixed /\ CallsFit /\ OutcomeIsLast /\ NumbersTell /\ NumbersInOrder
    /\ EndReported /\ refused = {} /\ FlagsHaveCause

\* The index of sealed attempts names attempts, under their own ids.
LEMMA IndexNamed == Spec => []IndexNames
<1>1. Init => IndexNames
  BY DEF Init, InitWith, IndexNames
<1>2. TypeOK /\ IndexNames /\ [Next]_vars => IndexNames'
  <2> SUFFICES ASSUME TypeOK, IndexNames, [Next]_vars, NEW id \in Ids, sealedAttempts'[id] # Nothing
               PROVE  /\ sealedAttempts'[id].canonical.id = id
                      /\ IsAttempt(sealedAttempts'[id].canonical)
    BY DEF IndexNames, IsAttempt
  <2>1. CASE sealedAttempts' = sealedAttempts
    BY <2>1 DEF IndexNames
  <2>2. ASSUME NEW e \in Events, Seals(e), IsAttempt(e)
        PROVE  /\ sealedAttempts'[id].canonical.id = id
               /\ IsAttempt(sealedAttempts'[id].canonical)
    <3>1. CASE id = e.id
      <4>1. sealedAttempts'[e.id] = [canonical |-> e, response |-> Accept(ledger'[Len(ledger')])]
        BY <2>2, SealsIndex
      <4>2. sealedAttempts'[id].canonical = e
        BY <3>1, <4>1
      <4> QED
        BY <2>2, <3>1, <4>2
    <3>2. CASE id # e.id
      BY <2>2, <3>2, SealsIndex DEF IndexNames
    <3> QED
      BY <3>1, <3>2
  <2> QED
    BY <2>1, <2>2, StepKind DEF Seals, SealsNothing
<1> QED
  BY <1>1, <1>2, TypeCorrect, PTL DEF Spec

-----------------------------------------------------------------------------
(***************************************************************************)
(* What the host finds of the event it takes off the connection.           *)
(***************************************************************************)

\* The head of the connection, and what is behind it.
LEMMA HeadOf ==
    ASSUME ToolInv, toHost # << >>
    PROVE  /\ 1 \in DOMAIN toHost /\ Head(toHost) = toHost[1] /\ toHost[1] \in Messages
           /\ DOMAIN toHost = 1..Len(toHost) /\ Len(toHost) \in Nat
BY DEF ToolInv, ToolTypeOK

\* An event of the tool verifies at the host.
LEMMA ToolVerifies ==
    ASSUME RegistryFixed, NEW e \in ToolEvents
    PROVE  /\ SignatureVerifies(e)
           /\ Level = "L2" => Signs /\ e.key_id = ToolKeyId /\ ToolKeyId \in KeyIds
<1>1. /\ registry = [[keyId \in KeyIds |-> NotRegistered] EXCEPT
                        ![ToolKeyId] = [publicKey |-> ToolKey, revoked |-> FALSE]]
      /\ ToolKeyId \in KeyIds /\ ToolKeyId # NoKey
  BY ToolAssumption, EventsAssumption DEF RegistryFixed, register, isRegistered, emptyRegistry
<1>2. registry[ToolKeyId] = [publicKey |-> ToolKey, revoked |-> FALSE]
  BY <1>1
<1>3. registry[ToolKeyId] # NotRegistered
  <2>1. [publicKey |-> ToolKey, revoked |-> FALSE] \in [publicKey : PublicKeys, revoked : BOOLEAN]
    BY ToolAssumption
  <2> QED
    BY <1>2, <2>1, NotRegisteredAssumption
<1>4. Level = "L2" => Signs /\ e.key_id = ToolKeyId /\ e.signed_by = ToolKey
  BY CallAssumption DEF ToolEvents
<1> QED
  BY <1>1, <1>2, <1>3, <1>4
     DEF SignatureVerifies, Unsigned, KnownKey, isCurrent, isRegistered, verifyEventSignature, get

\* The event at the head of the connection.
LEMMA HeadEvent ==
    ASSUME AlwaysKnown, RegistryFixed, CallsFit, toHost # << >>, IsEvent(Head(toHost))
    PROVE  LET e == Head(toHost).event IN
           /\ e \in ToolEvents /\ e \in Events /\ e.id \in Ids
           /\ e.session_id = SessionOf[e.id] /\ e.session_id \in Sessions
           /\ e.session_id \in sessions \cup givenUp
           /\ IsAttempt(e) <=> Head(toHost).method = "audit/attempt"
           /\ Head(toHost).method \in {"audit/attempt", "audit/outcome"}
           /\ SignatureVerifies(e) /\ e \in Built
           /\ RecordTold(e, sent, phase, performed)
<1> DEFINE e == Head(toHost).event
<1>1. /\ 1 \in DOMAIN toHost /\ Head(toHost) = toHost[1] /\ toHost[1] \in Messages
  BY HeadOf DEF AlwaysKnown
<1>2. Head(toHost).method \in {"audit/attempt", "audit/outcome"}
  BY <1>1 DEF Messages, IsEvent
<1>3. e \in ToolEvents /\ e \in Events
  BY <1>2, ReceivedEvent DEF AlwaysKnown
<1>4. RecordTold(e, sent, phase, performed)
  BY <1>2, ReceivedTold DEF AlwaysKnown, TruthInv
<1>5. IsAttempt(e) <=> Head(toHost).method = "audit/attempt"
  <2>1. CASE Head(toHost).method = "audit/attempt"
    <3>1. e = sent[e.id] /\ e.id \in Ids /\ e # Nothing
      BY <1>3, <2>1, ReceivedEvent, ToolEventFields, NothingAssumption DEF AlwaysKnown
    <3>2. phase[e.id] # "idle"
      BY <3>1 DEF AlwaysKnown, ToolInv
    <3> QED
      BY <2>1, <3>1, <3>2 DEF AlwaysKnown, TruthInv, PhasesFit
  <2>2. CASE Head(toHost).method = "audit/outcome"
    <3>1. ~IsAttempt(toHost[1].event)
      BY <1>1, <2>2 DEF AlwaysKnown, TruthInv, OutcomesTold, EndTold, Told
    <3> QED
      BY <1>1, <2>2, <3>1
  <2> QED
    BY <1>2, <2>1, <2>2
<1>6. e.session_id \in sessions \cup givenUp
  BY <1>1 DEF CallsFit
<1>7. e \in Built
  BY <1>1 DEF Built
<1>8. SignatureVerifies(e)
  BY <1>3, ToolVerifies
<1> QED
  BY <1>2, <1>3, <1>4, <1>5, <1>6, <1>7, <1>8, ToolEventFields

\* What the host has sealed of an operation whose event is at the head: no outcome,
\* and under its number this very event.
LEMMA HeadSealed ==
    ASSUME AlwaysKnown, FlagInv, toHost # << >>, IsEvent(Head(toHost)),
           Head(toHost).event.session_id \in sessions
    PROVE  LET e == Head(toHost).event IN
           /\ ~Concluded(e)
           /\ alreadyDecided(e) => IsAttempt(e) /\ AttemptSealed(e)
           /\ AttemptSealed(e) => SameAttempt(e) \/ ~IsAttempt(e)
           /\ ~IsAttempt(e) => ~Orphaned(e)
<1> DEFINE e == Head(toHost).event
<1>1. /\ e \in ToolEvents /\ e \in Events /\ e.id \in Ids
      /\ e.session_id = SessionOf[e.id] /\ e.session_id \in Sessions
      /\ SignatureVerifies(e) /\ e \in Built
      /\ RecordTold(e, sent, phase, performed)
  BY HeadEvent DEF FlagInv
<1>2. \A k \in TerminalRecords : ledger[k].event.id # e.id
  BY HeadOf DEF AlwaysKnown, FlagInv, OutcomeIsLast
<1>3. e.session_id \in sessions
  OBVIOUS
<1> HIDE DEF e
<1>4. ~Concluded(e)
  BY <1>1, <1>2, <1>3 DEF AlwaysKnown, BooksMatchLedger, OfOperation, Concluded
<1>5. ASSUME alreadyDecided(e)
      PROVE  IsAttempt(e) /\ AttemptSealed(e)
  <2>1. Level = "L2" /\ e.signer_seq \in decided[e.session_id][e.key_id]
    BY <1>5 DEF alreadyDecided
  <2>2. e.key_id \in KeyIds /\ Signs /\ e.signer_seq \in Nat
    BY <1>1, <2>1, ToolVerifies, EventFields DEF FlagInv
  <2>3. PICK n \in DOMAIN ledger :
           ledger[n].event.session_id = e.session_id /\ ledger[n].event.signer_seq = e.signer_seq
    BY <1>3, <2>1, <2>2 DEF AlwaysKnown, SpentIsDecided, Spent, FlagInv
  <2>4. ledger[n].event \in Built
    BY DEF Built
  <2>5. ledger[n].event = e
    BY <1>1, <2>2, <2>3, <2>4 DEF FlagInv, NumbersTell
  <2>6. n \in AttemptRecords /\ IsAttempt(e)
    BY <1>2, <2>5 DEF AttemptRecords, TerminalRecords
  <2> QED
    BY <2>5, <2>6 DEF AlwaysKnown, BooksMatchLedger, AttemptSealed
<1>6. ASSUME AttemptSealed(e), IsAttempt(e)
      PROVE  SameAttempt(e)
  <2> DEFINE f == sealedAttempts[e.id].canonical
  <2>1. f.id = e.id /\ IsAttempt(f)
    BY <1>1, <1>6 DEF AttemptSealed, AlwaysKnown, IndexNames
  <2>2. PICK n \in DOMAIN ledger : ledger[n].event = f
    BY <1>1, <1>6 DEF AttemptSealed, AlwaysKnown, IndexIsSealed
  <2> HIDE DEF f
  <2>3. f = sent[f.id]
    BY <2>1, <2>2 DEF AlwaysKnown, TruthInv, RecordTellsTruth
  <2>4. e = sent[e.id]
    BY <1>1, <1>6 DEF RecordTold
  <2>5. f = e
    BY <2>1, <2>3, <2>4
  <2> QED
    BY <2>5 DEF SameAttempt, f
<1>7. ASSUME ~IsAttempt(e)
      PROVE  ~Orphaned(e)
  <2> SUFFICES ASSUME e.outcome # "aborted" PROVE Correlated(e)
    BY DEF Orphaned
  <2>1. performed[e.id] = 1
    <3>1. e.outcome \in Outcomes
      BY <1>1 DEF ToolEvents
    <3> QED
      BY <1>1, <1>7, <3>1 DEF RecordTold, Told, Outcomes, IsAttempt
  <2>2. PICK n \in DOMAIN ledger : ledger[n].event = sent[e.id]
    BY <1>1, <2>1 DEF AlwaysKnown, PerformedIsSealed
  <2>3. phase[e.id] = "concluded"
    BY <1>1, <1>7 DEF RecordTold, Told
  <2>4. /\ IsAttempt(sent[e.id]) /\ sent[e.id].id = e.id
        /\ sent[e.id] \in ToolEvents
    BY <1>1, <2>3 DEF AlwaysKnown, TruthInv, PhasesFit, ToolInv, ToolTypeOK
  <2>5. n \in AttemptRecords /\ OfOperation(n, e.session_id, e.id)
    BY <1>1, <2>2, <2>4, ToolEventFields DEF AttemptRecords, OfOperation
  <2> QED
    BY <1>1, <1>3, <2>5 DEF AlwaysKnown, BooksMatchLedger, Correlated
<1> QED
  BY <1>4, <1>5, <1>6, <1>7 DEF e

\* An event of a call given up: the host knows its session no more.
Late(e) ==
    /\ e.session_id \in givenUp /\ e.session_id \notin sessions
    /\ anomalies' = {Anomaly(e.id, "replay-detected", "session")}
    /\ UNCHANGED <<ledger, received, refused>>

\* An event that is received: sealed, an attempt that is sealed already, or not sealed
\* for the host's own trouble.
Takes(e) ==
    /\ e.session_id \in sessions
    /\ anomalies' = gapFlag(e)
    /\ markReceived(e)
    /\ UNCHANGED refused
    /\ \/ Seals(e)
       \/ /\ UNCHANGED ledger
          /\ \/ IsAttempt(e) /\ \E n \in DOMAIN ledger : ledger[n].event = e
             \/ hadOutage

\* An event whose session is not open, and one whose session is.
LEMMA AdmittedIfOpen ==
    ASSUME CallVarsOK, NEW e, NEW attempt \in BOOLEAN, IsAttempt(e) <=> attempt
    PROVE  /\ Admitted(e, attempt, inFlight) <=> e.session_id \in sessions
           /\ ~WrongChannel(e, attempt)
BY DEF CallVarsOK, Admitted, NotInFlight, WrongChannel, IsAttempt

\* What becomes of an attempt that is received: it is late, or is taken.
LEMMA AttemptFound ==
    ASSUME AlwaysKnown, FlagInv, toHost # << >>, Head(toHost).method = "audit/attempt",
           handleAttempt(Head(toHost).event, inFlight)
    PROVE  Late(Head(toHost).event) \/ Takes(Head(toHost).event)
<1> DEFINE e == Head(toHost).event
<1>1. IsEvent(Head(toHost))
  BY DEF IsEvent
<1>2. /\ e \in Events /\ e.session_id \in sessions \cup givenUp /\ IsAttempt(e)
      /\ SignatureVerifies(e)
  BY <1>1, HeadEvent DEF FlagInv
<1>3. e.session_id \in sessions =>
         /\ ~Concluded(e) /\ (alreadyDecided(e) => AttemptSealed(e))
         /\ AttemptSealed(e) => SameAttempt(e)
  BY <1>1, <1>2, HeadSealed
<1>5. handleAttempt(e, inFlight)
  OBVIOUS
<1> HIDE DEF e
<1>6. CASE e.session_id \notin sessions
  <2>1. rejectInadmissible(e, inFlight)
    BY <1>2, <1>5, <1>6, AdmittedIfOpen DEF handleAttempt, AlwaysKnown
  <2>2. ~WrongChannel(e, TRUE)
    BY <1>2, <1>6, AdmittedIfOpen DEF AlwaysKnown
  <2>3. /\ anomalies' = {Anomaly(e.id, "replay-detected", "session")}
        /\ UNCHANGED <<ledger, received, refused>>
    BY <2>1, <2>2 DEF rejectInadmissible, AdmissionFault, windowVars, sealVars, historyVars
  <2> QED
    BY <1>2, <1>6, <2>3 DEF Late, e
<1>7. CASE e.session_id \in sessions
  <2>1. \/ answerFromLedger(e) \/ answerUnavailable(e) \/ acceptAttempt(e)
        \/ attemptSealThrows(e)
    BY <1>2, <1>3, <1>5, <1>7, AdmittedIfOpen
       DEF handleAttempt, AlwaysKnown, rejectInadmissible, rejectUnverified, rejectReplay,
           ReplayedAttempt
  <2>2. /\ anomalies' = gapFlag(e) /\ markReceived(e) /\ UNCHANGED refused
    BY <2>1 DEF answerFromLedger, answerUnavailable, acceptAttempt, attemptSealThrows
  <2>3. CASE answerFromLedger(e)
    <3>1. UNCHANGED ledger /\ AttemptSealed(e) /\ SameAttempt(e)
      BY <2>3 DEF answerFromLedger, sealVars
    <3>2. PICK n \in DOMAIN ledger : ledger[n].event = sealedAttempts[e.id].canonical
      BY <1>2, <3>1, EventFields DEF AttemptSealed, AlwaysKnown, IndexIsSealed
    <3>3. ledger[n].event = e
      BY <3>1, <3>2 DEF SameAttempt
    <3> QED
      BY <1>2, <1>7, <2>2, <3>1, <3>3 DEF Takes, e
  <2>4. CASE answerUnavailable(e)
    BY <1>2, <1>7, <2>2, <2>4 DEF Takes, answerUnavailable, sealVars, hadOutage, e
  <2>5. CASE attemptSealThrows(e)
    <3>1. hostClock \in Nat
      BY DEF AlwaysKnown, TypeOK, SealedOK
    <3>2. UNCHANGED ledger /\ hostClock' # hostClock
      BY <2>5, <3>1 DEF attemptSealThrows, signerThrows
    <3> QED
      BY <1>2, <1>7, <2>2, <3>2 DEF Takes, hadOutage, e
  <2>6. CASE acceptAttempt(e)
    <3>1. Seals(e)
      BY <1>2, <1>7, <2>6 DEF acceptAttempt, Seals, markReceived, sessionVars
    <3> QED
      BY <1>2, <1>7, <2>2, <3>1 DEF Takes, e
  <2> QED
    BY <2>1, <2>3, <2>4, <2>5, <2>6
<1> QED
  BY <1>6, <1>7

\* What becomes of an outcome that is received: it is late, or is taken.
LEMMA OutcomeFound ==
    ASSUME AlwaysKnown, FlagInv, toHost # << >>, Head(toHost).method = "audit/outcome",
           handleOutcome(Head(toHost).event, inFlight)
    PROVE  Late(Head(toHost).event) \/ Takes(Head(toHost).event)
<1> DEFINE e == Head(toHost).event
<1>1. IsEvent(Head(toHost))
  BY DEF IsEvent
<1>2. /\ e \in Events /\ e.session_id \in sessions \cup givenUp /\ ~IsAttempt(e)
      /\ SignatureVerifies(e)
  BY <1>1, HeadEvent DEF FlagInv
<1>3. e.session_id \in sessions => ~Concluded(e) /\ ~alreadyDecided(e) /\ ~Orphaned(e)
  BY <1>1, <1>2, HeadSealed
<1>4. handleOutcome(e, inFlight)
  OBVIOUS
<1> HIDE DEF e
<1>5. CASE e.session_id \notin sessions
  <2>1. dropInadmissible(e, inFlight)
    BY <1>2, <1>4, <1>5, AdmittedIfOpen DEF handleOutcome, AlwaysKnown
  <2>2. ~WrongChannel(e, FALSE)
    BY <1>2, <1>5, AdmittedIfOpen DEF AlwaysKnown
  <2>3. /\ anomalies' = {Anomaly(e.id, "replay-detected", "session")}
        /\ UNCHANGED <<ledger, received, refused>>
    BY <2>1, <2>2 DEF dropInadmissible, AdmissionFault, windowVars, sealVars, historyVars
  <2> QED
    BY <1>2, <1>5, <2>3 DEF Late, e
<1>6. CASE e.session_id \in sessions
  <2>1. dropUnavailable(e) \/ sealOutcome(e) \/ outcomeSealThrows(e)
    BY <1>2, <1>3, <1>4, <1>6, AdmittedIfOpen
       DEF handleOutcome, AlwaysKnown, dropInadmissible, dropUnverified, ignoreRepeat, dropReplay,
           ReplayedOutcome, dropOrphan
  <2>2. /\ anomalies' = gapFlag(e) /\ markReceived(e) /\ UNCHANGED refused
    BY <2>1 DEF dropUnavailable, sealOutcome, outcomeSealThrows
  <2>3. Seals(e) \/ SealsNothing
    BY <1>2, <1>4, OutcomeKind DEF AlwaysKnown
  <2>4. ASSUME ~Seals(e)
        PROVE  UNCHANGED ledger /\ hadOutage
    <3>1. CASE dropUnavailable(e)
      BY <3>1 DEF dropUnavailable, sealVars, hadOutage
    <3>2. CASE outcomeSealThrows(e)
      <4>1. hostClock \in Nat
        BY DEF AlwaysKnown, TypeOK, SealedOK
      <4>2. UNCHANGED ledger /\ hostClock' # hostClock
        BY <3>2, <4>1 DEF outcomeSealThrows, signerThrows
      <4> QED
        BY <4>2 DEF hadOutage
    <3>3. CASE sealOutcome(e)
      BY <1>2, <1>4, <1>6, <2>4, <3>3 DEF sealOutcome, markReceived, Seals, handleOutcome, sessionVars
    <3> QED
      BY <2>1, <3>1, <3>2, <3>3
  <2> QED
    BY <1>6, <2>2, <2>4 DEF Takes, e
<1> QED
  BY <1>5, <1>6

\* A gap is found only where an event was lost.
LEMMA GapHasCause ==
    ASSUME AlwaysKnown, FlagInv, toHost # << >>, IsEvent(Head(toHost)),
           Head(toHost).event.session_id \in sessions, SkipsAhead(Head(toHost).event)
    PROVE  LossIn(Head(toHost).event.session_id)
<1> DEFINE e == Head(toHost).event
           s == e.session_id
           v == received[s][ToolKeyId] + 1
<1>1. e \in ToolEvents /\ e \in Events /\ s \in Sessions /\ s \in sessions
  BY HeadEvent DEF FlagInv
<1>2. Level = "L2" /\ e.key_id = ToolKeyId /\ ToolKeyId \in KeyIds
  BY <1>1, ToolVerifies DEF SkipsAhead, FlagInv
<1>3. received[s][ToolKeyId] \in Nat \cup {NoneReceived} /\ e.signer_seq \in Nat
  BY <1>1, <1>2, EventFields DEF AlwaysKnown, TypeOK, WindowOK
<1>4. v \in Nat /\ v < e.signer_seq
  BY <1>2, <1>3 DEF SkipsAhead, NoneReceived
<1>5. 1 \in DOMAIN toHost /\ toHost[1].event = e /\ IsEvent(toHost[1])
      /\ DOMAIN toHost = 1..Len(toHost)
  BY HeadOf DEF AlwaysKnown
<1>6. ~Precedes(v, s, 1, toHost, received)
  <2>1. ~(v <= received[s][ToolKeyId])
    BY <1>3 DEF NoneReceived
  <2>2. ~\E m \in DOMAIN toHost : m < 1
    BY <1>5
  <2> QED
    BY <2>1, <2>2 DEF Precedes
<1> HIDE DEF v, e
<1> QED
  BY <1>1, <1>2, <1>4, <1>5, <1>6 DEF FlagInv, NumbersInOrder, InOrder, e

-----------------------------------------------------------------------------
(***************************************************************************)
(* What a step does to the connection.                                     *)
(***************************************************************************)

\* A message is sent, or its event lost.
Sends(m) ==
    \/ toHost' = Append(toHost, m) /\ UNCHANGED lost
    \/ lost' = lost \cup {m.event} /\ UNCHANGED toHost

\* An operation of a call being served sends an event it has just stamped: its
\* attempt, or its outcome, and is over.
Stamps(i, m) ==
    /\ m \in Messages /\ IsEvent(m)
    /\ m.event.id = i /\ m.event.session_id = SessionOf[i]
    /\ Signs => /\ m.event.signer_seq = nextSeq[SessionOf[i]]
                /\ nextSeq' = [nextSeq EXCEPT ![SessionOf[i]] = @ + 1]
    /\ ~Signs => UNCHANGED nextSeq
    /\ Sends(m)
    /\ \/ /\ phase[i] = "idle" /\ SessionOf[i] \in calls /\ m.method = "audit/attempt"
          /\ IsAttempt(m.event)
          /\ phase' = [phase EXCEPT ![i] = "asking"]
          /\ sent' = [sent EXCEPT ![i] = m.event]
       \/ /\ phase[i] \in {"asking", "performing"} /\ m.method = "audit/outcome"
          /\ Told(m.event, phase', performed')
          /\ phase' = [phase EXCEPT ![i] = "concluded"]
          /\ UNCHANGED sent
    /\ UNCHANGED calls

\* It sends its attempt once more.
Repeats(i, m) ==
    /\ m \in Messages /\ m.method = "audit/attempt" /\ m.event = sent[i]
    /\ phase[i] = "asking"
    /\ Sends(m)
    /\ UNCHANGED <<calls, phase, sent, nextSeq>>

\* It begins to be performed.
Performs(i) ==
    /\ phase[i] = "asking" /\ phase' = [phase EXCEPT ![i] = "performing"]
    /\ UNCHANGED <<calls, sent, nextSeq, toHost, lost>>

\* An event that is built and sent takes the next number of its session.
LEMMA StampsEvent ==
    ASSUME AlwaysKnown, NEW i \in Ids, NEW outcome \in Outcomes,
           NEW reason \in AbortReasons \cup {NoReason}, NEW body \in Bodies,
           outcome = "aborted" => reason # NoReason, numbers(SessionOf[i]),
           NEW m, m.event = stamped(i, outcome, reason, body),
           \/ m = [method |-> "audit/attempt", event |-> m.event, try |-> 1]
           \/ m = [method |-> "audit/outcome", event |-> m.event],
           transmits(m)
    PROVE  /\ m \in Messages /\ IsEvent(m)
           /\ m.event.id = i /\ m.event.session_id = SessionOf[i]
           /\ Signs => /\ m.event.signer_seq = nextSeq[SessionOf[i]]
                       /\ nextSeq' = [nextSeq EXCEPT ![SessionOf[i]] = @ + 1]
           /\ ~Signs => UNCHANGED nextSeq
           /\ Sends(m)
<1>1. m.event \in ToolEvents /\ m.event.id = i /\ m.event.session_id = SessionOf[i]
  BY StampedEvent DEF AlwaysKnown, ToolInv
<1>2. Signs => m.event.signer_seq = nextSeq[SessionOf[i]]
  BY DEF stamped
<1>3. m \in Messages /\ IsEvent(m)
  BY <1>1 DEF Messages, IsEvent
<1>4. Sends(m)
  BY DEF transmits, Sends
<1> QED
  BY <1>1, <1>2, <1>3, <1>4 DEF numbers

\* So does the outcome an operation is concluded with.
LEMMA ConcludesStamps ==
    ASSUME AlwaysKnown, NEW i \in Ids, UNCHANGED performed,
           NEW outcome \in {"success", "failed", "aborted"},
           IF outcome = "aborted" THEN phase[i] = "asking" ELSE phase[i] = "performing",
           NEW reason \in AbortReasons \cup {NoReason}, outcome = "aborted" => reason # NoReason,
           concludes(i, outcome, reason)
    PROVE  \E m : Stamps(i, m)
<1> DEFINE m == OutcomeMessage(stamped(i, outcome, reason, sent[i].body))
<1>1. /\ m.event = stamped(i, outcome, reason, sent[i].body)
      /\ m = [method |-> "audit/outcome", event |-> m.event] /\ m.method = "audit/outcome"
  BY DEF OutcomeMessage
<1>2. /\ phase' = [phase EXCEPT ![i] = "concluded"] /\ transmits(m) /\ numbers(SessionOf[i])
      /\ UNCHANGED <<calls, sent>>
  BY DEF concludes
<1>3. sent[i].body \in Bodies
  BY ToolEventFields DEF AlwaysKnown, ToolInv, ToolTypeOK
<1>4. m.event.id = i /\ m.event.outcome = outcome
  BY <1>1 DEF stamped
<1> HIDE DEF m
<1>5. Told(m.event, phase', performed')
  <2> DEFINE e == m.event
  <2>1. e.id = i /\ e.outcome = outcome
    BY <1>4
  <2> HIDE DEF e
  <2>2. Told(e, phase', performed')
    BY <1>2, <2>1, ConclusionTold DEF AlwaysKnown, TruthInv
  <2> QED
    BY <2>2 DEF e
<1> QED
  BY <1>1, <1>2, <1>3, <1>5, StampsEvent DEF Stamps, Outcomes

\* A step of the tool stamps an event, repeats one, performs an operation or
\* sends a result.
LEMMA ToolKind ==
    ASSUME AlwaysKnown, toolSteps
    PROVE  /\ \/ \E i \in Ids : (\E m : Stamps(i, m) \/ Repeats(i, m)) \/ Performs(i)
              \/ \E s \in Sessions : respond(s)
           /\ UNCHANGED <<issued, sessions, ledger, received, refused, registry, anomalies>>
           /\ UNCHANGED <<givenUp, outage>>
<1>1. ASSUME NEW i \in Ids, NEW body \in Bodies, audited(i, body)
      PROVE  \E m : Stamps(i, m)
  <2> DEFINE m == AttemptMessage(i, stamped(i, "attempted", NoReason, body), 1)
  <2>1. /\ m.event = stamped(i, "attempted", NoReason, body)
        /\ m = [method |-> "audit/attempt", event |-> m.event, try |-> 1]
        /\ m.method = "audit/attempt"
    BY DEF AttemptMessage
  <2>2. /\ SessionOf[i] \in calls /\ phase[i] = "idle" /\ transmits(m) /\ numbers(SessionOf[i])
        /\ sent' = [sent EXCEPT ![i] = m.event] /\ phase' = [phase EXCEPT ![i] = "asking"]
        /\ UNCHANGED calls
    BY <1>1, <2>1 DEF audited
  <2> HIDE DEF m
  <2>3. "attempted" \in Outcomes /\ "attempted" # "aborted"
    BY DEF Outcomes
  <2>4. /\ m \in Messages /\ IsEvent(m)
        /\ m.event.id = i /\ m.event.session_id = SessionOf[i]
        /\ Signs => /\ m.event.signer_seq = nextSeq[SessionOf[i]]
                    /\ nextSeq' = [nextSeq EXCEPT ![SessionOf[i]] = @ + 1]
        /\ ~Signs => UNCHANGED nextSeq
        /\ Sends(m)
    BY <2>1, <2>2, <2>3, StampsEvent
  <2>5. IsAttempt(m.event)
    BY <2>1 DEF stamped, IsAttempt
  <2> QED
    BY <2>1, <2>2, <2>4, <2>5 DEF Stamps
<1>2. ASSUME NEW i \in Ids, phase[i] = "asking", retry(i)
      PROVE  \E m : Repeats(i, m)
  <2> DEFINE m == AttemptMessage(i, sent[i], asked[i] + 1)
  <2>1. m.method = "audit/attempt" /\ m.event = sent[i]
    BY DEF AttemptMessage
  <2>2. m \in Messages
    <3>1. sent[i] \in ToolEvents /\ asked[i] + 1 \in Nat
      BY <1>2, ToolAssumption DEF AlwaysKnown, ToolInv, ToolTypeOK
    <3> QED
      BY <3>1 DEF AttemptMessage, Messages
  <2>3. transmits(m) /\ UNCHANGED <<calls, phase, sent, nextSeq>>
    BY <1>2 DEF retry
  <2> HIDE DEF m
  <2>4. Sends(m)
    BY <2>3 DEF transmits, Sends
  <2> QED
    BY <1>2, <2>1, <2>2, <2>3, <2>4 DEF Repeats
<1>3. ASSUME NEW i \in Ids, phase[i] = "asking", NEW reason \in AbortReasons, abort(i, reason)
      PROVE  \E m : Stamps(i, m)
  BY <1>3, ConcludesStamps DEF abort, AbortReasons, NoReason
<1>4. ASSUME NEW i \in Ids, unanswered(i)
      PROVE  \E m : Stamps(i, m) \/ Repeats(i, m)
  BY <1>2, <1>3, <1>4 DEF unanswered, AbortReasons
<1>5. ASSUME NEW i \in Ids, answered(i)
      PROVE  (\E m : Stamps(i, m) \/ Repeats(i, m)) \/ Performs(i)
  <2>1. phase[i] = "asking" /\ AbortReason(i, toTool[i]) \in AbortReasons \cup {NoReason}
    BY <1>5, StopsOrPasses DEF answered, AlwaysKnown
  <2> QED
    BY <1>2, <1>3, <1>5, <2>1 DEF answered, Performs
<1>6. ASSUME NEW i \in Ids, performEnds(i)
      PROVE  \E m : Stamps(i, m)
  BY <1>6, ConcludesStamps DEF performEnds
<1> QED
  BY <1>1, <1>4, <1>5, <1>6 DEF toolSteps, operates, vars, callVars

\* The host takes an event off the connection.
TakesEvent ==
    LET e == Head(toHost).event IN
    /\ toHost # << >> /\ toHost' = Tail(toHost) /\ IsEvent(Head(toHost))
    /\ Late(e) \/ Takes(e)
    /\ outage' = IF hadOutage THEN outage \cup {e.session_id} ELSE outage
    /\ UNCHANGED <<calls, issued, sessions, registry, givenUp>>

\* It takes the result of a call.
TakesResult ==
    /\ toHost # << >> /\ toHost' = Tail(toHost) /\ ~IsEvent(Head(toHost))
    /\ IF Head(toHost).session \in sessions THEN closeSession(Head(toHost).session)
       ELSE UNCHANGED vars
    /\ UNCHANGED <<calls, givenUp, outage>>

\* It is asked nothing, and finds nothing.
Quiet ==
    /\ UNCHANGED <<calls, toHost, issued, sessions, ledger, received, refused, registry>>
    /\ UNCHANGED <<givenUp, outage>>
    /\ anomalies' \in {anomalies, {}}

\* A step that is not the tool's takes something from the connection, begins a call,
\* gives one up, or does neither.
LEMMA RestKind ==
    ASSUME AlwaysKnown, FlagInv, [CallNext]_allVars, ~toolSteps
    PROVE  /\ UNCHANGED <<phase, sent, nextSeq, lost>>
           /\ \/ TakesEvent \/ TakesResult \/ Quiet
              \/ \E s \in Sessions : callAudited(s) \/ callGivenUp(s)
<1>1. UNCHANGED <<phase, sent, nextSeq, lost>>
  BY DEF CallNext, allVars, toolVars, callAudited, callGivenUp, receive, misdeliver, switchDurability,
     provisionTool
<1>2. CASE receive
  <2> DEFINE m == Head(toHost)
  <2>1. /\ toHost # << >> /\ toHost' = Tail(toHost)
        /\ UNCHANGED <<calls, givenUp>>
        /\ receiveAttempt(m) \/ receiveOutcome(m) \/ receiveResult(m)
    BY <1>2 DEF receive
  <2>2. CASE receiveAttempt(m)
    <3>1. m.method = "audit/attempt" /\ handleAttempt(m.event, inFlight)
      BY <2>2 DEF receiveAttempt
    <3>2. UNCHANGED <<issued, sessions, registry>>
      <4>1. UNCHANGED registry
        BY <3>1 DEF handleAttempt, rejectInadmissible, rejectUnverified, answerFromLedger,
           rejectReplay, answerUnavailable, acceptAttempt, attemptSealThrows, envVars
      <4> QED
        BY <3>1, <4>1, HandlersKeepSessions
    <3>3. Late(m.event) \/ Takes(m.event)
      BY <2>1, <3>1, AttemptFound
    <3>4. IsEvent(m)
      BY <3>1 DEF IsEvent
    <3> QED
      BY <1>1, <2>1, <2>2, <3>2, <3>3, <3>4 DEF TakesEvent, receiveAttempt, notesOutage
  <2>3. CASE receiveOutcome(m)
    <3>1. m.method = "audit/outcome" /\ handleOutcome(m.event, inFlight)
      BY <2>3 DEF receiveOutcome
    <3>2. UNCHANGED <<issued, sessions, registry>>
      BY <3>1 DEF handleOutcome, sessionVars, envVars
    <3>3. Late(m.event) \/ Takes(m.event)
      BY <2>1, <3>1, OutcomeFound
    <3>4. IsEvent(m)
      BY <3>1 DEF IsEvent
    <3> QED
      BY <1>1, <2>1, <2>3, <3>2, <3>3, <3>4 DEF TakesEvent, receiveOutcome, notesOutage
  <2>4. CASE receiveResult(m)
    BY <1>1, <2>1, <2>4
       DEF TakesResult, receiveResult, IsEvent, endCall, AlwaysKnown, CallVarsOK
  <2> QED
    BY <2>1, <2>2, <2>3, <2>4
<1>3. CASE UNCHANGED allVars \/ (\E i \in Ids : misdeliver(i)) \/ switchDurability
        \/ provisionTool
  BY <1>1, <1>3 DEF Quiet, allVars, vars, toolVars, callVars, misdeliver, switchDurability,
     provisionTool,
     setUnavailable, sessionVars, windowVars, sealVars, historyVars
<1> QED
  BY <1>1, <1>2, <1>3 DEF CallNext

\* What is sent comes behind what is on the connection.
LEMMA SendsBehind ==
    ASSUME AlwaysKnown, NEW m \in Messages, Sends(m)
    PROVE  /\ \A n \in DOMAIN toHost : n \in DOMAIN toHost' /\ toHost'[n] = toHost[n]
           /\ \A n \in DOMAIN toHost' :
                 \/ n \in DOMAIN toHost
                 \/ toHost'[n] = m /\ n = Len(toHost) + 1
           /\ \A n \in DOMAIN toHost : n \in Nat /\ n < Len(toHost) + 1
           /\ lost \subseteq lost'
           /\ \/ m.event \in lost'
              \/ /\ Len(toHost) + 1 \in DOMAIN toHost' /\ toHost'[Len(toHost) + 1] = m
                 /\ Len(toHost') = Len(toHost) + 1
<1>1. toHost \in Seq(Messages)
  BY DEF AlwaysKnown, ToolInv, ToolTypeOK
<1>2. CASE toHost' = Append(toHost, m) /\ UNCHANGED lost
  BY <1>1, <1>2
<1>3. CASE lost' = lost \cup {m.event} /\ UNCHANGED toHost
  BY <1>1, <1>3
<1> QED
  BY <1>2, <1>3 DEF Sends

\* What is behind the head moves up.
LEMMA TakenOff ==
    ASSUME AlwaysKnown, toHost # << >>, toHost' = Tail(toHost)
    PROVE  /\ \A n \in DOMAIN toHost' :
                 n \in Nat /\ n + 1 \in DOMAIN toHost /\ toHost'[n] = toHost[n + 1]
           /\ \A n \in DOMAIN toHost' : 1 < n + 1
           /\ \A n \in DOMAIN toHost :
                 n \in Nat /\ (n = 1 \/ (n - 1 \in DOMAIN toHost' /\ toHost'[n - 1] = toHost[n]))
           /\ 1 \in DOMAIN toHost /\ Head(toHost) = toHost[1]
           /\ Len(toHost') = Len(toHost) - 1 /\ Len(toHost) \in Nat
<1>1. toHost \in Seq(Messages)
  BY DEF AlwaysKnown, ToolInv, ToolTypeOK
<1> DEFINE q == Tail(toHost)
<1>2. /\ Len(q) = Len(toHost) - 1 /\ Len(toHost) \in Nat /\ Len(toHost) > 0
      /\ q \in Seq(Messages)
      /\ DOMAIN toHost = 1..Len(toHost) /\ Head(toHost) = toHost[1]
  BY <1>1
<1>3. \A n \in 1..(Len(toHost) - 1) : q[n] = toHost[n + 1]
  BY <1>1
<1> HIDE DEF q
<1>4. DOMAIN q = 1..(Len(toHost) - 1)
  BY <1>2
<1>5. toHost' = q
  BY DEF q
<1>6. \A n \in DOMAIN toHost' : n \in Nat /\ n + 1 \in DOMAIN toHost /\ toHost'[n] = toHost[n + 1]
  BY <1>2, <1>3, <1>4, <1>5
<1>7. \A n \in DOMAIN toHost' : 1 < n + 1
  BY <1>2, <1>4, <1>5
<1>8. ASSUME NEW n \in DOMAIN toHost, n # 1
      PROVE  n - 1 \in DOMAIN toHost' /\ toHost'[n - 1] = toHost[n]
  <2>1. n \in Nat /\ n - 1 \in 1..(Len(toHost) - 1) /\ (n - 1) + 1 = n
    BY <1>2, <1>8
  <2> QED
    BY <1>3, <1>4, <1>5, <2>1
<1> QED
  BY <1>2, <1>5, <1>6, <1>7, <1>8

-----------------------------------------------------------------------------
(***************************************************************************)
(* The parts of the invariant, step by step.                               *)
(***************************************************************************)

\* What is lost stays lost, and a cause stays a cause.
LEMMA CausesStay ==
    ASSUME AlwaysKnown, FlagInv, [CallNext]_allVars
    PROVE  lost \subseteq lost' /\ outage \subseteq outage' /\ givenUp \subseteq givenUp'
<1>1. CASE toolSteps
  <2>1. ASSUME NEW i \in Ids, NEW m, Stamps(i, m) \/ Repeats(i, m)
        PROVE  lost \subseteq lost'
    BY <2>1 DEF Stamps, Repeats, Sends
  <2>2. ASSUME NEW i \in Ids, Performs(i)
        PROVE  lost' = lost
    BY <2>2 DEF Performs
  <2>3. ASSUME NEW s \in Sessions, respond(s)
        PROVE  lost' = lost
    BY <2>3 DEF respond
  <2> QED
    BY <1>1, <2>1, <2>2, <2>3, ToolKind
<1>2. CASE ~toolSteps
  <2>1. outage \subseteq outage' /\ givenUp \subseteq givenUp'
    <3>1. ASSUME NEW s \in Sessions, callAudited(s) \/ callGivenUp(s)
          PROVE  outage' = outage /\ givenUp \subseteq givenUp'
      BY <3>1 DEF callAudited, callGivenUp
    <3>2. CASE TakesEvent \/ TakesResult \/ Quiet
      BY <3>2 DEF TakesEvent, TakesResult, Quiet
    <3> QED
      BY <1>2, <3>1, <3>2, RestKind
  <2> QED
    BY <1>2, <2>1, RestKind
<1> QED
  BY <1>1, <1>2

\* A call is begun.
LEMMA Begins ==
    ASSUME NEW s \in Sessions, callAudited(s)
    PROVE  /\ s \notin issued /\ issued' = issued \cup {s} /\ sessions' = sessions \cup {s}
           /\ calls' = calls \cup {s} /\ anomalies' = {}
           /\ UNCHANGED <<ledger, received, refused, registry, toHost, givenUp, outage>>
BY DEF callAudited, openSession, windowVars, sealVars, envVars, historyVars

\* A session ends, with the result of its call or because it is given up.
LEMMA Ends ==
    ASSUME NEW s, closeSession(s)
    PROVE  /\ s \in sessions /\ sessions' = sessions \ {s}
           /\ anomalies' = {Anomaly(i, "unresolved-attempt", "unresolved") : i \in Unresolved(s)}
           /\ received' = [received EXCEPT ![s] = [k \in KeyIds |-> NoneReceived]]
           /\ refused' \subseteq refused
           /\ UNCHANGED <<issued, ledger, registry>>
BY DEF closeSession, forgetSession, sealVars, envVars

\* A call that is given up is noted, and its session closed.
LEMMA GivenUp ==
    ASSUME NEW s \in Sessions, callGivenUp(s)
    PROVE  /\ closeSession(s) /\ givenUp' = givenUp \cup {s}
           /\ UNCHANGED <<calls, toHost, outage>>
BY DEF callGivenUp, endCall, toolVars

\* Nothing happens to the registry, and nothing the tool sends is ever refused.
LEMMA EnvironmentStep ==
    ASSUME AlwaysKnown, FlagInv, [CallNext]_allVars
    PROVE  RegistryFixed' /\ refused' = {}
<1>1. registry' = registry /\ refused' \subseteq refused
  <2>1. CASE toolSteps
    BY <2>1, ToolKind
  <2>2. CASE TakesEvent
    BY <2>2 DEF TakesEvent, Late, Takes
  <2>3. CASE TakesResult
    BY <2>3, Ends DEF TakesResult, vars
  <2>4. CASE Quiet
    BY <2>4 DEF Quiet
  <2>5. ASSUME NEW s \in Sessions, callAudited(s) \/ callGivenUp(s)
        PROVE  registry' = registry /\ refused' \subseteq refused
    BY <2>5, Begins, GivenUp, Ends
  <2> QED
    BY <2>1, <2>2, <2>3, <2>4, <2>5, RestKind
<1> QED
  BY <1>1 DEF FlagInv, RegistryFixed

\* What an anomaly's cause is.
Caused(a, losses, outages, callsGivenUp) ==
    LET s        == SessionOf[a.id]
        lossInIt == \E e \in losses : e.session_id = s
    IN
    \/ a.kind = "signer-seq-gap" /\ lossInIt
    \/ a.kind = "unresolved-attempt" /\ (lossInIt \/ s \in outages \/ s \in callsGivenUp)
    \/ a.kind = "replay-detected" /\ a.detail = "session" /\ s \in callsGivenUp

\* An operation that is unresolved when the result arrives has a cause.
LEMMA UnresolvedCaused ==
    ASSUME AlwaysKnown, FlagInv, TakesResult, NEW i \in Unresolved(Head(toHost).session),
           Head(toHost).session \in sessions
    PROVE  SessionOf[i] = Head(toHost).session
           /\ (LossIn(SessionOf[i]) \/ SessionOf[i] \in outage \cup givenUp)
<1> DEFINE s == Head(toHost).session
<1>1. /\ 1 \in DOMAIN toHost /\ Head(toHost) = toHost[1] /\ ~IsEvent(toHost[1])
      /\ DOMAIN toHost = 1..Len(toHost)
  BY HeadOf DEF TakesResult, AlwaysKnown
<1>2. s \in Sessions /\ s \in issued \ calls
  BY <1>1 DEF FlagInv, CallsFit, AlwaysKnown, TypeOK, SessionsOK
<1>3. i \in Ids /\ i \in accepted[s] /\ outcomes[s][i] = Nothing
  BY <1>2 DEF Unresolved, AlwaysKnown, TypeOK, BooksOK
<1>4. PICK n \in AttemptRecords : OfOperation(n, s, i)
  BY <1>3 DEF AlwaysKnown, BooksMatchLedger
<1>5. ledger[n].event \in ToolEvents /\ ledger[n].event = sent[i] /\ ledger[n].event.id = i
      /\ ledger[n].event.session_id = s
  BY <1>4 DEF AttemptRecords, OfOperation, AlwaysKnown, TruthInv, RecordsAreTools, RecordTellsTruth
<1>6. SessionOf[i] = s /\ sent[i] # Nothing
  BY <1>5, ToolEventFields, NothingAssumption
<1>7. phase[i] = "concluded"
  <2>1. phase[i] \in {"idle", "asking", "performing", "concluded"} /\ phase[i] # "idle"
    BY <1>3, <1>6 DEF AlwaysKnown, ToolInv, ToolTypeOK
  <2>2. phase[i] \notin {"asking", "performing"}
    BY <1>2, <1>3, <1>6 DEF FlagInv, CallsFit
  <2> QED
    BY <2>1, <2>2
<1>8. ASSUME NEW m \in DOMAIN toHost, toHost[m].method = "audit/outcome", toHost[m].event.id = i
      PROVE  FALSE
  <2>1. toHost[m].event.session_id = s
    <3>1. toHost[m] \in Messages
      BY DEF AlwaysKnown, ToolInv, MessagesOK
    <3>2. toHost[m].event \in ToolEvents
      BY <1>8, <3>1 DEF Messages
    <3> QED
      BY <1>6, <1>8, <3>2, ToolEventFields
  <2>2. IsEvent(toHost[m])
    BY <1>8 DEF IsEvent
  <2>3. 1 < m
    BY <1>1, <2>2
  <2> QED
    BY <1>1, <2>1, <2>2, <2>3 DEF FlagInv, CallsFit
<1>9. ASSUME NEW k \in TerminalRecords, ledger[k].event.id = i
      PROVE  FALSE
  <2>1. ledger[k].event.session_id = s
    BY <1>6, <1>9, ToolEventFields DEF TerminalRecords, AlwaysKnown, TruthInv, RecordsAreTools
  <2> QED
    BY <1>3, <1>9, <2>1 DEF AlwaysKnown, BooksMatchLedger, OfOperation
<1>10. \A e \in lost : e.id = i => e.session_id = SessionOf[i]
  BY ToolEventFields DEF AlwaysKnown, ToolInv, ToolTypeOK
<1> QED
  BY <1>3, <1>6, <1>7, <1>8, <1>9, <1>10 DEF FlagInv, EndReported, LossIn

\* Whatever the host flags in a step has its cause.
LEMMA FlagsStep ==
    ASSUME AlwaysKnown, FlagInv, [CallNext]_allVars
    PROVE  FlagsHaveCause'
<1> SUFFICES ASSUME NEW a \in anomalies' PROVE Caused(a, lost', outage', givenUp')
  BY DEF FlagsHaveCause, Caused
<1>1. ASSUME Caused(a, lost, outage, givenUp)
      PROVE  Caused(a, lost', outage', givenUp')
  BY <1>1, CausesStay DEF Caused
<1>2. CASE a \in anomalies
  <2>1. Caused(a, lost, outage, givenUp)
    BY <1>2 DEF FlagInv, FlagsHaveCause, Caused
  <2> QED
    BY <1>1, <2>1
<1>3. CASE TakesEvent
  <2> DEFINE e == Head(toHost).event
  <2>1. /\ toHost # << >> /\ IsEvent(Head(toHost)) /\ (Late(e) \/ Takes(e))
    BY <1>3 DEF TakesEvent
  <2>2. e.session_id = SessionOf[e.id]
    BY <2>1, HeadEvent DEF FlagInv
  <2>3. e.session_id \in sessions /\ SkipsAhead(e) => LossIn(e.session_id)
    BY <2>1, GapHasCause
  <2> HIDE DEF e
  <2>4. CASE Late(e)
    <3>1. a.id = e.id /\ a.kind = "replay-detected" /\ a.detail = "session"
      BY <2>4 DEF Late, Anomaly
    <3> QED
      BY <1>1, <2>2, <2>4, <3>1 DEF Late, Caused
  <2>5. CASE Takes(e)
    <3>1. a.id = e.id /\ a.kind = "signer-seq-gap" /\ SkipsAhead(e) /\ e.session_id \in sessions
      BY <2>5 DEF Takes, gapFlag, Anomaly
    <3> QED
      BY <1>1, <2>2, <2>3, <3>1 DEF Caused, LossIn
  <2> QED
    BY <2>1, <2>4, <2>5
<1>4. CASE TakesResult /\ a \notin anomalies
  <2> DEFINE s == Head(toHost).session
  <2>1. closeSession(s)
    BY <1>4 DEF TakesResult, vars
  <2>2. PICK i \in Unresolved(s) : a = Anomaly(i, "unresolved-attempt", "unresolved")
    BY <2>1, Ends
  <2>3. s \in sessions
    BY <2>1, Ends
  <2>4. LossIn(SessionOf[i]) \/ SessionOf[i] \in outage \cup givenUp
    BY <1>4, <2>3, UnresolvedCaused
  <2>5. a.id = i /\ a.kind = "unresolved-attempt"
    BY <2>2 DEF Anomaly
  <2> QED
    BY <1>1, <2>4, <2>5 DEF Caused, LossIn
<1>5. ASSUME NEW s \in Sessions, callGivenUp(s)
      PROVE  Caused(a, lost', outage', givenUp')
  <2>1. PICK i \in Unresolved(s) : a = Anomaly(i, "unresolved-attempt", "unresolved")
    BY <1>5, GivenUp, Ends
  <2>2. a.id = i /\ a.kind = "unresolved-attempt"
    BY <2>1 DEF Anomaly
  <2>3. SessionOf[i] = s
    <3>1. i \in Ids /\ i \in accepted[s] /\ s \in sessions
      BY <1>5, GivenUp, Ends DEF Unresolved, AlwaysKnown, TypeOK, BooksOK
    <3>2. PICK n \in AttemptRecords : OfOperation(n, s, i)
      BY <3>1 DEF AlwaysKnown, BooksMatchLedger
    <3>3. ledger[n].event \in ToolEvents
      BY <3>2 DEF AttemptRecords, AlwaysKnown, TruthInv, RecordsAreTools
    <3> QED
      BY <3>2, <3>3, ToolEventFields DEF OfOperation
  <2> QED
    BY <1>5, <2>2, <2>3, GivenUp DEF Caused
<1>6. CASE toolSteps \/ Quiet \/ \E s \in Sessions : callAudited(s)
  <2>1. anomalies' = anomalies \/ anomalies' = {}
    BY <1>6, ToolKind, Begins DEF Quiet
  <2> QED
    BY <1>2, <2>1
<1> QED
  BY <1>2, <1>3, <1>4, <1>5, <1>6, RestKind

\* The event of a message that is sent is of an operation that is not over, in a
\* call being served.
LEMMA SentEvent ==
    ASSUME AlwaysKnown, CallsFit, NEW i \in Ids, NEW m, Stamps(i, m) \/ Repeats(i, m)
    PROVE  /\ m \in Messages /\ IsEvent(m) /\ Sends(m)
           /\ m.event.id = i /\ m.event.session_id = SessionOf[i]
           /\ SessionOf[i] \in calls /\ phase[i] # "concluded" /\ UNCHANGED calls
           /\ \A j \in Ids : phase'[j] \in {"asking", "performing"} =>
                 j = i \/ phase[j] \in {"asking", "performing"}
<1>1. phase \in [Ids -> {"idle", "asking", "performing", "concluded"}]
  BY DEF AlwaysKnown, ToolInv, ToolTypeOK
<1>2. CASE Stamps(i, m)
  BY <1>1, <1>2 DEF Stamps, CallsFit
<1>3. CASE Repeats(i, m)
  <2>1. sent[i] \in ToolEvents /\ sent[i].id = i
    BY <1>3 DEF Repeats, AlwaysKnown, ToolInv, ToolTypeOK
  <2> QED
    BY <1>1, <1>3, <2>1, ToolEventFields DEF Repeats, CallsFit, IsEvent
<1> QED
  BY <1>2, <1>3

\* The tool keeps to its calls.
LEMMA ToolCallsFit ==
    ASSUME AlwaysKnown, FlagInv, toolSteps
    PROVE  CallsFit'
<1>1. /\ UNCHANGED <<issued, sessions, givenUp>> /\ CallsFit /\ calls \subseteq issued
      /\ SessionOf \in [Ids -> Sessions]
      /\ phase \in [Ids -> {"idle", "asking", "performing", "concluded"}]
      /\ nextSeq \in [Sessions -> 0..(MaxSignerSeq + 1)]
  BY ToolKind, ToolAssumption DEF FlagInv, AlwaysKnown, ToolInv, ToolTypeOK
<1>2. ASSUME NEW i \in Ids, NEW m, Stamps(i, m) \/ Repeats(i, m)
      PROVE  CallsFit'
  <2>1. /\ m \in Messages /\ IsEvent(m) /\ Sends(m)
        /\ m.event.id = i /\ m.event.session_id = SessionOf[i]
        /\ SessionOf[i] \in calls /\ UNCHANGED calls
        /\ \A j \in Ids : phase'[j] \in {"asking", "performing"} =>
              j = i \/ phase[j] \in {"asking", "performing"}
    BY <1>1, <1>2, SentEvent
  <2>2. \A s \in Sessions \ issued : nextSeq'[s] = 0
    <3>1. \A s \in Sessions : s # SessionOf[i] => nextSeq'[s] = nextSeq[s]
      BY <1>1, <1>2 DEF Stamps, Repeats
    <3> QED
      BY <1>1, <2>1, <3>1 DEF CallsFit
  <2>3. /\ \A n \in DOMAIN toHost : n \in DOMAIN toHost' /\ toHost'[n] = toHost[n]
        /\ \A n \in DOMAIN toHost' :
              n \in DOMAIN toHost \/ (toHost'[n] = m /\ n = Len(toHost) + 1)
        /\ \A n \in DOMAIN toHost : n \in Nat /\ n < Len(toHost) + 1
    BY <2>1, SendsBehind
  <2>4. \A n \in DOMAIN toHost' :
          IF IsEvent(toHost'[n])
          THEN toHost'[n].event.session_id \in sessions \cup givenUp
          ELSE toHost'[n].session \in issued \ calls
    BY <1>1, <2>1, <2>3 DEF CallsFit
  <2>5. ASSUME NEW n \in DOMAIN toHost', NEW k \in DOMAIN toHost',
               ~IsEvent(toHost'[n]), IsEvent(toHost'[k]), n < k
        PROVE  toHost'[k].event.session_id # toHost'[n].session
    <3>1. n \in DOMAIN toHost /\ toHost'[n] = toHost[n]
      BY <2>1, <2>3, <2>5
    <3>2. toHost[n].session \notin calls
      BY <1>1, <2>5, <3>1 DEF CallsFit
    <3>3. CASE k \in DOMAIN toHost
      BY <1>1, <2>3, <2>5, <3>1, <3>3 DEF CallsFit
    <3>4. CASE toHost'[k] = m
      BY <2>1, <3>1, <3>2, <3>4
    <3> QED
      BY <2>3, <3>3, <3>4
  <2>6. \A j \in Ids : phase'[j] \in {"asking", "performing"} => SessionOf[j] \in calls
    BY <1>1, <2>1 DEF CallsFit
  <2> QED
    BY <1>1, <2>1, <2>2, <2>4, <2>5, <2>6 DEF CallsFit, IsEvent
<1>3. ASSUME NEW i \in Ids, Performs(i)
      PROVE  CallsFit'
  BY <1>1, <1>3 DEF Performs, CallsFit, IsEvent
<1>4. ASSUME NEW s \in Sessions, respond(s)
      PROVE  CallsFit'
  <2>1. /\ s \in calls /\ calls' = calls \ {s} /\ toHost' = Append(toHost, ResultMessage(s))
        /\ UNCHANGED <<phase, nextSeq>>
        /\ \A i \in Ids : phase[i] \in {"asking", "performing"} => SessionOf[i] # s
    BY <1>4 DEF respond, OpsOf
  <2> DEFINE m == ResultMessage(s)
  <2>2. m.session = s /\ ~IsEvent(m)
    BY DEF ResultMessage, IsEvent
  <2> HIDE DEF m
  <2>3. toHost \in Seq(Messages) /\ toHost' = Append(toHost, m)
    BY <2>1 DEF AlwaysKnown, ToolInv, ToolTypeOK, m
  <2>4. /\ \A n \in DOMAIN toHost : n \in Nat /\ n < Len(toHost) + 1
        /\ \A n \in DOMAIN toHost' :
              \/ n \in DOMAIN toHost /\ toHost'[n] = toHost[n]
              \/ toHost'[n] = m /\ n = Len(toHost) + 1
    BY <2>3
  <2>5. \A n \in DOMAIN toHost' :
          IF IsEvent(toHost'[n])
          THEN toHost'[n].event.session_id \in sessions \cup givenUp
          ELSE toHost'[n].session \in issued \ calls'
    BY <1>1, <2>1, <2>2, <2>4 DEF CallsFit
  <2>6. ASSUME NEW n \in DOMAIN toHost', NEW k \in DOMAIN toHost',
               ~IsEvent(toHost'[n]), IsEvent(toHost'[k]), n < k
        PROVE  toHost'[k].event.session_id # toHost'[n].session
    <3>1. k \in DOMAIN toHost /\ toHost'[k] = toHost[k]
      BY <2>2, <2>4, <2>6
    <3>2. n \in DOMAIN toHost /\ toHost'[n] = toHost[n]
      BY <2>4, <2>6, <3>1
    <3> QED
      BY <1>1, <2>6, <3>1, <3>2 DEF CallsFit
  <2> QED
    BY <1>1, <2>1, <2>5, <2>6 DEF CallsFit, IsEvent
<1> QED
  BY <1>2, <1>3, <1>4, ToolKind

\* So does the host.
LEMMA HostCallsFit ==
    ASSUME AlwaysKnown, FlagInv, [CallNext]_allVars, ~toolSteps
    PROVE  CallsFit'
<1>1. UNCHANGED <<phase, nextSeq>> /\ CallsFit /\ issued \subseteq Sessions
  BY RestKind DEF FlagInv, AlwaysKnown, TypeOK, SessionsOK
<1>2. CASE Quiet
  BY <1>1, <1>2 DEF Quiet, CallsFit, IsEvent
<1>3. ASSUME NEW s \in Sessions, callAudited(s)
      PROVE  CallsFit'
  BY <1>1, <1>3, Begins DEF CallsFit, IsEvent
<1>4. ASSUME NEW s \in Sessions, callGivenUp(s)
      PROVE  CallsFit'
  BY <1>1, <1>4, GivenUp, Ends DEF CallsFit, IsEvent
<1>5. CASE TakesEvent \/ TakesResult
  <2>1. toHost # << >> /\ toHost' = Tail(toHost) /\ UNCHANGED <<calls, issued, givenUp>>
    BY <1>5, Ends DEF TakesEvent, TakesResult, vars
  <2>2. /\ \A n \in DOMAIN toHost' :
              n \in Nat /\ n + 1 \in DOMAIN toHost /\ toHost'[n] = toHost[n + 1]
        /\ 1 \in DOMAIN toHost /\ Head(toHost) = toHost[1]
    BY <2>1, TakenOff
  <2>3. ASSUME NEW n \in DOMAIN toHost', NEW k \in DOMAIN toHost',
               ~IsEvent(toHost'[n]), IsEvent(toHost'[k]), n < k
        PROVE  toHost'[k].event.session_id # toHost'[n].session
    <3>1. n + 1 < k + 1
      BY <2>2, <2>3
    <3> QED
      BY <1>1, <2>2, <2>3, <3>1 DEF CallsFit
  <2>4. CASE sessions' = sessions
    BY <1>1, <2>1, <2>2, <2>3, <2>4 DEF CallsFit, IsEvent
  <2>5. CASE TakesResult /\ closeSession(Head(toHost).session)
    <3> DEFINE s == Head(toHost).session
    <3>1. ~IsEvent(toHost[1]) /\ s = toHost[1].session /\ s \notin calls
      BY <1>1, <2>2, <2>5 DEF TakesResult, CallsFit
    <3>2. sessions' = sessions \ {s}
      BY <2>5, Ends
    <3>3. ASSUME NEW n \in DOMAIN toHost', IsEvent(toHost'[n])
          PROVE  toHost'[n].event.session_id # s
      <4>1. 1 < n + 1
        BY <2>1, <3>3, TakenOff
      <4> QED
        BY <1>1, <2>2, <3>1, <3>3, <4>1 DEF CallsFit
    <3> QED
      BY <1>1, <2>1, <2>2, <2>3, <3>1, <3>2, <3>3 DEF CallsFit, IsEvent
  <2> QED
    BY <1>5, <2>4, <2>5 DEF TakesEvent, TakesResult, vars
<1> QED
  BY <1>2, <1>3, <1>4, <1>5, RestKind

\* Nothing of an operation is sent behind its outcome.
LEMMA ToolOutcomeIsLast ==
    ASSUME AlwaysKnown, FlagInv, toolSteps
    PROVE  OutcomeIsLast'
<1>1. OutcomeIsLast /\ CallsFit /\ TerminalRecords' = TerminalRecords /\ UNCHANGED ledger
  BY ToolKind, SameLedger DEF FlagInv
<1>2. ASSUME NEW i \in Ids, NEW m, Stamps(i, m) \/ Repeats(i, m)
      PROVE  OutcomeIsLast'
  <2>1. m \in Messages /\ Sends(m) /\ m.event.id = i /\ phase[i] # "concluded"
    BY <1>1, <1>2, SentEvent
  <2>2. /\ \A n \in DOMAIN toHost : n \in DOMAIN toHost' /\ toHost'[n] = toHost[n]
        /\ \A n \in DOMAIN toHost' :
              n \in DOMAIN toHost \/ (toHost'[n] = m /\ n = Len(toHost) + 1)
        /\ \A n \in DOMAIN toHost : n \in Nat /\ n < Len(toHost) + 1
    BY <2>1, SendsBehind
  <2>3. \A n \in DOMAIN toHost : toHost[n].method = "audit/outcome" => toHost[n].event.id # i
    BY <2>1 DEF AlwaysKnown, TruthInv, OutcomesTold, EndTold, Told
  <2>4. \A k \in TerminalRecords : ledger[k].event.id # i
    BY <2>1 DEF TerminalRecords, AlwaysKnown, TruthInv, RecordTellsTruth
  <2>5. ASSUME NEW n \in DOMAIN toHost', NEW k \in DOMAIN toHost',
               toHost'[n].method = "audit/outcome", IsEvent(toHost'[k]), n < k
        PROVE  toHost'[k].event.id # toHost'[n].event.id
    <3>1. n \in DOMAIN toHost /\ toHost'[n] = toHost[n]
      BY <2>1, <2>2, <2>5
    <3>2. CASE k \in DOMAIN toHost
      BY <1>1, <2>2, <2>5, <3>1, <3>2 DEF OutcomeIsLast
    <3>3. CASE toHost'[k] = m
      BY <2>1, <2>3, <2>5, <3>1, <3>3
    <3> QED
      BY <2>2, <3>2, <3>3
  <2>6. \A k \in TerminalRecords, n \in DOMAIN toHost' :
           IsEvent(toHost'[n]) => toHost'[n].event.id # ledger[k].event.id
    BY <1>1, <2>1, <2>2, <2>4 DEF OutcomeIsLast
  <2> QED
    BY <1>1, <2>5, <2>6 DEF OutcomeIsLast, IsEvent
<1>3. ASSUME NEW i \in Ids, Performs(i)
      PROVE  OutcomeIsLast'
  BY <1>1, <1>3 DEF Performs, OutcomeIsLast, IsEvent
<1>4. ASSUME NEW s \in Sessions, respond(s)
      PROVE  OutcomeIsLast'
  <2> DEFINE m == ResultMessage(s)
  <2>1. toHost' = Append(toHost, m) /\ m.method = "result"
    BY <1>4 DEF respond, ResultMessage
  <2> HIDE DEF m
  <2>2. toHost \in Seq(Messages) /\ ~IsEvent(m)
    BY <2>1 DEF AlwaysKnown, ToolInv, ToolTypeOK, IsEvent
  <2>3. \A n \in DOMAIN toHost' : toHost'[n] = m \/ (n \in DOMAIN toHost /\ toHost'[n] = toHost[n])
    BY <2>1, <2>2
  <2> QED
    BY <1>1, <2>1, <2>2, <2>3 DEF OutcomeIsLast, IsEvent
<1> QED
  BY <1>2, <1>3, <1>4, ToolKind

\* No step of the host puts an event behind its operation's outcome.
LEMMA HostOutcomeIsLast ==
    ASSUME AlwaysKnown, FlagInv, [CallNext]_allVars, ~toolSteps
    PROVE  OutcomeIsLast'
<1>1. OutcomeIsLast
  BY DEF FlagInv
<1>2. CASE UNCHANGED <<ledger, toHost>>
  <2>1. TerminalRecords' = TerminalRecords
    BY <1>2, SameLedger
  <2> QED
    BY <1>1, <1>2, <2>1 DEF OutcomeIsLast, IsEvent
<1>3. CASE TakesEvent \/ TakesResult
  <2>1. toHost # << >> /\ toHost' = Tail(toHost)
    BY <1>3 DEF TakesEvent, TakesResult
  <2>2. /\ \A n \in DOMAIN toHost' :
              n \in Nat /\ n + 1 \in DOMAIN toHost /\ toHost'[n] = toHost[n + 1] /\ 1 < n + 1
        /\ 1 \in DOMAIN toHost /\ Head(toHost) = toHost[1]
    BY <2>1, TakenOff
  <2>3. ASSUME NEW n \in DOMAIN toHost', NEW k \in DOMAIN toHost',
               toHost'[n].method = "audit/outcome", IsEvent(toHost'[k]), n < k
        PROVE  toHost'[k].event.id # toHost'[n].event.id
    <3>1. n + 1 < k + 1
      BY <2>2, <2>3
    <3> QED
      BY <1>1, <2>2, <2>3, <3>1 DEF OutcomeIsLast
  <2>4. ASSUME NEW k \in TerminalRecords', NEW n \in DOMAIN toHost', IsEvent(toHost'[n])
        PROVE  toHost'[n].event.id # ledger'[k].event.id
    <3>1. CASE k \in TerminalRecords /\ ledger'[k] = ledger[k]
      BY <1>1, <2>2, <2>4, <3>1 DEF OutcomeIsLast
    <3>2. CASE UNCHANGED ledger
      <4>1. TerminalRecords' = TerminalRecords
        BY <3>2, SameLedger
      <4> QED
        BY <2>4, <3>1, <3>2, <4>1
    <3>3. CASE TakesEvent /\ Seals(Head(toHost).event) /\ k \notin TerminalRecords
      <4> DEFINE e == Head(toHost).event
      <4>1. e \in Events /\ (IsAttempt(e) <=> Head(toHost).method = "audit/attempt")
            /\ Head(toHost).method \in {"audit/attempt", "audit/outcome"}
        BY <3>3, HeadEvent DEF TakesEvent, FlagInv
      <4> HIDE DEF e
      <4>2. ledger'[k].event = e /\ ~IsAttempt(e)
        BY <2>4, <3>3, <4>1, SealsAppends DEF AlwaysKnown, e
      <4>3. toHost[1].method = "audit/outcome" /\ toHost[1].event = e
        BY <2>2, <4>1, <4>2 DEF e
      <4> QED
        BY <1>1, <2>2, <2>4, <4>2, <4>3 DEF OutcomeIsLast
    <3>4. CASE TakesEvent /\ Seals(Head(toHost).event) /\ k \in TerminalRecords
      <4>1. Head(toHost).event \in Events
        BY <3>4, HeadEvent DEF TakesEvent, FlagInv
      <4>2. ledger'[k] = ledger[k]
        BY <3>4, <4>1, SealsAppends DEF AlwaysKnown, TerminalRecords
      <4> QED
        BY <3>1, <3>4, <4>2
    <3>5. UNCHANGED ledger \/ (TakesEvent /\ Seals(Head(toHost).event))
      BY <1>3, Ends DEF TakesEvent, Late, Takes, TakesResult, vars
    <3> QED
      BY <3>2, <3>3, <3>4, <3>5
  <2> QED
    BY <2>3, <2>4 DEF OutcomeIsLast, IsEvent
<1> QED
  <2>1. ASSUME NEW s \in Sessions, callAudited(s) \/ callGivenUp(s)
        PROVE  UNCHANGED <<ledger, toHost>>
    BY <2>1, Begins, GivenUp, Ends
  <2> QED
    BY <1>2, <1>3, <2>1, RestKind DEF Quiet

\* Events are the tool's, and name their sessions.
LEMMA BuiltEvents ==
    ASSUME AlwaysKnown, NEW e \in Built
    PROVE  e \in ToolEvents /\ e.session_id \in Sessions /\ e.signer_seq \in Nat
<1>1. e \in ToolEvents
  <2>1. CASE \E i \in Ids : phase[i] # "idle" /\ e = sent[i]
    BY <2>1 DEF AlwaysKnown, ToolInv, ToolTypeOK
  <2>2. CASE \E n \in DOMAIN toHost : IsEvent(toHost[n]) /\ e = toHost[n].event
    BY <2>2 DEF AlwaysKnown, ToolInv, MessagesOK, Messages, IsEvent
  <2>3. CASE \E n \in DOMAIN ledger : e = ledger[n].event
    BY <2>3 DEF AlwaysKnown, TruthInv, RecordsAreTools
  <2> QED
    BY <2>1, <2>2, <2>3 DEF Built
<1> QED
  BY <1>1, ToolEventFields, EventFields

\* At most one event is built in a step, and it is given the next number.
LEMMA BuiltStep ==
    ASSUME AlwaysKnown, FlagInv, [CallNext]_allVars
    PROVE  \/ Built' \subseteq Built /\ UNCHANGED nextSeq
           \/ \E i \in Ids : \E m : Stamps(i, m) /\ Built' \subseteq Built \cup {m.event}
<1>1. /\ phase \in [Ids -> {"idle", "asking", "performing", "concluded"}]
      /\ sent \in [Ids -> ToolEvents \cup {Nothing}]
  BY DEF AlwaysKnown, ToolInv, ToolTypeOK
<1>2. ASSUME NEW new,
             \A j \in Ids : phase'[j] # "idle" => sent'[j] = new \/ (phase[j] # "idle" /\ sent'[j] = sent[j]),
             \A n \in DOMAIN toHost' :
                IsEvent(toHost'[n]) => \/ toHost'[n].event = new
                                       \/ \E k \in DOMAIN toHost : toHost'[n] = toHost[k],
             \A n \in DOMAIN ledger' :
                ledger'[n].event = new \/ \E k \in DOMAIN ledger : ledger'[n] = ledger[k]
      PROVE  Built' \subseteq Built \cup {new}
  BY <1>2 DEF Built, IsEvent
<1>3. ASSUME NEW i \in Ids, NEW m, Stamps(i, m) \/ Repeats(i, m)
      PROVE  /\ \A n \in DOMAIN toHost' :
                   toHost'[n].event = m.event \/ \E k \in DOMAIN toHost : toHost'[n] = toHost[k]
             /\ \A j \in Ids : phase'[j] # "idle" =>
                   sent'[j] = m.event \/ (phase[j] # "idle" /\ sent'[j] = sent[j])
  <2>1. m \in Messages /\ Sends(m)
    BY <1>3 DEF Stamps, Repeats
  <2> QED
    BY <1>1, <1>3, <2>1, SendsBehind DEF Stamps, Repeats
<1>4. CASE toolSteps
  <2>1. UNCHANGED ledger
    BY <1>4, ToolKind
  <2>2. ASSUME NEW i \in Ids, NEW m, Stamps(i, m)
        PROVE  Built' \subseteq Built \cup {m.event}
    BY <1>2, <1>3, <2>1, <2>2
  <2>3. ASSUME NEW i \in Ids, NEW m, Repeats(i, m)
        PROVE  Built' \subseteq Built /\ UNCHANGED nextSeq
    <3>1. Built' \subseteq Built \cup {m.event}
      BY <1>2, <1>3, <2>1, <2>3
    <3>2. m.event \in Built /\ UNCHANGED nextSeq
      BY <2>3 DEF Repeats, Built
    <3> QED
      BY <3>1, <3>2
  <2>4. ASSUME NEW i \in Ids, Performs(i)
        PROVE  Built' \subseteq Built /\ UNCHANGED nextSeq
    BY <1>1, <2>1, <2>4 DEF Performs, Built, IsEvent
  <2>5. ASSUME NEW s \in Sessions, respond(s)
        PROVE  Built' \subseteq Built /\ UNCHANGED nextSeq
    <3>1. /\ toHost' = Append(toHost, ResultMessage(s)) /\ ~IsEvent(ResultMessage(s))
          /\ UNCHANGED <<phase, sent, nextSeq>>
      BY <2>5 DEF respond, ResultMessage, IsEvent
    <3>2. toHost \in Seq(Messages)
      BY DEF AlwaysKnown, ToolInv, ToolTypeOK
    <3>3. \A n \in DOMAIN toHost' :
             IsEvent(toHost'[n]) => n \in DOMAIN toHost /\ toHost'[n] = toHost[n]
      BY <3>1, <3>2
    <3> QED
      BY <2>1, <3>1, <3>3 DEF Built, IsEvent
  <2> QED
    BY <1>4, <2>2, <2>3, <2>4, <2>5, ToolKind
<1>5. CASE ~toolSteps
  <2>1. UNCHANGED <<phase, sent, nextSeq>>
    BY <1>5, RestKind
  <2>2. CASE UNCHANGED <<toHost, ledger>>
    BY <2>1, <2>2 DEF Built, IsEvent
  <2>3. CASE TakesResult
    <3>1. UNCHANGED ledger
      BY <2>3, Ends DEF TakesResult, vars
    <3>2. \A n \in DOMAIN toHost' : \E k \in DOMAIN toHost : toHost'[n] = toHost[k]
      BY <2>3, TakenOff DEF TakesResult
    <3> QED
      BY <2>1, <3>1, <3>2 DEF Built, IsEvent
  <2>4. CASE TakesEvent
    <3> DEFINE e == Head(toHost).event
    <3>1. \A n \in DOMAIN toHost' : \E k \in DOMAIN toHost : toHost'[n] = toHost[k]
      BY <2>4, TakenOff DEF TakesEvent
    <3>2. e \in Built /\ e \in Events
      BY <2>4, HeadEvent DEF TakesEvent, FlagInv
    <3>3. \A n \in DOMAIN ledger' :
             ledger'[n].event = e \/ \E k \in DOMAIN ledger : ledger'[n] = ledger[k]
      <4>1. Seals(e) \/ UNCHANGED ledger
        BY <2>4 DEF TakesEvent, Late, Takes
      <4> QED
        BY <3>2, <4>1, SealsAppends DEF AlwaysKnown
    <3> HIDE DEF e
    <3>4. Built' \subseteq Built \cup {e}
      BY <1>2, <2>1, <3>1, <3>3
    <3> QED
      BY <2>1, <3>2, <3>4
  <2>5. ASSUME NEW s \in Sessions, callAudited(s) \/ callGivenUp(s)
        PROVE  UNCHANGED <<ledger, toHost>>
    BY <2>5, Begins, GivenUp, Ends
  <2> QED
    BY <1>5, <2>1, <2>2, <2>3, <2>4, <2>5, RestKind DEF Quiet
<1> QED
  BY <1>4, <1>5

\* No number is given twice.
LEMMA NumbersTellStep ==
    ASSUME AlwaysKnown, FlagInv, [CallNext]_allVars
    PROVE  NumbersTell'
<1> SUFFICES ASSUME Signs
             PROVE  /\ \A e \in Built' : e.signer_seq < nextSeq'[e.session_id]
                    /\ \A e, f \in Built' :
                          e.session_id = f.session_id /\ e.signer_seq = f.signer_seq => e = f
  BY DEF NumbersTell
<1>1. /\ nextSeq \in [Sessions -> 0..(MaxSignerSeq + 1)] /\ MaxSignerSeq \in Nat
      /\ SessionOf \in [Ids -> Sessions]
  BY ToolAssumption DEF AlwaysKnown, ToolInv, ToolTypeOK
<1>2. /\ \A e \in Built : e.signer_seq < nextSeq[e.session_id]
      /\ \A e, f \in Built : e.session_id = f.session_id /\ e.signer_seq = f.signer_seq => e = f
  BY DEF FlagInv, NumbersTell
<1>3. \A e \in Built : e.session_id \in Sessions /\ e.signer_seq \in Nat
  BY BuiltEvents
<1>4. CASE Built' \subseteq Built /\ UNCHANGED nextSeq
  BY <1>2, <1>4
<1>5. ASSUME NEW i \in Ids, NEW m, Stamps(i, m), Built' \subseteq Built \cup {m.event}
      PROVE  /\ \A e \in Built' : e.signer_seq < nextSeq'[e.session_id]
             /\ \A e, f \in Built' :
                   e.session_id = f.session_id /\ e.signer_seq = f.signer_seq => e = f
  <2> DEFINE s == SessionOf[i]
  <2>1. /\ m.event.session_id = s /\ m.event.signer_seq = nextSeq[s]
        /\ nextSeq' = [nextSeq EXCEPT ![s] = @ + 1]
    BY <1>5 DEF Stamps
  <2>2. s \in Sessions /\ nextSeq[s] \in Nat /\ nextSeq'[s] = nextSeq[s] + 1
        /\ \A t \in Sessions : t # s => nextSeq'[t] = nextSeq[t]
    BY <1>1, <2>1
  <2>3. ASSUME NEW e \in Built
        PROVE  /\ e.signer_seq < nextSeq'[e.session_id]
               /\ e.session_id = s => e.signer_seq # m.event.signer_seq
    <3>1. e.signer_seq < nextSeq[e.session_id] /\ e.session_id \in Sessions /\ e.signer_seq \in Nat
      BY <1>2, <1>3
    <3> QED
      BY <2>1, <2>2, <3>1
  <2>4. m.event.signer_seq < nextSeq'[m.event.session_id]
    BY <2>1, <2>2
  <2> QED
    BY <1>2, <1>5, <2>1, <2>3, <2>4
<1> QED
  BY <1>4, <1>5, BuiltStep

\* A later position, a longer connection and a higher number received leave what
\* precedes where it is.
LEMMA PrecedesStays ==
    ASSUME NEW v \in Nat, NEW s \in Sessions, ToolKeyId \in KeyIds,
           NEW p \in Nat, NEW r \in Nat, p <= r,
           NEW q, NEW r1, NEW q2, NEW r2,
           \A n \in DOMAIN q : n \in Nat /\ n \in DOMAIN q2 /\ q2[n] = q[n],
           r2[s] = r1[s], Precedes(v, s, p, q, r1)
    PROVE  Precedes(v, s, r, q2, r2)
<1>1. CASE v <= r1[s][ToolKeyId]
  BY <1>1 DEF Precedes
<1>2. ASSUME NEW m \in DOMAIN q, m < p, IsEvent(q[m]), q[m].event.session_id = s,
             q[m].event.signer_seq = v
      PROVE  Precedes(v, s, r, q2, r2)
  <2>1. m \in DOMAIN q2 /\ q2[m] = q[m] /\ m < r
    BY <1>2
  <2> QED
    BY <1>2, <2>1 DEF Precedes
<1> QED
  BY <1>1, <1>2 DEF Precedes

\* What the tool sends keeps the order.
LEMMA ToolNumbersInOrder ==
    ASSUME AlwaysKnown, FlagInv, toolSteps
    PROVE  NumbersInOrder'
<1>1. UNCHANGED <<sessions, received>>
  BY ToolKind
<1> SUFFICES ASSUME Level = "L2", NEW s \in sessions, ~\E e \in lost' : e.session_id = s
             PROVE  InOrder(s, nextSeq', toHost', received')
  BY <1>1 DEF NumbersInOrder, LossIn
<1>2. lost \subseteq lost'
  BY CausesStay DEF CallNext
<1>3. InOrder(s, nextSeq, toHost, received)
  BY <1>2 DEF FlagInv, NumbersInOrder, LossIn
<1>4. /\ s \in Sessions /\ Signs /\ ToolKeyId \in KeyIds
      /\ nextSeq \in [Sessions -> Nat] /\ SessionOf \in [Ids -> Sessions]
      /\ toHost \in Seq(Messages) /\ sent \in [Ids -> ToolEvents \cup {Nothing}]
  BY CallAssumption, ToolAssumption DEF AlwaysKnown, ToolInv, ToolTypeOK, TypeOK, SessionsOK
<1>5. CASE UNCHANGED <<nextSeq, toHost>>
  BY <1>1, <1>3, <1>5 DEF InOrder
<1>6. ASSUME NEW i \in Ids, NEW m, Stamps(i, m) \/ Repeats(i, m)
      PROVE  InOrder(s, nextSeq', toHost', received')
  <2> DEFINE L == Len(toHost) + 1
             b == m.event.signer_seq
  <2>1. /\ m \in Messages /\ IsEvent(m) /\ Sends(m) /\ m.event.session_id = SessionOf[i]
    BY <1>6, SentEvent DEF FlagInv
  <2>2. /\ \A n \in DOMAIN toHost : n \in DOMAIN toHost' /\ toHost'[n] = toHost[n]
        /\ \A n \in DOMAIN toHost' : n \in DOMAIN toHost \/ (toHost'[n] = m /\ n = L)
        /\ \A n \in DOMAIN toHost : n \in Nat /\ n < L
        /\ m.event \in lost' \/ (L \in DOMAIN toHost' /\ toHost'[L] = m /\ Len(toHost') = L)
        /\ L \in Nat
    BY <1>4, <2>1, SendsBehind
  <2>3. Len(toHost') + 1 \in Nat /\ L <= Len(toHost') + 1
    BY <1>4, <2>1 DEF Sends
  <2>4. \/ nextSeq'[s] = nextSeq[s] /\ (SessionOf[i] = s => b < nextSeq[s])
        \/ nextSeq'[s] = nextSeq[s] + 1 /\ SessionOf[i] = s /\ b = nextSeq[s]
    <3>1. CASE Stamps(i, m)
      BY <1>4, <3>1 DEF Stamps
    <3>2. CASE Repeats(i, m)
      <4>1. m.event \in Built /\ nextSeq' = nextSeq
        BY <3>2 DEF Repeats, Built
      <4> QED
        BY <1>4, <2>1, <4>1 DEF FlagInv, NumbersTell
    <3> QED
      BY <1>6, <3>1, <3>2
  <2>5. nextSeq[s] \in Nat
    BY <1>4
  <2>6. \A v \in Nat : v < nextSeq[s] => Precedes(v, s, L, toHost, received)
    BY <1>3 DEF InOrder
  <2> HIDE DEF L, b
  <2>7. ASSUME NEW v \in Nat, NEW p \in Nat, NEW r \in Nat, p <= r,
               Precedes(v, s, p, toHost, received)
        PROVE  Precedes(v, s, r, toHost', received')
    BY <1>1, <1>4, <2>2, <2>7, PrecedesStays
  <2>8. ASSUME NEW v \in Nat, v < nextSeq'[s]
        PROVE  Precedes(v, s, Len(toHost') + 1, toHost', received')
    <3>1. CASE v < nextSeq[s]
      BY <2>2, <2>3, <2>6, <2>7, <3>1
    <3>2. CASE ~(v < nextSeq[s])
      <4>1. SessionOf[i] = s /\ b = v
        BY <2>4, <2>5, <2>8, <3>2
      <4>2. L \in DOMAIN toHost' /\ toHost'[L] = m /\ L < Len(toHost') + 1
        BY <2>1, <2>2, <4>1
      <4> QED
        BY <2>1, <4>1, <4>2 DEF Precedes, b
    <3> QED
      BY <3>1, <3>2
  <2>9. ASSUME NEW n \in DOMAIN toHost', NEW v \in Nat, IsEvent(toHost'[n]),
               toHost'[n].event.session_id = s, v < toHost'[n].event.signer_seq
        PROVE  Precedes(v, s, n, toHost', received')
    <3>1. CASE n \in DOMAIN toHost
      <4>1. Precedes(v, s, n, toHost, received)
        BY <1>3, <2>2, <2>9, <3>1 DEF InOrder
      <4> QED
        BY <2>2, <2>7, <3>1, <4>1
    <3>2. CASE toHost'[n] = m /\ n = L
      <4>1. SessionOf[i] = s /\ v < b
        BY <2>1, <2>9, <3>2 DEF b
      <4>2. v < nextSeq[s]
        <5>1. m.event \in ToolEvents
          BY <2>1 DEF Messages, IsEvent
        <5>2. b \in Nat
          BY <5>1, ToolEventFields, EventFields DEF b
        <5> QED
          BY <2>4, <2>5, <4>1, <5>2
      <4> QED
        BY <2>2, <2>6, <2>7, <3>2, <4>2
    <3> QED
      BY <2>2, <3>1, <3>2
  <2> QED
    BY <2>8, <2>9 DEF InOrder
<1>7. ASSUME NEW i \in Ids, Performs(i)
      PROVE  InOrder(s, nextSeq', toHost', received')
  BY <1>5, <1>7 DEF Performs
<1>8. ASSUME NEW t \in Sessions, respond(t)
      PROVE  InOrder(s, nextSeq', toHost', received')
  <2> DEFINE m == ResultMessage(t)
  <2>1. toHost' = Append(toHost, m) /\ ~IsEvent(m) /\ nextSeq' = nextSeq
    BY <1>8 DEF respond, ResultMessage, IsEvent
  <2> HIDE DEF m
  <2>2. /\ \A n \in DOMAIN toHost : n \in Nat /\ n \in DOMAIN toHost' /\ toHost'[n] = toHost[n]
        /\ \A n \in DOMAIN toHost' : n \in DOMAIN toHost \/ toHost'[n] = m
        /\ Len(toHost) + 1 \in Nat /\ Len(toHost') + 1 \in Nat
        /\ Len(toHost) + 1 <= Len(toHost') + 1
    BY <1>4, <2>1
  <2>3. ASSUME NEW v \in Nat, NEW p \in Nat, NEW r \in Nat, p <= r,
               Precedes(v, s, p, toHost, received)
        PROVE  Precedes(v, s, r, toHost', received')
    BY <1>1, <1>4, <2>2, <2>3, PrecedesStays
  <2>4. ASSUME NEW v \in Nat, v < nextSeq'[s]
        PROVE  Precedes(v, s, Len(toHost') + 1, toHost', received')
    BY <1>3, <2>1, <2>2, <2>3, <2>4 DEF InOrder
  <2>5. ASSUME NEW n \in DOMAIN toHost', NEW v \in Nat, IsEvent(toHost'[n]),
               toHost'[n].event.session_id = s, v < toHost'[n].event.signer_seq
        PROVE  Precedes(v, s, n, toHost', received')
    <3>1. n \in DOMAIN toHost /\ toHost'[n] = toHost[n] /\ n \in Nat
      BY <2>1, <2>2, <2>5
    <3>2. Precedes(v, s, n, toHost, received)
      BY <1>3, <2>5, <3>1 DEF InOrder
    <3> QED
      BY <2>3, <3>1, <3>2
  <2> QED
    BY <2>4, <2>5 DEF InOrder
<1> QED
  BY <1>6, <1>7, <1>8, ToolKind

\* What is taken off the connection counts as received.
LEMMA PrecedesMovesUp ==
    ASSUME AlwaysKnown, FlagInv, TakesEvent \/ TakesResult, Level = "L2",
           NEW s \in sessions, s \in sessions', NEW v \in Nat, NEW n \in Nat,
           Precedes(v, s, n + 1, toHost, received)
    PROVE  Precedes(v, s, n, toHost', received')
<1>1. toHost # << >> /\ toHost' = Tail(toHost)
  BY DEF TakesEvent, TakesResult
<1>2. /\ 1 \in DOMAIN toHost /\ Head(toHost) = toHost[1]
      /\ \A m \in DOMAIN toHost :
            m \in Nat /\ (m = 1 \/ (m - 1 \in DOMAIN toHost' /\ toHost'[m - 1] = toHost[m]))
  BY <1>1, TakenOff
<1>3. /\ s \in Sessions /\ ToolKeyId \in KeyIds
      /\ received \in [Sessions -> [KeyIds -> Nat \cup {NoneReceived}]]
  BY ToolAssumption DEF AlwaysKnown, TypeOK, SessionsOK, WindowOK
<1> DEFINE e == Head(toHost).event
<1>4. CASE TakesResult
  <2>1. received'[s] = received[s]
    <3>1. CASE UNCHANGED vars
      BY <3>1 DEF vars, windowVars
    <3>2. CASE closeSession(Head(toHost).session)
      BY <1>3, <3>2, Ends
    <3> QED
      BY <1>4, <3>1, <3>2 DEF TakesResult
  <2>2. CASE v <= received[s][ToolKeyId]
    BY <2>1, <2>2 DEF Precedes
  <2>3. ASSUME NEW m \in DOMAIN toHost, m < n + 1, IsEvent(toHost[m]),
               toHost[m].event.session_id = s, toHost[m].event.signer_seq = v
        PROVE  Precedes(v, s, n, toHost', received')
    <3>1. m # 1
      BY <1>2, <1>4, <2>3 DEF TakesResult
    <3>2. m - 1 \in DOMAIN toHost' /\ toHost'[m - 1] = toHost[m] /\ m - 1 < n
      BY <1>2, <2>3, <3>1
    <3> QED
      BY <2>3, <3>2 DEF Precedes
  <2> QED
    BY <2>2, <2>3 DEF Precedes
<1>5. CASE TakesEvent
  <2>1. /\ e \in ToolEvents /\ e.session_id \in Sessions /\ IsEvent(Head(toHost))
        /\ Late(e) \/ Takes(e)
    BY <1>1, <1>5, HeadEvent DEF TakesEvent, FlagInv
  <2>2. e.key_id = ToolKeyId /\ e.signer_seq \in Nat
    BY <2>1, ToolVerifies, ToolEventFields, EventFields DEF FlagInv
  <2> HIDE DEF e
  <2>3. /\ received[s][ToolKeyId] \in Nat \cup {0 - 1}
        /\ received'[s][ToolKeyId] \in Nat \cup {0 - 1}
        /\ received[s][ToolKeyId] <= received'[s][ToolKeyId]
        /\ e.session_id = s => e.signer_seq <= received'[s][ToolKeyId]
    <3>1. received[s][ToolKeyId] \in Nat \cup {0 - 1}
      BY <1>3 DEF NoneReceived
    <3>2. CASE Late(e)
      BY <3>1, <3>2 DEF Late
    <3>3. CASE Takes(e)
      <4>1. received' = IF e.signer_seq > received[e.session_id][e.key_id]
                        THEN [received EXCEPT ![e.session_id][e.key_id] = e.signer_seq]
                        ELSE received
        BY <3>3 DEF Takes, markReceived
      <4>2. CASE e.session_id = s
        BY <1>3, <2>2, <3>1, <4>1, <4>2
      <4>3. CASE e.session_id # s
        BY <1>3, <2>1, <3>1, <4>1, <4>3
      <4> QED
        BY <4>2, <4>3
    <3> QED
      BY <2>1, <3>2, <3>3
  <2>4. CASE v <= received[s][ToolKeyId]
    BY <2>3, <2>4 DEF Precedes
  <2>5. ASSUME NEW m \in DOMAIN toHost, m < n + 1, IsEvent(toHost[m]),
               toHost[m].event.session_id = s, toHost[m].event.signer_seq = v
        PROVE  Precedes(v, s, n, toHost', received')
    <3>1. CASE m = 1
      BY <1>2, <2>3, <2>5, <3>1 DEF Precedes, e
    <3>2. CASE m # 1
      <4>1. m - 1 \in DOMAIN toHost' /\ toHost'[m - 1] = toHost[m] /\ m - 1 < n
        BY <1>2, <2>5, <3>2
      <4> QED
        BY <2>5, <4>1 DEF Precedes
    <3> QED
      BY <3>1, <3>2
  <2> QED
    BY <2>4, <2>5 DEF Precedes
<1> QED
  BY <1>4, <1>5

\* The host keeps the order, and a session begins with nothing in it.
LEMMA HostNumbersInOrder ==
    ASSUME AlwaysKnown, FlagInv, [CallNext]_allVars, ~toolSteps
    PROVE  NumbersInOrder'
<1>1. UNCHANGED <<nextSeq, lost>>
  BY RestKind
<1> SUFFICES ASSUME Level = "L2", NEW s \in sessions', ~LossIn(s)
             PROVE  InOrder(s, nextSeq, toHost', received')
  BY <1>1 DEF NumbersInOrder, LossIn
<1>2. s \in sessions => InOrder(s, nextSeq, toHost, received)
  BY DEF FlagInv, NumbersInOrder
<1>3. /\ nextSeq \in [Sessions -> Nat] /\ toHost \in Seq(Messages) /\ calls \subseteq issued
      /\ sessions \subseteq issued /\ issued \subseteq Sessions
  BY ToolAssumption DEF AlwaysKnown, ToolInv, ToolTypeOK, TypeOK, SessionsOK
<1>4. CASE Quiet
  BY <1>2, <1>4 DEF Quiet
<1>5. ASSUME NEW t \in Sessions, callAudited(t)
      PROVE  InOrder(s, nextSeq, toHost', received')
  <2>1. /\ t \notin issued /\ sessions' = sessions \cup {t}
        /\ UNCHANGED <<toHost, received>>
    BY <1>5, Begins
  <2>2. CASE s = t
    <3>1. nextSeq[t] = 0
      BY <1>5, <2>1 DEF FlagInv, CallsFit
    <3>2. \A n \in DOMAIN toHost : IsEvent(toHost[n]) => toHost[n].event.session_id # t
      BY <1>3, <2>1 DEF FlagInv, CallsFit, AlwaysKnown, CallVarsOK
    <3> QED
      BY <2>1, <2>2, <3>1, <3>2 DEF InOrder
  <2> QED
    BY <1>2, <2>1, <2>2
<1>6. ASSUME NEW t \in Sessions, callGivenUp(t)
      PROVE  InOrder(s, nextSeq, toHost', received')
  <2>1. /\ sessions' = sessions \ {t} /\ toHost' = toHost
        /\ received' = [received EXCEPT ![t] = [k \in KeyIds |-> NoneReceived]]
    BY <1>6, GivenUp, Ends
  <2>2. s \in sessions /\ received'[s] = received[s]
    BY <1>3, <2>1 DEF AlwaysKnown, TypeOK, WindowOK
  <2> QED
    BY <1>2, <2>1, <2>2 DEF InOrder, Precedes
<1>7. CASE TakesEvent \/ TakesResult
  <2>1. toHost # << >> /\ toHost' = Tail(toHost) /\ s \in sessions
    <3>1. sessions' \subseteq sessions
      BY <1>7, Ends DEF TakesEvent, TakesResult, vars, sessionVars
    <3> QED
      BY <1>7, <3>1 DEF TakesEvent, TakesResult
  <2>2. /\ \A n \in DOMAIN toHost' :
              n \in Nat /\ n + 1 \in DOMAIN toHost /\ toHost'[n] = toHost[n + 1]
        /\ Len(toHost') + 1 \in Nat /\ (Len(toHost') + 1) + 1 = Len(toHost) + 1
    <3>1. /\ \A n \in DOMAIN toHost' :
                n \in Nat /\ n + 1 \in DOMAIN toHost /\ toHost'[n] = toHost[n + 1]
          /\ Len(toHost') = Len(toHost) - 1 /\ Len(toHost) \in Nat /\ Len(toHost) > 0
      BY <1>3, <2>1, TakenOff
    <3> QED
      BY <3>1
  <2>3. ASSUME NEW v \in Nat, NEW n \in Nat, Precedes(v, s, n + 1, toHost, received)
        PROVE  Precedes(v, s, n, toHost', received')
    BY <1>7, <2>1, <2>3, PrecedesMovesUp
  <2>4. ASSUME NEW v \in Nat, v < nextSeq[s]
        PROVE  Precedes(v, s, Len(toHost') + 1, toHost', received')
    BY <1>2, <2>1, <2>2, <2>3, <2>4 DEF InOrder
  <2>5. ASSUME NEW n \in DOMAIN toHost', NEW v \in Nat, IsEvent(toHost'[n]),
               toHost'[n].event.session_id = s, v < toHost'[n].event.signer_seq
        PROVE  Precedes(v, s, n, toHost', received')
    <3>1. Precedes(v, s, n + 1, toHost, received)
      BY <1>2, <2>1, <2>2, <2>5 DEF InOrder
    <3> QED
      BY <2>2, <2>3, <3>1
  <2> QED
    BY <2>4, <2>5 DEF InOrder
<1> QED
  BY <1>4, <1>5, <1>6, <1>7, RestKind

\* The tool takes nothing off the connection.
LEMMA ToolAddsBehind ==
    ASSUME AlwaysKnown, FlagInv, toolSteps
    PROVE  \A n \in DOMAIN toHost : n \in DOMAIN toHost' /\ toHost'[n] = toHost[n]
<1>1. ASSUME NEW j \in Ids, NEW m, Stamps(j, m) \/ Repeats(j, m)
      PROVE  \A n \in DOMAIN toHost : n \in DOMAIN toHost' /\ toHost'[n] = toHost[n]
  BY <1>1, SentEvent, SendsBehind DEF FlagInv
<1>2. ASSUME NEW j \in Ids, Performs(j)
      PROVE  \A n \in DOMAIN toHost : n \in DOMAIN toHost' /\ toHost'[n] = toHost[n]
  BY <1>2 DEF Performs
<1>3. ASSUME NEW s \in Sessions, respond(s)
      PROVE  \A n \in DOMAIN toHost : n \in DOMAIN toHost' /\ toHost'[n] = toHost[n]
  <2>1. toHost' = Append(toHost, ResultMessage(s)) /\ toHost \in Seq(Messages)
    BY <1>3 DEF respond, AlwaysKnown, ToolInv, ToolTypeOK
  <2> QED
    BY <2>1
<1> QED
  BY <1>1, <1>2, <1>3, ToolKind

\* How an operation ended is on its way from then on, until it is sealed.
LEMMA EndReportedStep ==
    ASSUME AlwaysKnown, FlagInv, [CallNext]_allVars
    PROVE  EndReported'
<1> SUFFICES ASSUME NEW i \in Ids, phase'[i] = "concluded"
             PROVE  \/ \E n \in DOMAIN toHost' :
                          toHost'[n].method = "audit/outcome" /\ toHost'[n].event.id = i
                    \/ \E k \in TerminalRecords' : ledger'[k].event.id = i
                    \/ \E e \in lost' : e.id = i /\ ~IsAttempt(e)
                    \/ SessionOf[i] \in outage' \cup givenUp'
  BY DEF EndReported
<1>1. lost \subseteq lost' /\ outage \subseteq outage' /\ givenUp \subseteq givenUp'
  BY CausesStay
<1>2. phase[i] = "concluded" =>
        \/ \E n \in DOMAIN toHost : toHost[n].method = "audit/outcome" /\ toHost[n].event.id = i
        \/ \E k \in TerminalRecords : ledger[k].event.id = i
        \/ \E e \in lost : e.id = i /\ ~IsAttempt(e)
        \/ SessionOf[i] \in outage \cup givenUp
  BY DEF FlagInv, EndReported
<1>3. CASE (\E e \in lost : e.id = i /\ ~IsAttempt(e)) \/ SessionOf[i] \in outage \cup givenUp
  BY <1>1, <1>3
<1>4. \A k \in TerminalRecords : k \in TerminalRecords' /\ ledger'[k] = ledger[k]
  <2>1. CASE UNCHANGED ledger
    BY <2>1, SameLedger
  <2>2. ASSUME NEW e \in Events, Seals(e)
        PROVE  \A k \in TerminalRecords : k \in TerminalRecords' /\ ledger'[k] = ledger[k]
    BY <2>2, SealsAppends DEF AlwaysKnown, TerminalRecords
  <2>3. CASE TakesEvent
    <3>1. Head(toHost).event \in Events
      BY <2>3, HeadEvent DEF TakesEvent, FlagInv
    <3> QED
      BY <2>1, <2>2, <2>3, <3>1 DEF TakesEvent, Late, Takes
  <2>4. ASSUME NEW s \in Sessions, callAudited(s) \/ callGivenUp(s)
        PROVE  UNCHANGED ledger
    BY <2>4, Begins, GivenUp, Ends
  <2>5. ASSUME TakesResult
        PROVE  UNCHANGED ledger
    BY <2>5, Ends DEF TakesResult, vars, sealVars
  <2> QED
    BY <2>1, <2>3, <2>4, <2>5, RestKind, ToolKind DEF Quiet
<1>5. CASE toolSteps
  <2>1. \A n \in DOMAIN toHost : n \in DOMAIN toHost' /\ toHost'[n] = toHost[n]
    BY <1>5, ToolAddsBehind
  <2>2. CASE phase[i] = "concluded"
    BY <1>2, <1>3, <1>4, <2>1, <2>2
  <2>3. CASE phase[i] # "concluded"
    <3>1. PICK m : Stamps(i, m) /\ m.method = "audit/outcome" /\ ~IsAttempt(m.event)
      <4>1. phase \in [Ids -> {"idle", "asking", "performing", "concluded"}]
        BY DEF AlwaysKnown, ToolInv, ToolTypeOK
      <4> QED
        BY <1>5, <2>3, <4>1, ToolKind DEF Stamps, Told, Repeats, Performs, respond
    <3>2. m \in Messages /\ Sends(m) /\ m.event.id = i /\ m.event.session_id = SessionOf[i]
      BY <3>1, SentEvent DEF FlagInv
    <3> QED
      BY <3>1, <3>2, SendsBehind
  <2> QED
    BY <2>2, <2>3
<1>6. CASE ~toolSteps
  <2>1. phase[i] = "concluded"
    BY <1>6, RestKind
  <2>2. CASE \E k \in TerminalRecords : ledger[k].event.id = i
    BY <1>4, <2>2
  <2>3. ASSUME NEW n \in DOMAIN toHost, toHost[n].method = "audit/outcome", toHost[n].event.id = i
        PROVE  \/ \E k \in DOMAIN toHost' :
                     toHost'[k].method = "audit/outcome" /\ toHost'[k].event.id = i
               \/ \E k \in TerminalRecords' : ledger'[k].event.id = i
               \/ SessionOf[i] \in outage' \cup givenUp'
    <3>1. CASE toHost' = toHost
      BY <2>3, <3>1
    <3>2. CASE (TakesEvent \/ TakesResult) /\ n # 1
      <4>1. n - 1 \in DOMAIN toHost' /\ toHost'[n - 1] = toHost[n]
        BY <3>2, TakenOff DEF TakesEvent, TakesResult
      <4> QED
        BY <2>3, <4>1
    <3>3. CASE TakesEvent /\ n = 1
      <4> DEFINE e == Head(toHost).event
      <4>1. /\ toHost # << >> /\ IsEvent(Head(toHost)) /\ (Late(e) \/ Takes(e))
            /\ outage' = IF hadOutage THEN outage \cup {e.session_id} ELSE outage
        BY <3>3 DEF TakesEvent
      <4>2. /\ e \in Events /\ e.session_id = SessionOf[e.id]
            /\ IsAttempt(e) <=> Head(toHost).method = "audit/attempt"
        BY <4>1, HeadEvent DEF FlagInv
      <4>3. e.id = i /\ ~IsAttempt(e)
        BY <2>3, <3>3, <4>1, <4>2, HeadOf DEF AlwaysKnown
      <4> HIDE DEF e
      <4>4. CASE Late(e)
        BY <1>1, <4>2, <4>3, <4>4 DEF Late
      <4>5. CASE Seals(e)
        <5>1. Len(ledger) + 1 \in TerminalRecords' /\ ledger'[Len(ledger) + 1].event = e
          BY <4>2, <4>3, <4>5, SealsAppends DEF AlwaysKnown
        <5> QED
          BY <4>3, <5>1
      <4>6. CASE hadOutage
        BY <4>1, <4>2, <4>3, <4>6
      <4> QED
        BY <4>1, <4>3, <4>4, <4>5, <4>6 DEF Takes
    <3>4. ~(TakesResult /\ n = 1)
      BY <2>3, HeadOf DEF TakesResult, IsEvent, AlwaysKnown
    <3>5. ASSUME NEW s \in Sessions, callAudited(s) \/ callGivenUp(s)
          PROVE  toHost' = toHost
      BY <3>5, Begins, GivenUp
    <3> QED
      BY <1>6, <3>1, <3>2, <3>3, <3>4, <3>5, RestKind DEF Quiet
  <2> QED
    BY <1>2, <1>3, <2>1, <2>2, <2>3
<1> QED
  BY <1>5, <1>6

-----------------------------------------------------------------------------
\* Every step keeps the invariant.
LEMMA FlagInvStep ==
    ASSUME AlwaysKnown, FlagInv, [CallNext]_allVars
    PROVE  FlagInv'
<1>1. RegistryFixed' /\ refused' = {}
  BY EnvironmentStep
<1>2. CallsFit' /\ OutcomeIsLast' /\ NumbersInOrder'
  <2>1. CASE toolSteps
    BY <2>1, ToolCallsFit, ToolOutcomeIsLast, ToolNumbersInOrder
  <2>2. CASE ~toolSteps
    BY <2>2, HostCallsFit, HostOutcomeIsLast, HostNumbersInOrder
  <2> QED
    BY <2>1, <2>2
<1>3. NumbersTell' /\ EndReported' /\ FlagsHaveCause'
  BY NumbersTellStep, EndReportedStep, FlagsStep
<1> QED
  BY <1>1, <1>2, <1>3 DEF FlagInv

\* It holds before any call.
LEMMA FlagInit == CallInit => FlagInv
<1> SUFFICES ASSUME CallInit PROVE FlagInv
  OBVIOUS
<1>1. /\ registry = register(emptyRegistry, ToolKeyId, ToolKey)
      /\ issued = {} /\ sessions = {} /\ ledger = << >> /\ anomalies = {} /\ refused = {}
      /\ calls = {} /\ phase = [i \in Ids |-> "idle"] /\ nextSeq = [s \in Sessions |-> 0]
      /\ toHost = << >>
  BY DEF CallInit, InitWith, ToolInit
<1>2. DOMAIN toHost = {} /\ DOMAIN ledger = {} /\ \A i \in Ids : phase[i] = "idle"
  BY <1>1
<1>3. RegistryFixed /\ CallsFit /\ OutcomeIsLast
  BY <1>1, <1>2 DEF RegistryFixed, CallsFit, OutcomeIsLast, TerminalRecords
<1>4. Built = {}
  BY <1>2 DEF Built
<1> QED
  BY <1>1, <1>2, <1>3, <1>4
     DEF FlagInv, NumbersTell, NumbersInOrder, EndReported, FlagsHaveCause

\* It is an invariant of calls.
LEMMA FlagInvariant ==
    ASSUME MaxMisdelivered = 0 \/ Signs \/ RequireCountersign
    PROVE  CallSpec => [](AlwaysKnown /\ FlagInv)
<1>1. AlwaysKnown /\ FlagInv /\ [CallNext]_allVars => FlagInv'
  BY FlagInvStep
<1>2. CallSpec => []AlwaysKnown
  <2>1. CallSpec => [](BooksMatchLedger /\ SpentIsDecided /\ IndexIsSealed /\ IndexNames)
    BY CallImplementsHost, BooksTheorem, SpentCorrect, IndexCorrect, IndexNamed, PTL
  <2> QED
    BY <2>1, TruthInvariant, PerformedTheorem, PTL DEF AlwaysKnown
<1> QED
  BY <1>1, <1>2, FlagInit, PTL DEF CallSpec

\* Whatever was lost, late, repeated or not sealed, and whether or not calls were
\* given up, the host flags the events of an honest tool only for what happened:
\* a number is missing where an event was lost, an attempt is left without an
\* outcome where one was lost or not sealed or the call given up, and a session is
\* not open where its call was given up.  No replay, orphan, conflict or bad
\* signature is ever found.
THEOREM FlagsTheorem ==
    ASSUME MaxMisdelivered = 0 \/ Signs \/ RequireCountersign
    PROVE  CallSpec => []FlagsHaveCause
BY FlagInvariant, PTL DEF FlagInv
=============================================================================
