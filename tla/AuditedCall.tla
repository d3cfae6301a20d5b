------------------------------ MODULE AuditedCall ---------------------------
(***************************************************************************)
(* Calls over a connection (mcp/wiring.ts): the host opens a session for a *)
(* call, the tool serves it under audit-before-act, and the host closes    *)
(* the session when the call ends - with its result, or because the host   *)
(* gave it up.  The connection delivers in order (section 6.5); a transport*)
(* may fail to carry an event, an answer may come too late or not at all,  *)
(* and the answer that reaches the tool may be one the host gave for       *)
(* another record.                                                         *)
(* Meanwhile whoever runs the tool may change its registry of host keys.   *)
(*                                                                         *)
(* History: `givenUp` holds the calls the host gave up, `outage` the       *)
(* sessions in which an event arrived while the host could not seal, and   *)
(* `misdelivered` counts the answers replaced on their way.                *)
(***************************************************************************)
EXTENDS AuditHost, AmcpTool

CONSTANTS
    MaxMisdelivered,     \* bound: answers replaced on their way
    MayGiveUp            \* whether the host may give a call up

\* Negotiation fits the two sides together: a Level-2 host serves a tool that
\* signs, and a tool that requires countersignatures a host that makes them.
ASSUME CallAssumption ==
    /\ Level = "L2" => Signs
    /\ RequireCountersign => Countersigns
    /\ MaxMisdelivered \in Nat
    /\ MayGiveUp \in BOOLEAN

VARIABLES inFlight, givenUp, outage, misdelivered

\* The part of the state that no step of the tool changes.
callVars == <<inFlight, givenUp, outage, misdelivered, hostRegistry>>

allVars == <<vars, toolVars, callVars>>

CallInit ==
    /\ InitWith(register(emptyRegistry, ToolKeyId, ToolKey))
    /\ ToolInit
    /\ inFlight = {} /\ givenUp = {} /\ outage = {} /\ misdelivered = 0

-----------------------------------------------------------------------------

\* The request reaches the tool before anything else can happen in its session.
callAudited(s) ==
    /\ openSession(s)
    /\ inFlight' = inFlight \cup {s}
    /\ calls' = calls \cup {s}
    /\ UNCHANGED <<phase, sent, asked, nextSeq, performed, toHost, toTool, lost,
                   givenUp, outage, misdelivered, hostRegistry>>

\* Variant: closing is left to the result of the call.
endCall_staysInFlight(s) == closeSession(s) /\ inFlight' = inFlight

\* callAudited's finally.
endCall(s) == closeSession(s) /\ inFlight' = inFlight \ {s}

\* The request times out or is cancelled: the client stops waiting.  The tool's
\* handler never looks at the signal and goes on.
callGivenUp(s) ==
    /\ MayGiveUp
    /\ s \in inFlight
    /\ endCall(s)
    /\ givenUp' = givenUp \cup {s}
    /\ UNCHANGED <<toolVars, outage, misdelivered, hostRegistry>>

\* The tool's operations and its result.
toolSteps ==
    /\ \/ \E i \in Ids : operates(i)
       \/ \E s \in Sessions : respond(s)
    /\ UNCHANGED <<vars, callVars>>

\* The event just handled could have been sealed but for the host's own trouble.
hadOutage == unavailable \/ (hostClock' # hostClock /\ ledger' = ledger)

notesOutage(s) == outage' = IF hadOutage THEN outage \cup {s} ELSE outage

\* An answer reaches the request it answers, if the tool still waits for that one.
answers(message) ==
    LET i == message.event.id IN
    toTool' = IF answer' # {} /\ phase[i] = "asking" /\ asked[i] = message.try
              THEN [toTool EXCEPT ![i] = (CHOOSE a \in answer' : TRUE).response]
              ELSE toTool

receiveAttempt(message) ==
    /\ message.method = "audit/attempt"
    /\ handleAttempt(message.event, inFlight)
    /\ answers(message)
    /\ notesOutage(message.event.session_id)
    /\ UNCHANGED inFlight

receiveOutcome(message) ==
    /\ message.method = "audit/outcome"
    /\ handleOutcome(message.event, inFlight)
    /\ notesOutage(message.event.session_id)
    /\ UNCHANGED <<inFlight, toTool>>

\* The result of a call the host gave up already is dropped.
receiveResult(message) ==
    /\ message.method = "result"
    /\ IF message.session \in inFlight
       THEN endCall(message.session)
       ELSE UNCHANGED <<vars, inFlight>>
    /\ UNCHANGED <<outage, toTool>>

\* The host takes the next message off the connection.
receive ==
    /\ toHost # << >>
    /\ toHost' = Tail(toHost)
    /\ LET message == Head(toHost) IN
          receiveAttempt(message) \/ receiveOutcome(message) \/ receiveResult(message)
    /\ UNCHANGED <<calls, phase, sent, asked, nextSeq, performed, lost, givenUp, misdelivered,
                   hostRegistry>>

\* What the host's records let anyone answer: the accept of any record, with its
\* own countersignature, with another record's, or with none.
ReplayableAnswers ==
    {[Accept(ledger[n]) EXCEPT !.host_signature = signature] :
        n \in DOMAIN ledger,
        signature \in {{}} \cup {ledger[m].host_signature : m \in DOMAIN ledger}}

\* Another answer takes the place of the host's.
misdeliver(i) ==
    /\ misdelivered < MaxMisdelivered
    /\ toTool[i] # Nothing
    /\ \E response \in ReplayableAnswers \ {toTool[i]} :
          toTool' = [toTool EXCEPT ![i] = response]
    /\ misdelivered' = misdelivered + 1
    /\ UNCHANGED <<vars, calls, phase, sent, asked, nextSeq, performed, toHost, lost,
                   inFlight, givenUp, outage, hostRegistry>>

switchDurability == setUnavailable /\ UNCHANGED <<toolVars, callVars>>

\* A key of the tool's registry of hosts is registered or revoked.
provisionTool ==
    /\ changeHostRegistry
    /\ UNCHANGED <<vars, toolVars, inFlight, givenUp, outage, misdelivered>>

CallNext ==
    \/ \E s \in Sessions : callAudited(s) \/ callGivenUp(s)
    \/ toolSteps
    \/ receive
    \/ \E i \in Ids : misdeliver(i)
    \/ switchDurability
    \/ provisionTool

CallSpec == CallInit /\ [][CallNext]_allVars

\* The connection delivers, a wait ends - answered or not -, an operation that is
\* performed ends, and a handler with nothing left to wait for returns.  No call
\* is ever made, given up or started on for fairness's sake.
FairCallSpec ==
    /\ CallSpec
    /\ WF_allVars(receive)
    /\ \A i \in Ids :
          /\ WF_allVars((unanswered(i) \/ answered(i)) /\ UNCHANGED <<vars, callVars>>)
          /\ WF_allVars(performEnds(i) /\ UNCHANGED <<vars, callVars>>)
    /\ \A s \in Sessions : WF_allVars(respond(s) /\ UNCHANGED <<vars, callVars>>)
-----------------------------------------------------------------------------
(***************************************************************************)
(* Properties.                                                             *)
(***************************************************************************)

\* Every variable of the composition has its type.
CallTypeOK ==
    /\ ToolTypeOK
    /\ inFlight = sessions
    /\ givenUp \subseteq issued
    /\ outage \subseteq issued
    /\ misdelivered \in 0..MaxMisdelivered
    /\ hostRegistry \in HostRegistryType

\* Audit before act (section 6): an operation that is being performed, or was, has
\* its very attempt sealed in the ledger - whatever was lost, late, retried or
\* misdelivered, and whether or not the call was given up meanwhile.
PerformedIsSealed ==
    \A i \in Ids :
       performed[i] > 0 => \E n \in DOMAIN ledger : ledger[n].event = sent[i]

entryOf(e) ==
    IF IsAttempt(e) THEN "attempt" ELSE IF e.outcome = "aborted" THEN "refused" ELSE "done"

\* Who sees the ledger and the effects sees this much of an operation.
actOf ==
    [i \in Ids |->
        IF phase[i] \in {"idle", "asking"} THEN "undecided"
        ELSE IF phase[i] = "performing"    THEN "running"
        ELSE IF performed[i] = 0           THEN "refused" ELSE "done"]

recordOf ==
    [i \in Ids |-> {entryOf(ledger[n].event) : n \in {m \in DOMAIN ledger : ledger[m].event.id = i}}]

Operations == INSTANCE AuditedOperations WITH
    open <- sessions, ended <- issued \ sessions, act <- actOf, record <- recordOf

\* The exchange, with its retries, late answers, outages and calls given up,
\* implements the promise: acting follows the sealed attempt, a refusal is final,
\* and of each operation the ledger gets at most its attempt and then how it
\* ended, truthfully and while its call is under way.
AuditBeforeAct == Operations!Spec

\* The ledger tells the truth about an honest tool: its attempt records are the
\* attempts sent, an `aborted` record is of an operation that never was and never
\* will be performed, and a `success` or `failed` one of an operation performed
\* once, and over.
RecordTellsTruth ==
    \A n \in DOMAIN ledger :
       LET e == ledger[n].event IN
       /\ IsAttempt(e) => e = sent[e.id]
       /\ ~IsAttempt(e) => phase[e.id] = "concluded"
       /\ e.outcome = "aborted" => performed[e.id] = 0
       /\ e.outcome \in {"success", "failed"} => performed[e.id] = 1

\* The host flags an honest tool's events only with a cause: a gap when the
\* transport lost an event of that session, an unresolved attempt when it lost
\* one, could not seal one or gave the call up, and a closed session's event when
\* it gave the call up.  It never finds a replay, an orphan or a bad signature.
FlagsHaveCause ==
    \A a \in anomalies :
       LET s        == SessionOf[a.id]
           lossInIt == \E e \in lost : e.session_id = s
       IN
       \/ a.kind = "signer-seq-gap" /\ lossInIt
       \/ a.kind = "unresolved-attempt" /\ (lossInIt \/ s \in outage \/ s \in givenUp)
       \/ a.kind = "replay-detected" /\ a.detail = "session" /\ s \in givenUp

\* With no answer replaced on its way, the tool refuses an accept of the host, the
\* first or a repeat, for one reason alone: at the moment it checks, its registry
\* does not hold the host's key as a current one, and then it refuses every
\* countersigned accept.  A countersignature that is missing or made over something
\* else, or a record hash that is not the attempt's, never stops an operation.
AnswersVerify ==
    misdelivered = 0 =>
      \A i \in Ids :
         toTool[i] # Nothing =>
           LET reason  == AbortReason(i, toTool[i])
               trusted == hostRegistry[HostKeyId] = [publicKey |-> HostKey, revoked |-> FALSE]
           IN
           /\ reason \notin {"host-uncountersigned", "hash-mismatch"}
           /\ reason = "host-signature-invalid" <=>
                /\ toTool[i].status = "accept"
                /\ Countersigns /\ Verifies
                /\ ~trusted

\* What closeSession's own comment says of the moment it is called, every outcome of
\* the session has been delivered: no outcome of an operation that was performed
\* comes to the host after its session ended.
AllDeliveredAtEnd ==
    [][receive =>
         LET message == Head(toHost) IN
         message.method = "audit/outcome" /\ performed[message.event.id] > 0 =>
           message.event.session_id \in sessions]_allVars

\* Every audited call ends, so every session is closed.
CallsEnd == \A s \in Sessions : s \in sessions ~> s \notin sessions
=============================================================================
