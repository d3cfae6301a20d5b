------------------------------- MODULE AmcpTool -----------------------------
(***************************************************************************)
(* The tool side of the exchange (tool/amcp.ts, l2/signing.ts): every      *)
(* internal operation of a call is wrapped in audit-before-act.  The tool  *)
(* stamps and sends an attempt, waits for its answer or for the end of its *)
(* patience, performs the operation only after an accept that passes every *)
(* check, and sends one terminal outcome.                                  *)
(*                                                                         *)
(* An operation is known by the id its events carry (deps.newId, fresh for *)
(* each).  Operations of one call may overlap: the session object keeps no *)
(* state of its own between them but the signer's counter.  `toHost` is    *)
(* the connection, in order; `toTool` holds the answer to the request an   *)
(* operation is waiting on.  `performed` counts the calls of perform, and  *)
(* `lost` is history: the events the transport failed to carry.            *)
(*                                                                         *)
(* `hostRegistry` is what this tool knows of the key the host countersigns *)
(* under.  Whoever runs the tool fills it, and no step of a call waits for *)
(* that: the key may be unknown yet, another than the host's, or revoked   *)
(* by the time an answer is checked.                                       *)
(***************************************************************************)
EXTENDS AuditExchange, FiniteSets

CONSTANTS
    SessionOf,           \* the session of the call an operation belongs to
    Signs,               \* a signer is present: Level-2 emission
    ToolKeyId, ToolKey,  \* its key
    Verifies,            \* a CountersignatureVerifier is configured
    RequireCountersign,  \* the tool declares countersign "host"
    HostKeyId, HostKey,  \* the key the host countersigns under
    HostKeyVaries,       \* bound: whether the tool's host registry may differ from that
    AttemptRetries,      \* how often an attempt is sent again
    MaxSignerSeq,        \* bound: highest signer_seq of a session
    MaxLost              \* bound: events the transport may lose

\* The events one tool builds: the body is no input of this layer.
ToolEvents ==
    {e \in [id : Ids, session_id : Sessions, outcome : Outcomes,
            reason : AbortReasons \cup {NoReason}, body : Bodies,
            key_id : {IF Signs THEN ToolKeyId ELSE NoKey},
            signer_seq : IF Signs THEN 0..MaxSignerSeq ELSE {0},
            signed_by : {IF Signs THEN ToolKey ELSE Forged}] :
       /\ e.session_id = SessionOf[e.id]
       /\ WellFormed(e)}

ASSUME ToolAssumption ==
    /\ SessionOf \in [Ids -> Sessions]
    /\ Signs \in BOOLEAN
    /\ ToolKeyId \in KeyIds
    /\ ToolKey \in PublicKeys
    /\ Verifies \in BOOLEAN
    /\ RequireCountersign \in BOOLEAN
    /\ RequireCountersign => Verifies
    /\ HostKey \in PublicKeys
    /\ HostKeyVaries \in BOOLEAN
    /\ AttemptRetries \in Nat
    /\ MaxSignerSeq \in Nat
    /\ MaxLost \in Nat
    /\ ToolEvents \subseteq Events

VARIABLES
    calls,       \* the sessions of the calls being served
    phase,       \* of an operation: idle, asking, performing, concluded
    sent,        \* its attempt, stamped once
    asked,       \* how often the attempt was sent
    nextSeq,     \* KeySigner.next: the number the next event of a session gets
    performed,
    toHost, toTool,
    lost,
    hostRegistry \* the tool's key registry of hosts

\* What a step of the tool changes; hostRegistry is only read by it.
toolVars == <<calls, phase, sent, asked, nextSeq, performed, toHost, toTool, lost>>

HostRegistryType == [{HostKeyId} -> RegisteredKey \cup {NotRegistered}]

emptyHostRegistry == [keyId \in {HostKeyId} |-> NotRegistered]

ToolInit ==
    /\ \/ hostRegistry = register(emptyHostRegistry, HostKeyId, HostKey)
       \/ HostKeyVaries /\ hostRegistry = emptyHostRegistry
    /\ calls = {}
    /\ phase = [i \in Ids |-> "idle"]
    /\ sent = [i \in Ids |-> Nothing]
    /\ asked = [i \in Ids |-> 0]
    /\ nextSeq = [s \in Sessions |-> 0]
    /\ performed = [i \in Ids |-> 0]
    /\ toHost = << >>
    /\ toTool = [i \in Ids |-> Nothing]
    /\ lost = {}

OpsOf(s) == {i \in Ids : SessionOf[i] = s}

-----------------------------------------------------------------------------
(***************************************************************************)
(* The host's key in the tool's registry.                                  *)
(***************************************************************************)

\* The id gets a key, the host's or another one, for good.
registerHostKey(publicKey) ==
    /\ mayRegister(hostRegistry, HostKeyId, publicKey)
    /\ hostRegistry' = register(hostRegistry, HostKeyId, publicKey)

revokeHostKey ==
    /\ isRegistered(hostRegistry, HostKeyId)
    /\ hostRegistry' = revoke(hostRegistry, HostKeyId)

changeHostRegistry ==
    /\ HostKeyVaries
    /\ (\E publicKey \in PublicKeys : registerHostKey(publicKey)) \/ revokeHostKey

-----------------------------------------------------------------------------
(***************************************************************************)
(* Building, signing and sending an event: one step, nothing awaits.       *)
(***************************************************************************)

\* The event of operation i as stamp() returns it.
stamped(i, outcome, reason, body) ==
    [id |-> i, session_id |-> SessionOf[i], outcome |-> outcome,
     reason |-> reason, body |-> body,
     key_id |-> IF Signs THEN ToolKeyId ELSE NoKey,
     signer_seq |-> IF Signs THEN nextSeq[SessionOf[i]] ELSE 0,
     signed_by |-> IF Signs THEN ToolKey ELSE Forged]

\* KeySigner.sign numbers the events it signs per audit session, from 0.
numbers(s) ==
    /\ Signs => nextSeq[s] <= MaxSignerSeq
    /\ nextSeq' = IF Signs THEN [nextSeq EXCEPT ![s] = @ + 1] ELSE nextSeq

\* A message goes out, or the transport fails and the event is lost.
transmits(message) ==
    \/ toHost' = Append(toHost, message) /\ UNCHANGED lost
    \/ /\ lost' = lost \cup {message.event}
       /\ Cardinality(lost') <= MaxLost
       /\ UNCHANGED toHost

AttemptMessage(i, attempt, try) ==
    [method |-> "audit/attempt", event |-> attempt, try |-> try]

OutcomeMessage(e) == [method |-> "audit/outcome", event |-> e]

ResultMessage(s) == [method |-> "result", session |-> s]

\* A terminal outcome is stamped and sent, and the operation is over.
concludes(i, outcome, reason) ==
    /\ phase' = [phase EXCEPT ![i] = "concluded"]
    /\ transmits(OutcomeMessage(stamped(i, outcome, reason, sent[i].body)))
    /\ numbers(SessionOf[i])
    /\ UNCHANGED <<calls, sent, asked>>

\* Variant: the operation is refused to its caller alone.
abort_unsent(i, reason) ==
    /\ phase' = [phase EXCEPT ![i] = "concluded"]
    /\ toTool' = [toTool EXCEPT ![i] = Nothing]
    /\ UNCHANGED <<calls, sent, asked, nextSeq, performed, toHost, lost>>

abort(i, reason) ==
    /\ concludes(i, "aborted", reason)
    /\ toTool' = [toTool EXCEPT ![i] = Nothing]
    /\ UNCHANGED performed

-----------------------------------------------------------------------------
(***************************************************************************)
(* AmcpSession.audited, from one await to the next.                        *)
(***************************************************************************)

\* The operation starts: its attempt is stamped once and sent.
audited(i, body) ==
    /\ SessionOf[i] \in calls
    /\ phase[i] = "idle"
    /\ LET attempt == stamped(i, "attempted", NoReason, body) IN
          /\ sent' = [sent EXCEPT ![i] = attempt]
          /\ transmits(AttemptMessage(i, attempt, 1))
    /\ numbers(SessionOf[i])
    /\ phase' = [phase EXCEPT ![i] = "asking"]
    /\ asked' = [asked EXCEPT ![i] = 1]
    /\ UNCHANGED <<calls, performed, toTool>>

MayRetry(i) == asked[i] <= AttemptRetries

\* Variant: a retry is stamped anew.
retry_restamps(i) ==
    LET attempt == stamped(i, "attempted", NoReason, sent[i].body) IN
    /\ MayRetry(i)
    /\ sent' = [sent EXCEPT ![i] = attempt]
    /\ transmits(AttemptMessage(i, attempt, asked[i] + 1))
    /\ numbers(SessionOf[i])
    /\ asked' = [asked EXCEPT ![i] = @ + 1]
    /\ toTool' = [toTool EXCEPT ![i] = Nothing]
    /\ UNCHANGED <<calls, phase, performed>>

\* The identical attempt again, as a new request.
retry(i) ==
    /\ MayRetry(i)
    /\ transmits(AttemptMessage(i, sent[i], asked[i] + 1))
    /\ asked' = [asked EXCEPT ![i] = @ + 1]
    /\ toTool' = [toTool EXCEPT ![i] = Nothing]
    /\ UNCHANGED <<calls, phase, sent, nextSeq, performed>>

\* Variant: the last attempt is waited for without a bound.
unanswered_waits(i) == phase[i] = "asking" /\ retry(i)

\* No Attempt Response within the wait: nothing came, it came as a protocol error
\* or malformed, or it comes too late and is dropped.
unanswered(i) ==
    /\ phase[i] = "asking"
    /\ \/ retry(i)
       \/ ~MayRetry(i) /\ abort(i, "host-unavailable")

Uncountersigned(response) ==
    RequireCountersign /\ response.host_signature = {}

\* Variant: the tool looks the key up as a verifier does, revoked or not.
countersignatureVerifies_get(response) ==
    /\ isRegistered(hostRegistry, HostKeyId)
    /\ get(hostRegistry, HostKeyId).publicKey = HostKey
    /\ response.host_signature =
         {countersignaturePayload(response.seq, response.host_ts,
                                  response.previous_hash, response.record_hash)}

\* countersignatureCheck for a tool: under a key that is registered and not revoked,
\* an ideal countersignature verifies over exactly the payload it was made over.
countersignatureVerifies(response) ==
    /\ isCurrent(hostRegistry, HostKeyId)
    /\ get(hostRegistry, HostKeyId).publicKey = HostKey
    /\ response.host_signature =
         {countersignaturePayload(response.seq, response.host_ts,
                                  response.previous_hash, response.record_hash)}

CountersignatureInvalid(response) ==
    Verifies /\ response.host_signature # {} /\ ~countersignatureVerifies(response)

\* Variant: a countersigned accept is not recomputed.
Polluted_uncountersigned(i, response) ==
    /\ Signs
    /\ response.record_hash #
         computeRecordHash(sent[i], response.seq, response.host_ts, response.previous_hash)

\* The accept is for another record than this attempt's.
Polluted(i, response) ==
    /\ Signs \/ RequireCountersign
    /\ response.record_hash #
         computeRecordHash(sent[i], response.seq, response.host_ts, response.previous_hash)

\* What stops the operation after this answer, in the order the tool asks.
AbortReason(i, response) ==
    CASE response.status = "reject"         -> "host-rejected"
      [] response.status = "unavailable"    -> "host-unavailable"
      [] response.status = "accept" ->
           IF Uncountersigned(response) THEN "host-uncountersigned"
           ELSE IF CountersignatureInvalid(response) THEN "host-signature-invalid"
           ELSE IF Polluted(i, response) THEN "hash-mismatch"
           ELSE NoReason

\* Variant: out of retries, the tool acts without a record.
answered_failsOpen(i) ==
    LET response == toTool[i] IN
    /\ phase[i] = "asking" /\ response # Nothing
    /\ \/ response.status = "unavailable" /\ retry(i)
       \/ response.status # "unavailable"
          /\ AbortReason(i, response) # NoReason /\ abort(i, AbortReason(i, response))
       \/ /\ response.status = "unavailable" \/ AbortReason(i, response) = NoReason
          /\ ~(response.status = "unavailable" /\ MayRetry(i))
          /\ phase' = [phase EXCEPT ![i] = "performing"]
          /\ performed' = [performed EXCEPT ![i] = @ + 1]
          /\ toTool' = [toTool EXCEPT ![i] = Nothing]
          /\ UNCHANGED <<calls, sent, asked, nextSeq, toHost, lost>>

\* `unavailable` is retried as no answer is; anything but an accept that passes
\* every check stops the operation; then perform is called.
answered(i) ==
    LET response == toTool[i]
        reason   == AbortReason(i, response)
    IN
    /\ phase[i] = "asking" /\ response # Nothing
    /\ \/ response.status = "unavailable" /\ retry(i)
       \/ /\ response.status = "unavailable" => ~MayRetry(i)
          /\ reason # NoReason
          /\ abort(i, reason)
       \/ /\ reason = NoReason
          /\ phase' = [phase EXCEPT ![i] = "performing"]
          /\ performed' = [performed EXCEPT ![i] = @ + 1]
          /\ toTool' = [toTool EXCEPT ![i] = Nothing]
          /\ UNCHANGED <<calls, sent, asked, nextSeq, toHost, lost>>

\* Variant: an operation that threw is reported as one never performed.
performEnds_throwIsAbort(i) ==
    /\ phase[i] = "performing"
    /\ \/ concludes(i, "success", NoReason)
       \/ concludes(i, "aborted", "host-unavailable")
    /\ UNCHANGED <<performed, toTool>>

\* perform returned, or it threw.
performEnds(i) ==
    /\ phase[i] = "performing"
    /\ \E outcome \in {"success", "failed"} : concludes(i, outcome, NoReason)
    /\ UNCHANGED <<performed, toTool>>

\* The handler of tools/call returns: it awaited every operation it started.
respond(s) ==
    /\ s \in calls
    /\ \A i \in OpsOf(s) : phase[i] \in {"idle", "concluded"}
    /\ calls' = calls \ {s}
    /\ toHost' = Append(toHost, ResultMessage(s))
    /\ UNCHANGED <<phase, sent, asked, nextSeq, performed, toTool, lost>>

operates(i) ==
    \/ \E body \in Bodies : audited(i, body)
    \/ unanswered(i)
    \/ answered(i)
    \/ performEnds(i)
-----------------------------------------------------------------------------

Messages ==
         [method : {"audit/attempt"}, event : ToolEvents, try : Nat]
    \cup [method : {"audit/outcome"}, event : ToolEvents]
    \cup [method : {"result"}, session : Sessions]

\* Every variable has its type; an operation under way has an attempt of its own.
ToolTypeOK ==
    /\ calls \subseteq Sessions
    /\ phase \in [Ids -> {"idle", "asking", "performing", "concluded"}]
    /\ sent \in [Ids -> ToolEvents \cup {Nothing}]
    /\ \A i \in Ids : phase[i] # "idle" => sent[i] # Nothing /\ sent[i].id = i
    /\ asked \in [Ids -> 0..(AttemptRetries + 1)]
    /\ nextSeq \in [Sessions -> 0..(MaxSignerSeq + 1)]
    /\ performed \in [Ids -> Nat]
    /\ toHost \in Seq(Messages)
    /\ toTool \in [Ids -> Responses \cup {Nothing}]
    /\ lost \subseteq ToolEvents
=============================================================================
