----------------------------- MODULE Negotiation ----------------------------
(***************************************************************************)
(* Capability negotiation (schema/capability.ts), the postures of a tool   *)
(* towards an unnegotiated call (transport/degradation.ts), and how a      *)
(* connection uses both (mcp/wiring.ts): each party compares the two       *)
(* declarations for itself, the host to decide whether its calls carry an  *)
(* audit session, the tool to decide how it serves them.                   *)
(***************************************************************************)
EXTENDS Naturals

CONSTANTS
    Versions,        \* the spec_version a party may declare
    Undeclared,      \* a peer that declares no such extension
    Malformed        \* a declaration that does not validate

\* auditCapabilitySchema; `attempt` has one value only.
AuditCapability ==
    [spec_version : Versions, level : {"L1", "L2"}, countersign : {"none", "host"}]

ASSUME DeclarationAssumption ==
    /\ Undeclared \notin AuditCapability
    /\ Malformed \notin AuditCapability \cup {Undeclared}

LEVEL_RANK == [level \in {"L1", "L2"} |-> IF level = "L1" THEN 1 ELSE 2]

COUNTERSIGN_RANK == [c \in {"none", "host"} |-> IF c = "none" THEN 1 ELSE 2]

\* Variant: the axis runs the other way.
levelSatisfies_reversed(tool, host) == LEVEL_RANK[host.level] >= LEVEL_RANK[tool.level]

levelSatisfies(tool, host) == LEVEL_RANK[tool.level] >= LEVEL_RANK[host.level]

countersignSatisfies(host, tool) ==
    COUNTERSIGN_RANK[host.countersign] >= COUNTERSIGN_RANK[tool.countersign]

fits(host, tool) ==
    /\ tool.spec_version = host.spec_version
    /\ levelSatisfies(tool, host)
    /\ countersignSatisfies(host, tool)

negotiateCapability(host, tool) ==
    [tool |-> tool,
     outcome |-> IF host = Undeclared THEN "undeclared"
                 ELSE IF fits(host, tool) THEN "negotiated" ELSE "mismatch"]

negotiated(negotiation) == negotiation.outcome = "negotiated"

\* Variant: the peer is taken for the host, whoever asks.
compare_peerIsHost(peer, own, ownIsHost) ==
    peer \notin {Undeclared, Malformed} /\ negotiated(negotiateCapability(peer, own))

\* A party's own comparison with what its peer declared.
compare(peer, own, ownIsHost) ==
    /\ peer \notin {Undeclared, Malformed}
    /\ negotiated(IF ownIsHost THEN negotiateCapability(own, peer)
                  ELSE negotiateCapability(peer, own))

\* Variant: any tool with somewhere to record may degrade.
transportFor_degradesAlways(negotiation, fallback, posture) ==
    IF negotiated(negotiation) THEN "host"
    ELSE IF posture = "mandatory" \/ ~fallback THEN "refused"
    ELSE "fallback"

\* Where a call is recorded, or "refused" for an exception.
transportFor(negotiation, fallback, posture) ==
    IF negotiated(negotiation) THEN "host"
    ELSE IF \/ posture = "mandatory"
            \/ negotiation.tool.countersign = "host"
            \/ ~fallback
         THEN "refused"
    ELSE "fallback"

-----------------------------------------------------------------------------
(***************************************************************************)
(* One connection and one call on it.                                      *)
(***************************************************************************)

VARIABLES
    host, tool,            \* what each party can do
    hostSaid, toolSaid,    \* what each party declared in initialize
    forceSession,          \* the option of the same name
    audits,                \* whether the host audits its calls
    stage,                 \* "start", "connected", "called" or "over"
    session,               \* whether the call carries a session
    recorded               \* where the call's operations are recorded

negotiationVars == <<host, tool, hostSaid, toolSaid, forceSession, audits, stage, session, recorded>>

NegotiationInit ==
    /\ host \in AuditCapability /\ tool \in AuditCapability
    /\ hostSaid \in AuditCapability \cup {Undeclared, Malformed}
    /\ toolSaid \in {tool, Undeclared, Malformed}
    /\ forceSession \in BOOLEAN
    /\ audits = FALSE /\ stage = "start" /\ session = FALSE /\ recorded = "nowhere"

\* initialize: the host compares what the tool declared with what it can do.
connectAuditPair ==
    /\ stage = "start"
    /\ stage' = "connected"
    /\ audits' = (forceSession \/ compare(toolSaid, host, TRUE))
    /\ UNCHANGED <<host, tool, hostSaid, toolSaid, forceSession, session, recorded>>

\* A call carries a session if the host audits it.
callTool ==
    /\ stage = "connected"
    /\ stage' = "called"
    /\ session' = audits
    /\ UNCHANGED <<host, tool, hostSaid, toolSaid, forceSession, audits, recorded>>

served(where) ==
    /\ stage = "called"
    /\ stage' = "over"
    /\ recorded' = where
    /\ UNCHANGED <<host, tool, hostSaid, toolSaid, forceSession, audits, session>>

\* The server of wiring.ts: mandatory posture.
createToolServer ==
    /\ toolSaid = tool
    /\ served(IF compare(hostSaid, tool, FALSE) /\ session THEN "host" ELSE "refused")

\* A tool that asks transportFor how to serve the call.
serveThroughTransportFor(fallback, posture) ==
    /\ toolSaid = tool /\ hostSaid # Malformed
    /\ served(transportFor(negotiateCapability(hostSaid, tool), fallback, posture))

\* A peer without the extension serves the call as it always did.
serveOrdinarily == toolSaid # tool /\ served("nowhere")

NegotiationNext ==
    \/ connectAuditPair
    \/ callTool
    \/ createToolServer
    \/ \E fallback \in BOOLEAN, posture \in {"degraded", "mandatory"} :
          serveThroughTransportFor(fallback, posture)
    \/ serveOrdinarily

NegotiationSpec == NegotiationInit /\ [][NegotiationNext]_negotiationVars
-----------------------------------------------------------------------------
(***************************************************************************)
(* Properties.                                                             *)
(***************************************************************************)

\* The parties, each comparing for itself, come to the same answer: unless the
\* host misdeclares or a session is forced on it, a call carries a session if and
\* only if its operations are recorded with the host - no session is opened that
\* no event will ever name, and no event is sent that no session will take.
SidesAgree ==
    hostSaid = host /\ ~forceSession /\ stage = "over" =>
      (session <=> recorded = "host")

\* A call recorded with a truthful host can be: the two speak one version, a
\* Level-2 host gets signed events, and a tool that requires countersignatures a
\* host that makes them - what the model of a call takes for granted.
RecordedCallFits ==
    recorded = "host" /\ hostSaid = host =>
      /\ tool.spec_version = host.spec_version
      /\ host.level = "L2" => tool.level = "L2"
      /\ tool.countersign = "host" => host.countersign = "host"

\* A tool that declares the extension never serves a call silently (section 6.2),
\* and never records it where each of its operations would have to abort for want
\* of a countersignature: a host the tool provides for itself makes none.
NeverSilentNorStuck ==
    stage = "over" /\ toolSaid = tool =>
      /\ recorded # "nowhere"
      /\ tool.countersign = "host" /\ hostSaid = host =>
           recorded = "refused" \/ (recorded = "host" /\ host.countersign = "host")
=============================================================================
