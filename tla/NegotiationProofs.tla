--------------------------- MODULE NegotiationProofs -------------------------
(***************************************************************************)
(* Theorems about Negotiation, for every set of versions: what two parties *)
(* that compare their declarations apart agree on.                         *)
(***************************************************************************)
EXTENDS Negotiation, TLAPS

NegotiationTypeOK ==
    /\ host \in AuditCapability /\ tool \in AuditCapability
    /\ hostSaid \in AuditCapability \cup {Undeclared, Malformed}
    /\ toolSaid \in {tool, Undeclared, Malformed}
    /\ forceSession \in BOOLEAN /\ audits \in BOOLEAN /\ session \in BOOLEAN
    /\ stage \in {"start", "connected", "called", "over"}

\* The two ways a tool of this extension serves a call.
ByServer == recorded = (IF compare(hostSaid, tool, FALSE) /\ session THEN "host" ELSE "refused")

ByTransport ==
    /\ hostSaid # Malformed
    /\ \E fallback \in BOOLEAN, posture \in {"degraded", "mandatory"} :
          recorded = transportFor(negotiateCapability(hostSaid, tool), fallback, posture)

\* What each stage decided, in terms of the declarations.
StagesFit ==
    /\ stage # "start" => audits = (forceSession \/ compare(toolSaid, host, TRUE))
    /\ stage \in {"called", "over"} => session = audits
    /\ stage # "over" => recorded = "nowhere"
    /\ stage = "over" => IF toolSaid = tool THEN ByServer \/ ByTransport ELSE recorded = "nowhere"

NegotiationInv == NegotiationTypeOK /\ StagesFit

\* Nothing has been declared at the beginning.
LEMMA NegotiationInitOK == NegotiationInit => NegotiationInv
BY DEF NegotiationInit, NegotiationInv, NegotiationTypeOK, StagesFit

\* No step changes what the parties can do or declared.
LEMMA NegotiationStep == NegotiationInv /\ [NegotiationNext]_negotiationVars => NegotiationInv'
<1> SUFFICES ASSUME NegotiationInv, [NegotiationNext]_negotiationVars
             PROVE  NegotiationInv'
  OBVIOUS
<1> USE DEF NegotiationInv, NegotiationTypeOK, StagesFit
<1>1. CASE connectAuditPair
  BY <1>1, Zenon DEF connectAuditPair, compare
<1>2. CASE callTool
  BY <1>2 DEF callTool
<1>3. CASE createToolServer
  BY <1>3 DEF createToolServer, served, ByServer
<1>4. ASSUME NEW fallback \in BOOLEAN, NEW posture \in {"degraded", "mandatory"},
             serveThroughTransportFor(fallback, posture)
      PROVE  NegotiationInv'
  BY <1>4 DEF serveThroughTransportFor, served, ByTransport
<1>5. CASE serveOrdinarily
  BY <1>5 DEF serveOrdinarily, served
<1>6. CASE UNCHANGED negotiationVars
  BY <1>6 DEF negotiationVars, ByServer, ByTransport
<1> QED
  BY <1>1, <1>2, <1>3, <1>4, <1>5, <1>6 DEF NegotiationNext

\* It holds throughout every negotiation.
LEMMA NegotiationInvariant == NegotiationSpec => []NegotiationInv
BY NegotiationInitOK, NegotiationStep, PTL DEF NegotiationSpec

-----------------------------------------------------------------------------
(***************************************************************************)
(* Both comparisons come to whether the declarations fit.                  *)
(***************************************************************************)

\* Either comparison of the declarations decides whether they fit.
LEMMA ComparisonsFit ==
    ASSUME NegotiationTypeOK
    PROVE  /\ compare(toolSaid, host, TRUE) <=> toolSaid = tool /\ fits(host, tool)
           /\ hostSaid = host => (compare(hostSaid, tool, FALSE) <=> fits(host, tool))
           /\ hostSaid = host => (negotiated(negotiateCapability(hostSaid, tool)) <=> fits(host, tool))
<1>1. /\ Undeclared \notin AuditCapability /\ Malformed \notin AuditCapability
      /\ host \in AuditCapability /\ tool \in AuditCapability
      /\ toolSaid \in {tool, Undeclared, Malformed}
  BY DeclarationAssumption DEF NegotiationTypeOK
<1>2. host \notin {Undeclared, Malformed} /\ tool \notin {Undeclared, Malformed}
  BY <1>1
<1>3. negotiated(negotiateCapability(host, tool)) <=> fits(host, tool)
  BY <1>2 DEF negotiated, negotiateCapability
<1>4. compare(toolSaid, host, TRUE) <=> toolSaid = tool /\ fits(host, tool)
  BY <1>1, <1>2, <1>3 DEF compare
<1>5. compare(host, tool, FALSE) <=> fits(host, tool)
  BY <1>2, <1>3 DEF compare
<1> QED
  BY <1>3, <1>4, <1>5

\* Where a tool records a call is decided by whether the declarations fit.
LEMMA RecordedWhere ==
    ASSUME NegotiationInv, stage = "over", hostSaid = host
    PROVE  /\ toolSaid # tool => recorded = "nowhere"
           /\ toolSaid = tool => recorded \in {"host", "refused", "fallback"}
           /\ recorded = "host" => toolSaid = tool /\ fits(host, tool)
           /\ recorded = "fallback" => toolSaid = tool /\ tool.countersign # "host"
<1>1. /\ compare(hostSaid, tool, FALSE) <=> fits(host, tool)
      /\ negotiated(negotiateCapability(hostSaid, tool)) <=> fits(host, tool)
      /\ negotiateCapability(hostSaid, tool).tool = tool
  BY ComparisonsFit DEF NegotiationInv, negotiateCapability
<1>2. CASE toolSaid # tool
  BY <1>2 DEF NegotiationInv, StagesFit
<1>3. CASE toolSaid = tool /\ ByServer
  BY <1>1, <1>3 DEF ByServer
<1>4. CASE toolSaid = tool /\ ByTransport
  BY <1>1, <1>4 DEF ByTransport, transportFor
<1> QED
  BY <1>2, <1>3, <1>4 DEF NegotiationInv, StagesFit

\* Each party comparing for itself, a call of a truthful host carries a session if
\* and only if its operations are recorded with the host.
THEOREM SidesTheorem == NegotiationSpec => []SidesAgree
<1>1. NegotiationInv => SidesAgree
  <2> SUFFICES ASSUME NegotiationInv, hostSaid = host, ~forceSession, stage = "over"
               PROVE  session <=> recorded = "host"
    BY DEF SidesAgree
  <2>1. session <=> toolSaid = tool /\ fits(host, tool)
    BY ComparisonsFit DEF NegotiationInv, NegotiationTypeOK, StagesFit
  <2>2. /\ compare(hostSaid, tool, FALSE) <=> fits(host, tool)
        /\ negotiated(negotiateCapability(hostSaid, tool)) <=> fits(host, tool)
    BY ComparisonsFit DEF NegotiationInv
  <2>3. CASE toolSaid # tool
    BY <2>1, <2>3, RecordedWhere
  <2>4. CASE toolSaid = tool /\ ByServer
    BY <2>1, <2>2, <2>4 DEF ByServer
  <2>5. CASE toolSaid = tool /\ ByTransport
    BY <2>1, <2>2, <2>5 DEF ByTransport, transportFor
  <2> QED
    BY <2>3, <2>4, <2>5 DEF NegotiationInv, StagesFit
<1> QED
  BY <1>1, NegotiationInvariant, PTL

\* A call recorded with a truthful host can be recorded there.
THEOREM RecordedFitsTheorem == NegotiationSpec => []RecordedCallFits
<1>1. NegotiationInv => RecordedCallFits
  <2> SUFFICES ASSUME NegotiationInv, recorded = "host", hostSaid = host
               PROVE  /\ tool.spec_version = host.spec_version
                      /\ host.level = "L2" => tool.level = "L2"
                      /\ tool.countersign = "host" => host.countersign = "host"
    BY DEF RecordedCallFits
  <2>1. stage = "over"
    BY DEF NegotiationInv, StagesFit
  <2>2. fits(host, tool)
    BY <2>1, RecordedWhere
  <2>3. host \in AuditCapability /\ tool \in AuditCapability
    BY DEF NegotiationInv, NegotiationTypeOK
  <2> QED
    BY <2>2, <2>3
    DEF fits, levelSatisfies, countersignSatisfies, LEVEL_RANK, COUNTERSIGN_RANK, AuditCapability
<1> QED
  BY <1>1, NegotiationInvariant, PTL

\* A tool that declares the extension neither serves silently nor records a call
\* where each of its operations would abort for want of a countersignature.
THEOREM NeverSilentTheorem == NegotiationSpec => []NeverSilentNorStuck
<1>1. NegotiationInv => NeverSilentNorStuck
  <2> SUFFICES ASSUME NegotiationInv, stage = "over", toolSaid = tool
               PROVE  /\ recorded # "nowhere"
                      /\ tool.countersign = "host" /\ hostSaid = host =>
                           recorded = "refused" \/ (recorded = "host" /\ host.countersign = "host")
    BY DEF NeverSilentNorStuck
  <2>1. recorded # "nowhere"
    BY DEF NegotiationInv, StagesFit, ByServer, ByTransport, transportFor
  <2>2. ASSUME tool.countersign = "host", hostSaid = host
        PROVE  recorded = "refused" \/ (recorded = "host" /\ host.countersign = "host")
    <3>1. recorded \in {"host", "refused"} /\ (recorded = "host" => fits(host, tool))
      BY <2>2, RecordedWhere
    <3>2. host \in AuditCapability /\ tool \in AuditCapability
      BY DEF NegotiationInv, NegotiationTypeOK
    <3>3. fits(host, tool) => host.countersign = "host"
      BY <2>2, <3>2 DEF fits, countersignSatisfies, COUNTERSIGN_RANK, AuditCapability
    <3> QED
      BY <3>1, <3>3
  <2> QED
    BY <2>1, <2>2
<1> QED
  BY <1>1, NegotiationInvariant, PTL
=============================================================================
