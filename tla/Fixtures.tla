------------------------------- MODULE Fixtures ------------------------------
(***************************************************************************)
(* The sessions and keys of the pinned vectors (vectors/fixtures.ts).      *)
(***************************************************************************)
EXTENDS AuditExchange, FiniteSets

CONSTANTS
    SESSION_ABC, SESSION_XYZ, SESSION_L2,
    TOOL_KEY_ID, HOST_KEY_ID, OTHER_HOST_KEY_ID,
    ToolKey, HostKey, OtherHostKey

ASSUME FixturesAssumption ==
    /\ Cardinality({SESSION_ABC, SESSION_XYZ, SESSION_L2}) = 3
    /\ {SESSION_XYZ, SESSION_L2} \subseteq Sessions
    /\ TOOL_KEY_ID \in KeyIds
    /\ {ToolKey, HostKey, OtherHostKey} \subseteq PublicKeys
    /\ Cardinality({ToolKey, HostKey, OtherHostKey}) = 3

\* The registry of tool keys, of host and verifier alike.
toolRegistry == register(emptyRegistry, TOOL_KEY_ID, ToolKey)
=============================================================================
