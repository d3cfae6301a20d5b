CONSTANTS
    SESSION_ABC = SESSION_ABC
    SESSION_XYZ = SESSION_XYZ
    SESSION_L2 = SESSION_L2
    TOOL_KEY_ID = TOOL_KEY_ID
    HOST_KEY_ID = HOST_KEY_ID
    OTHER_HOST_KEY_ID = OTHER_HOST_KEY_ID
    ToolKey = ToolKey
    HostKey = HostKey
    OtherHostKey = OtherHostKey
    TopOfDomain = 12
    NotRegistered = NotRegistered
    NoKey = NoKey
    Forged = Forged
    Nothing = Nothing
    OutOfDomain = OutOfDomain
    Ids = {1, 2, 3, 20, 21, 22, 23, 24, 30, 31, 32, 33, 34}
    Bodies = {"action", "db.write"}
    Sessions <- AllSessions
    KeyIds = {TOOL_KEY_ID}
    PublicKeys = {ToolKey, HostKey, OtherHostKey}
    Level = "L2"
    Countersigns = FALSE
    MaxHostClock = 12
    Events <- ReplayEvents
SPECIFICATION ConformanceSpec
INVARIANTS
    CasesAsPinned
    AccountingIsExact
PROPERTIES
    StepsAsPinned
CHECK_DEADLOCK FALSE
