CONSTANTS
    a = a
    b = b
    s1 = s1
    k1 = k1
    pk1 = pk1
    hk = hk
    hpk = hpk
    NotRegistered = NotRegistered
    NoKey = NoKey
    Forged = Forged
    Nothing = Nothing
    Ids = {a, b}
    Bodies = {"action"}
    Sessions = {s1}
    KeyIds = {k1}
    PublicKeys = {pk1, hpk}
    ToolKeyId = k1
    ToolKey = pk1
    Level = "L2"
    Countersigns = FALSE
    Signs = TRUE
    Verifies = FALSE
    RequireCountersign = FALSE
    HostKeyId = hk
    HostKey = hpk
    HostKeyVaries = FALSE
    AttemptRetries = 1
    MaxLost = 1
    MaxMisdelivered = 0
    MayGiveUp = TRUE
    MaxHostClock = 4
    MaxSignerSeq = 3
    SessionOf <- OneCall
    Events <- ToolEvents
SPECIFICATION FairCallSpec
INVARIANTS
    CallTypeOK
    RecordTellsTruth
    FlagsHaveCause
    UnaccountedIsExact
    HonestCallVerifies
PROPERTIES
    AuditBeforeAct
    CallsEnd
