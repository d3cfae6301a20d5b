CONSTANTS
    a = a
    b = b
    c = c
    s1 = s1
    k1 = k1
    pk1 = pk1
    hk = hk
    hpk = hpk
    NotRegistered = NotRegistered
    NoKey = NoKey
    Forged = Forged
    Nothing = Nothing
    Ids = {a, b, c}
    Bodies = {"db.query", "ext.geocode", "db.write"}
    Sessions = {s1}
    KeyIds = {k1}
    PublicKeys = {pk1, hpk}
    ToolKeyId = k1
    ToolKey = pk1
    Level = "L2"
    Countersigns = FALSE
    Signs = TRUE
    Verifies = FALSE
    RequireCountersign = FALSE
    HostKeyId = hk
    HostKey = hpk
    HostKeyVaries = FALSE
    AttemptRetries = 1
    MaxLost = 2
    MaxMisdelivered = 0
    MayGiveUp = TRUE
    MaxHostClock = 6
    MaxSignerSeq = 5
    SessionOf <- OneCall
    Events <- ToolEvents
    StepsOf <- InOrder
SPECIFICATION FairAnalystSpec
INVARIANTS
    RecordsFollowProgram
    ResultTellsRecord
PROPERTIES
    FairCallSpec
