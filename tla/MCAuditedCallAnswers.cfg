CONSTANTS
    a = a
    b = b
    s1 = s1
    k1 = k1
    pk1 = pk1
    hk = hk
    hpk = hpk
    NotRegistered = NotRegistered
    NoKey = NoKey
    Forged = Forged
    Nothing = Nothing
    Ids = {a, b}
    Bodies = {"action"}
    Sessions = {s1}
    KeyIds = {k1}
    PublicKeys = {pk1, hpk}
    ToolKeyId = k1
    ToolKey = pk1
    Level = "L1"
    Countersigns = TRUE
    Signs = FALSE
    Verifies = TRUE
    RequireCountersign = TRUE
    HostKeyId = hk
    HostKey = hpk
    HostKeyVaries = TRUE
    AttemptRetries = 1
    MaxLost = 0
    MaxMisdelivered = 1
    MayGiveUp = FALSE
    MaxHostClock = 5
    MaxSignerSeq = 0
    SessionOf <- OneCall
    Events <- ToolEvents
SPECIFICATION CallSpec
INVARIANTS
    PerformedIsSealed
    AnswersVerify
